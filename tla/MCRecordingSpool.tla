---------------------------- MODULE MCRecordingSpool ----------------------------
(* Small instances of RecordingSpool. *)
EXTENDS RecordingSpoolLog, TLC

CONSTANTS k1, k2, c1, n1

MCConvOf == [k \in Keys |-> c1]
Symmetry == Permutations(Keys) \cup Permutations(Candidates)
===============================================================================
