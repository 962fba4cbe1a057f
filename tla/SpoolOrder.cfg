CONSTANTS
  k1 = k1
  k2 = k2
  c1 = c1
  n1 = n1
  Keys = {k1, k2}
  Convs = {c1}
  ConvOf <- MCConvOf
  MaxText = 0
  MaxPending = 3
  Candidates = {n1}
  NoCandidate = NoCandidate
  Faults = {"early"}
  KarteErrors = {}
  MaxCrashes = 1
SPECIFICATION Spec
SYMMETRY Symmetry
INVARIANTS AckedDurable Handoff
PROPERTY ImplementsLog
CHECK_DEADLOCK FALSE
