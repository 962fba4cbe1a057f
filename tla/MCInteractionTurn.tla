---------------------------- MODULE MCInteractionTurn ----------------------------
(***************************************************************************)
(* One operation of InteractionTurn in three shapes, each bounded where    *)
(* the others are not: with voice sessions that are left and resumed, with *)
(* a second attempt of several units, and with a spoken attempt of two     *)
(* chunks.                                                                 *)
(***************************************************************************)
EXTENDS InteractionTurn

CONSTANTS o1

VARIABLES shape

InitShape == Init /\ shape \in {"sessions", "attempts", "chunks"}

Bound ==
  /\ shape # "sessions" => UNCHANGED voice
  /\ shape = "sessions" => \A op \in Ops : Len(turns'[op].units) =< 1
  /\ shape # "attempts" => \A op \in Ops : turns'[op].rev =< 1
  /\ IF shape = "chunks" THEN \A op \in Ops : turns'[op].input \in {"none", "voice"}
                         ELSE \A op \in Ops : Len(turns'[op].chunks) =< 1

NextShape == Next /\ Bound /\ UNCHANGED shape

\* Neither a session nor another attempt is a step that is bound to happen.
FairShape == InitShape /\ [][NextShape]_<<vars, shape>> /\ Fairness
=============================================================================
