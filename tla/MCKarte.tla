------------------------------ MODULE MCKarte ------------------------------
(***************************************************************************)
(* The index of the Karte and the proposals to change it share no state: a *)
(* behaviour of this module is one of either, the other one resting in an  *)
(* initial state and no part of its fairness.                              *)
(***************************************************************************)
EXTENDS KarteIndex, KarteConversation, TLC

CONSTANTS
  search, append,  \* a request that lets the planner search, and an append
  near, close      \* two documents of the Karte

VARIABLE part    \* whose behaviour it is

\* The search finds one document that is merely related and one that is too
\* similar; the append names the first.  The text of the search speaks of one
\* kind, the other of none.
TheResolution == (search :> "auto") @@ (append :> "append")
TheIntended == (search :> NoDoc) @@ (append :> near)
NoneExplicit == [r \in Requests |-> NoKind]
TheSignals == [r \in Requests |-> [k \in Kinds |-> IF r = search THEN k ELSE 0]]
TheWords == (search :> 1 .. 10) @@ (append :> 1 .. 10) @@ (near :> 10 .. 14) @@ (close :> 1 .. 9)
OneKind == [x \in Documents |-> 1]

ASSUME RequestsAssumption /\ ThreadsAssumption /\ AnswersAssumption

InitEither ==
  /\ Init /\ ProposalInit
  /\ \/ part = "index"
     \/ part = "proposals" /\ store = "default"

NextEither ==
  \/ part = "index" /\ Next /\ UNCHANGED <<proposalVars, part>>
  \/ part = "proposals" /\ ProposalNext /\ UNCHANGED <<vars, part>>

\* The fairness of the index.
FairIndex ==
  /\ WF_vars(part = "index" /\ Watcher) /\ WF_vars(part = "index" /\ Age)
  /\ \A w \in Workers : WF_vars(part = "index" /\ Work(w))

SpecEither == InitEither /\ [][NextEither]_<<vars, proposalVars, part>> /\ FairIndex
=============================================================================
