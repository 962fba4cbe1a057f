---------------------------- MODULE MCWebSearch ----------------------------
(***************************************************************************)
(* The two clients of the worker manager share no state: a behaviour of    *)
(* this module is a web search or a Discord observation, the other one     *)
(* resting in its initial state, where none of its fair steps is enabled.  *)
(***************************************************************************)
EXTENDS WebSearch, DiscordObservation, TLC

CONSTANTS t1, t2, p1, p2, c1, d1, d2, r1, r2

VARIABLE part    \* whose behaviour it is

\* One post is too old, one is cut off, and only two of the others fit.
PostAt(age, whole, chars) == [age |-> age, whole |-> whole, chars |-> chars]
Latest == PostAt(1, TRUE, 2)
Community == <<PostAt(20, TRUE, 2), PostAt(6, TRUE, 3), PostAt(5, FALSE, 1), PostAt(4, TRUE, 2), Latest>>

\* The result of a job; a job that ends partial must not come with it.
Whole == [status |-> "succeeded", coverage |-> "complete", lacks |-> FALSE, bound |-> TRUE]
Ends == {Whole}

\* A reply that a decision of the latest post supports, and one of no post.
Item(cites) == [kind |-> "decision", cites |-> cites, quoted |-> TRUE, confirmed |-> TRUE,
                assigned |-> FALSE, inquote |-> FALSE]
Spoken(items) == [wellformed |-> TRUE, safe |-> TRUE, items |-> items]

Numbers == (r1 :> 1) @@ (r2 :> 2)
Days == (r1 :> 7) @@ (r2 :> 30)
Said == {Spoken({Item({Latest})}), Spoken({Item({})})}

\* In the part "reload" two clients ask the same, and the gateway reloads; in
\* the part "capacity" one client asks two things of a service that keeps one
\* record.
F == INSTANCE DiscordObservation WITH
  Polls <- {d1}, Queries <- {r1, r2}, MaxReloads <- 0

ASSUME ObservationAssumption /\ F!ObservationAssumption

InitEither ==
  /\ Init
  /\ \/ part = "search" /\ ObservationInit
     \/ part = "reload" /\ ObservationInit /\ provider = "worker"
     \/ part = "capacity" /\ F!ObservationInit /\ provider = "worker"

NextEither ==
  \/ part = "search" /\ Next /\ UNCHANGED <<observationVars, part>>
  \/ part = "reload" /\ ObservationNext /\ UNCHANGED <<vars, part>>
  \/ part = "capacity" /\ F!ObservationNext /\ UNCHANGED <<vars, part>>

\* The fairness of the two modules.
FairEither ==
  /\ \A t \in Turns \cup Cancelers : WF_vars(part = "search" /\ Step(t))
  /\ \A p \in Plans : WF_vars(part = "search" /\ DeadlinePasses(p))
  /\ \A i \in 1 .. MaxRecords :
       WF_observationVars(part # "search" /\ i \in DOMAIN records /\ RunStep(i))

SpecEither == InitEither /\ [][NextEither]_<<vars, observationVars, part>> /\ FairEither
=============================================================================
