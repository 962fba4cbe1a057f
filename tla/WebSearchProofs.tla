-------------------------- MODULE WebSearchProofs --------------------------
(***************************************************************************)
(* What WebSearch guarantees for every set of plans, turns and cancelers:  *)
(* the plan of a running turn is never purged, because the turns of a plan *)
(* are counted, and a cancellation is final on both sides of the network,  *)
(* because whatever a task knows of a job stays true while it waits; and   *)
(* what DiscordObservation guarantees for any polls, requests and posts.   *)
(***************************************************************************)
EXTENDS WebSearch, DiscordObservation, FiniteSetTheorems, TLAPS

\* The types but for the bound of the count of turns, which follows from what
\* is counted.
PlanShapes == [stage : {"unused", "present", "gone"}, blocked : BOOLEAN,
               approved : BOOLEAN, expired : BOOLEAN, lock : Turns \cup {NoTask},
               completed : BOOLEAN, canceled : BOOLEAN, active : Int]
StrayRequests == {"submit", "cancel"} \X Plans

Shapes ==
  /\ provider \in Providers
  /\ rewriting \in 0 .. MaxPlanners
  /\ plans \in [Plans -> PlanShapes]
  /\ sessions \in [Plans -> Sessions]
  /\ jobs \in [Plans -> JobStates \cup {"none"}]
  /\ stray \subseteq StrayRequests
  /\ tasks \in [Tasks -> TaskRecords]

\* active_turns of a plan counts the turns between begin_turn and close.
Running(p) == {t \in Turns : tasks[t].pc \in InTurn /\ tasks[t].plan = p}
TurnsCounted ==
  \A p \in Plans : plans[p].active = IF provider = "worker" THEN Cardinality(Running(p)) ELSE 0
CountedIsPresent == \A p \in Plans : plans[p].active > 0 => plans[p].stage = "present"

\* The request a task waits for.
Kind(pc) ==
  IF pc \in {"submit", "cancel_submit"} THEN "submit"
  ELSE IF pc \in {"poll", "result", "cancel"} THEN pc ELSE "none"

\* What a session and a request say of a job: it exists once the Manager has
\* answered for it, and it does not run once it was asked to stop.
Runnable == {"none", "queued", "running"}
SessionHolds(s, j) == (s.job => j # "none") /\ (s.acknowledged => j \notin Runnable)
RequestHolds(task, j) ==
  /\ task.req.kind = Kind(task.pc)
  /\ task.pc = "sleep" \/ task.req.kind \in {"poll", "result", "cancel"} => j # "none"
  /\ task.req.phase = "back" /\ task.req.view # "error" => j # "none" /\ task.req.view # "none"
  /\ task.req.phase = "back" /\ task.req.view # "error" /\ task.req.kind = "cancel"
       => j \notin Runnable

JobsKnown ==
  /\ \A p \in Plans : SessionHolds(sessions[p], jobs[p])
  /\ \A t \in Tasks : RequestHolds(tasks[t], jobs[PlanOf(t)])

IInv == Shapes /\ TurnsCounted /\ CountedIsPresent /\ CanceledKeepsNothing /\ JobsKnown

-----------------------------------------------------------------------------
(* Jobs *)

\* A job that exists goes on existing, and one that does not run any more
\* never runs again: so what was known of it holds later.
Later(i, j) == (i # "none" => j # "none") /\ (i \notin Runnable => j \notin Runnable)

LEMMA LaterHolds ==
  ASSUME NEW i, NEW j, Later(i, j)
  PROVE  /\ \A s : SessionHolds(s, i) => SessionHolds(s, j)
         /\ \A r : RequestHolds(r, i) => RequestHolds(r, j)
  BY DEF Later, SessionHolds, RequestHolds

\* What the Manager does with a request: a submission finds or makes the job,
\* a cancellation of a job that exists leaves nothing to run.
LEMMA HandledIsLater ==
  ASSUME NEW p \in Plans, jobs[p] \in JobStates \cup {"none"},
         NEW kind \in {"submit", "poll", "result", "cancel"}
  PROVE  /\ Handled(kind, p) \in JobStates \cup {"none"}
         /\ Later(jobs[p], Handled(kind, p))
         /\ kind = "submit" => Handled(kind, p) # "none"
         /\ kind = "cancel" /\ jobs[p] # "none" => Handled(kind, p) \notin Runnable
  <1>1. CASE kind = "submit"
    BY <1>1 DEF Handled, Later, Runnable, JobStates
  <1>2. CASE kind = "cancel"
    <2>1. CASE jobs[p] = "queued"
      BY <1>2, <2>1 DEF Handled, Later, Runnable, JobStates
    <2>2. CASE jobs[p] = "running"
      BY <1>2, <2>2 DEF Handled, Later, Runnable, JobStates
    <2>3. CASE jobs[p] \notin {"queued", "running"}
      BY <1>2, <2>3 DEF Handled, Later, Runnable, JobStates
    <2> QED BY <2>1, <2>2, <2>3
  <1>3. CASE kind \notin {"submit", "cancel"}
    BY <1>3 DEF Handled, Later
  <1> QED BY <1>1, <1>2, <1>3

-----------------------------------------------------------------------------
(* Plans *)

\* A change of a plan that neither begins nor ends a turn.
PlanKept(old, new) ==
  /\ new \in PlanShapes
  /\ new.active = old.active
  /\ old.active > 0 /\ old.stage = "present" => new.stage = "present"
  /\ new.canceled => ~new.completed

\* The count of the turns of a plan is a natural number.
LEMMA CountIsNat ==
  ASSUME IInv
  PROVE  \A p \in Plans : plans[p].active \in 0 .. Cardinality(Turns)
  <1> TAKE p \in Plans
  <1>1. Running(p) \subseteq Turns
    BY DEF Running
  <1>2. Cardinality(Running(p)) \in Nat /\ Cardinality(Turns) \in Nat
        /\ Cardinality(Running(p)) <= Cardinality(Turns)
    BY <1>1, TurnsFinite, FS_Subset, FS_CardinalityType
  <1> QED BY <1>2 DEF IInv, TurnsCounted

\* _purge removes no plan that a turn still uses.
LEMMA PurgedKeeps ==
  ASSUME IInv
  PROVE  Purged \in [Plans -> PlanShapes] /\ \A p \in Plans : PlanKept(plans[p], Purged[p])
  <1>1. ASSUME NEW p \in Plans
        PROVE  PlanKept(plans[p], Purged[p])
    <2>1. plans[p] \in PlanShapes /\ (plans[p].canceled => ~plans[p].completed)
      BY DEF IInv, Shapes, CanceledKeepsNothing
    <2>2. CASE Purged[p] = plans[p]
      BY <2>1, <2>2 DEF PlanKept
    <2>3. CASE Purged[p] # plans[p]
      <3>1. Purged[p] = [plans[p] EXCEPT !.stage = "gone"] /\ ~(plans[p].active > 0)
        BY <2>3 DEF Purged, Unexpired
      <3> QED BY <2>1, <3>1 DEF PlanKept, PlanShapes
    <2> QED BY <2>2, <2>3
  <1>2. Purged \in [Plans -> PlanShapes]
    BY <1>1 DEF Purged, PlanKept
  <1> QED BY <1>1, <1>2

\* A plan that stays as it is.
LEMMA SamePlan ==
  ASSUME IInv
  PROVE  \A p \in Plans : PlanKept(plans[p], plans[p])
  BY DEF IInv, Shapes, CanceledKeepsNothing, PlanKept

-----------------------------------------------------------------------------
(* Steps *)

\* A step in which no task moves and no job does.
LEMMA PlansMove ==
  ASSUME IInv, Shapes', UNCHANGED <<provider, tasks, jobs>>,
         \A p \in Plans : PlanKept(plans[p], plans'[p]) /\ SessionHolds(sessions'[p], jobs[p])
  PROVE  IInv'
  <1>1. TurnsCounted' /\ CountedIsPresent' /\ CanceledKeepsNothing'
    BY DEF IInv, TurnsCounted, Running, CountedIsPresent, CanceledKeepsNothing, PlanKept
  <1>2. JobsKnown'
    BY DEF IInv, JobsKnown, PlanOf
  <1> QED BY <1>1, <1>2 DEF IInv

\* A step in which only a job moves.
LEMMA JobMoves ==
  ASSUME IInv, NEW p \in Plans, NEW j \in JobStates \cup {"none"}, Later(jobs[p], j),
         jobs' = [jobs EXCEPT ![p] = j], stray' \subseteq stray,
         UNCHANGED <<provider, rewriting, plans, sessions, tasks>>
  PROVE  IInv'
  <1>1. Shapes'
    BY DEF IInv, Shapes
  <1>2. \A q \in Plans : Later(jobs[q], jobs'[q])
    BY DEF IInv, Shapes, Later
  <1>3. \A t \in Tasks : tasks[t].plan \in Plans
    BY DEF IInv, Shapes, TaskRecords
  <1>4. JobsKnown'
    BY <1>2, <1>3, LaterHolds DEF IInv, JobsKnown, PlanOf
  <1>5. TurnsCounted' /\ CountedIsPresent' /\ CanceledKeepsNothing'
    BY DEF IInv, TurnsCounted, Running, CountedIsPresent, CanceledKeepsNothing
  <1> QED BY <1>1, <1>4, <1>5 DEF IInv

\* What every step of one task does to the types and to what is known of jobs.
\* r is the task after it, s the session of its plan.
Moves(t, r, s) ==
  /\ r \in TaskRecords /\ RequestHolds(r, jobs[r.plan])
  /\ s \in Sessions /\ SessionHolds(s, jobs[r.plan])
  /\ tasks' = [tasks EXCEPT ![t] = r]
  /\ sessions' = [sessions EXCEPT ![r.plan] = s]
  /\ stray' \subseteq StrayRequests
  /\ UNCHANGED <<provider, rewriting, jobs>>

LEMMA MovesKeep ==
  ASSUME IInv, NEW t \in Tasks, NEW r, NEW s, Moves(t, r, s), plans' \in [Plans -> PlanShapes]
  PROVE  Shapes' /\ JobsKnown' /\ tasks'[t] = r /\ \A u \in Tasks \ {t} : tasks'[u] = tasks[u]
  <1>1. r \in TaskRecords /\ r.plan \in Plans /\ s \in Sessions
    BY DEF Moves, TaskRecords
  <1>2. tasks \in [Tasks -> TaskRecords] /\ sessions \in [Plans -> Sessions]
    BY DEF IInv, Shapes
  <1>3. tasks'[t] = r /\ \A u \in Tasks \ {t} : tasks'[u] = tasks[u]
    BY <1>2 DEF Moves
  <1>4. sessions'[r.plan] = s /\ \A p \in Plans \ {r.plan} : sessions'[p] = sessions[p]
    BY <1>1, <1>2 DEF Moves
  <1>5. Shapes'
    BY <1>1, <1>2 DEF IInv, Moves, Shapes
  <1>6. JobsKnown'
    BY <1>3, <1>4 DEF IInv, JobsKnown, Moves, PlanOf
  <1> QED BY <1>3, <1>5, <1>6

\* A turn goes on, or a task that is no turn of a plan moves.
LEMMA GoesOn ==
  ASSUME IInv, NEW t \in Tasks, NEW r, NEW s, Moves(t, r, s), plans' \in [Plans -> PlanShapes],
         \A p \in Plans : PlanKept(plans[p], plans'[p]),
         t \in Turns => /\ r.pc \in InTurn <=> tasks[t].pc \in InTurn
                        /\ r.pc \in InTurn => r.plan = tasks[t].plan
  PROVE  IInv'
  <1>1. Shapes' /\ JobsKnown' /\ tasks'[t] = r /\ \A u \in Tasks \ {t} : tasks'[u] = tasks[u]
    BY MovesKeep
  <1>2. \A p \in Plans : Running(p)' = Running(p)
    BY <1>1 DEF Running, Tasks
  <1>3. provider' = provider
    BY DEF Moves
  <1>4. TurnsCounted' /\ CountedIsPresent' /\ CanceledKeepsNothing'
    BY <1>2, <1>3 DEF IInv, TurnsCounted, CountedIsPresent, CanceledKeepsNothing, PlanKept
  <1> QED BY <1>1, <1>4 DEF IInv

\* A turn begins, with begin_turn of the worker provider.
LEMMA Begins ==
  ASSUME IInv, NEW t \in Turns, NEW r, NEW s, Moves(t, r, s), r.pc \in InTurn,
         tasks[t].pc \notin InTurn,
         NEW qs \in [Plans -> PlanShapes], \A p \in Plans : PlanKept(plans[p], qs[p]),
         IF provider = "worker"
         THEN /\ qs[r.plan].stage = "present"
              /\ plans' = [qs EXCEPT ![r.plan] = [qs[r.plan] EXCEPT !.active = @ + 1]]
         ELSE plans' = qs
  PROVE  IInv'
  <1>1. r.plan \in Plans /\ t \in Tasks
    BY DEF Moves, TaskRecords, Tasks
  <1> DEFINE p == r.plan
             n == IF provider = "worker" THEN [qs[p] EXCEPT !.active = @ + 1] ELSE qs[p]
  <1>2. /\ n \in PlanShapes /\ n.stage = qs[p].stage /\ (n.canceled => ~n.completed)
        /\ n.active = qs[p].active + (IF provider = "worker" THEN 1 ELSE 0)
        /\ plans' = [qs EXCEPT ![p] = n]
    <2>1. qs[p] \in PlanShapes /\ (qs[p].canceled => ~qs[p].completed)
      BY <1>1 DEF PlanKept
    <2> QED BY <1>1, <2>1 DEF PlanShapes
  <1> HIDE DEF n
  <1>3. plans'[p] = n /\ (\A q \in Plans \ {p} : plans'[q] = qs[q]) /\ plans' \in [Plans -> PlanShapes]
    BY <1>1, <1>2
  <1>4. /\ Shapes' /\ JobsKnown' /\ provider' = provider
        /\ tasks'[t] = r /\ \A u \in Tasks \ {t} : tasks'[u] = tasks[u]
    BY <1>1, <1>3, MovesKeep DEF Moves
  <1>5. \A q \in Plans : /\ qs[q].active = plans[q].active
                         /\ plans[q].active \in Nat
                         /\ qs[q].active > 0 => qs[q].stage = "present"
                         /\ qs[q].canceled => ~qs[q].completed
    BY CountIsNat, TurnsFinite, FS_CardinalityType DEF IInv, CountedIsPresent, PlanKept
  <1>6. CountedIsPresent'
    BY <1>1, <1>2, <1>3, <1>5 DEF CountedIsPresent, IInv, TurnsCounted
  <1>7. CanceledKeepsNothing'
    BY <1>1, <1>2, <1>3, <1>5 DEF CanceledKeepsNothing
  <1>8. Running(p)' = Running(p) \cup {t} /\ t \notin Running(p)
        /\ \A q \in Plans \ {p} : Running(q)' = Running(q)
    BY <1>4 DEF Running, Tasks
  <1>9. Cardinality(Running(p)') = Cardinality(Running(p)) + 1
    <2>1. IsFiniteSet(Running(p))
      BY TurnsFinite, FS_Subset DEF Running
    <2> QED BY <1>8, <2>1, FS_AddElement
  <1>10. ASSUME NEW q \in Plans
         PROVE  plans'[q].active =
                  IF provider = "worker" THEN Cardinality(Running(q)') ELSE 0
    <2>1. plans[q].active = IF provider = "worker" THEN Cardinality(Running(q)) ELSE 0
      BY DEF IInv, TurnsCounted
    <2>2. CASE q = p
      BY <1>2, <1>3, <1>5, <1>9, <2>1, <2>2
    <2>3. CASE q # p
      BY <1>3, <1>5, <1>8, <2>1, <2>3
    <2> QED BY <2>2, <2>3
  <1>11. TurnsCounted'
    BY <1>4, <1>10 DEF TurnsCounted
  <1> QED BY <1>4, <1>6, <1>7, <1>11 DEF IInv

\* A turn ends: close takes it out of the count.
LEMMA Leaves ==
  ASSUME IInv, NEW t \in Turns, NEW r, NEW s, Moves(t, r, s), r.pc \notin InTurn,
         tasks[t].pc \in InTurn, r.plan = tasks[t].plan,
         NEW qs \in [Plans -> PlanShapes], \A p \in Plans : PlanKept(plans[p], qs[p]),
         plans' = [qs EXCEPT ![r.plan] = Leave(qs[r.plan], t)]
  PROVE  IInv'
  <1>1. r.plan \in Plans /\ t \in Tasks
    BY DEF Moves, TaskRecords, Tasks
  <1> DEFINE p == r.plan
             n == Leave(qs[p], t)
  <1>2. /\ n \in PlanShapes /\ n.stage = qs[p].stage /\ (n.canceled => ~n.completed)
        /\ n.active = qs[p].active - (IF provider = "worker" THEN 1 ELSE 0)
    <2>1. qs[p] \in PlanShapes /\ (qs[p].canceled => ~qs[p].completed)
      BY <1>1 DEF PlanKept
    <2>2. LET free == ReleaseLock(qs[p], t)
          IN  /\ free \in PlanShapes /\ free.stage = qs[p].stage /\ free.active = qs[p].active
              /\ (free.canceled => ~free.completed)
      BY <2>1 DEF ReleaseLock, PlanShapes
    <2> QED BY <2>2 DEF Leave, PlanShapes
  <1> HIDE DEF n
  <1>3. plans'[p] = n /\ (\A q \in Plans \ {p} : plans'[q] = qs[q]) /\ plans' \in [Plans -> PlanShapes]
    BY <1>1, <1>2 DEF n
  <1>4. /\ Shapes' /\ JobsKnown' /\ provider' = provider
        /\ tasks'[t] = r /\ \A u \in Tasks \ {t} : tasks'[u] = tasks[u]
    BY <1>1, <1>3, MovesKeep DEF Moves
  <1>5. \A q \in Plans : /\ qs[q].active = plans[q].active
                         /\ plans[q].active \in Nat
                         /\ qs[q].active > 0 => qs[q].stage = "present"
                         /\ qs[q].canceled => ~qs[q].completed
    BY CountIsNat, TurnsFinite, FS_CardinalityType DEF IInv, CountedIsPresent, PlanKept
  <1>6. CountedIsPresent'
    BY <1>1, <1>2, <1>3, <1>5 DEF CountedIsPresent, IInv, TurnsCounted
  <1>7. CanceledKeepsNothing'
    BY <1>1, <1>2, <1>3, <1>5 DEF CanceledKeepsNothing
  <1>8. Running(p)' = Running(p) \ {t} /\ t \in Running(p)
        /\ \A q \in Plans \ {p} : Running(q)' = Running(q)
    BY <1>4 DEF Running, Tasks
  <1>9. Cardinality(Running(p)') = Cardinality(Running(p)) - 1
    <2>1. IsFiniteSet(Running(p))
      BY TurnsFinite, FS_Subset DEF Running
    <2> QED BY <1>8, <2>1, FS_RemoveElement
  <1>10. ASSUME NEW q \in Plans
         PROVE  plans'[q].active =
                  IF provider = "worker" THEN Cardinality(Running(q)') ELSE 0
    <2>1. plans[q].active = IF provider = "worker" THEN Cardinality(Running(q)) ELSE 0
      BY DEF IInv, TurnsCounted
    <2>2. CASE q = p
      BY <1>2, <1>3, <1>5, <1>9, <2>1, <2>2
    <2>3. CASE q # p
      BY <1>3, <1>5, <1>8, <2>1, <2>3
    <2> QED BY <2>2, <2>3
  <1>11. TurnsCounted'
    BY <1>4, <1>10 DEF TurnsCounted
  <1> QED BY <1>4, <1>6, <1>7, <1>11 DEF IInv

-----------------------------------------------------------------------------
(* What the actions of the tasks are made of *)

\* What is known of a task in its turn, and of the session of its plan.
LEMMA AtTask ==
  ASSUME IInv, NEW t \in Tasks
  PROVE  /\ tasks[t] \in TaskRecords /\ PlanOf(t) \in Plans
         /\ Session(t) \in Sessions /\ SessionHolds(Session(t), jobs[PlanOf(t)])
         /\ RequestHolds(tasks[t], jobs[PlanOf(t)])
         /\ Kind(tasks[t].pc) = "none" => tasks[t].req = NoRequest
         /\ sessions = [sessions EXCEPT ![PlanOf(t)] = Session(t)]
         /\ plans \in [Plans -> PlanShapes] /\ stray \subseteq StrayRequests
  <1>1. tasks[t] \in TaskRecords /\ PlanOf(t) \in Plans
    BY DEF IInv, Shapes, TaskRecords, PlanOf
  <1>2. RequestHolds(tasks[t], jobs[PlanOf(t)]) /\ SessionHolds(Session(t), jobs[PlanOf(t)])
    BY <1>1 DEF IInv, JobsKnown, Session
  <1>3. tasks[t].req \in Requests \cup {NoRequest}
    BY <1>1 DEF TaskRecords
  <1>4. Kind(tasks[t].pc) = "none" => tasks[t].req = NoRequest
    BY <1>2, <1>3 DEF RequestHolds, Requests
  <1>5. sessions \in [Plans -> Sessions] /\ plans \in [Plans -> PlanShapes]
        /\ stray \subseteq StrayRequests
    BY DEF IInv, Shapes
  <1> QED BY <1>1, <1>2, <1>4, <1>5 DEF Session

\* A lock given back.
LEMMA LockBack ==
  ASSUME NEW s \in Sessions, NEW j, SessionHolds(s, j), NEW t
  PROVE  ReleaseLock(s, t) \in Sessions /\ SessionHolds(ReleaseLock(s, t), j)
  BY DEF ReleaseLock, Sessions, SessionHolds

\* What is given up of a request can only be a submission or a cancellation.
LEMMA DropType ==
  ASSUME IInv, NEW t \in Tasks
  PROVE  Drop(t) \subseteq StrayRequests
  BY AtTask DEF Drop, StrayRequests

\* A task goes on to wait for its next reply, or for nothing.
LEMMA Going ==
  ASSUME IInv, NEW t \in Tasks, tasks[t].pc \in InTurn, NEW pc \in InTurn,
         NEW req \in Requests \cup {NoRequest}, req.kind = Kind(pc), req.phase # "back",
         pc = "sleep" \/ req.kind \in {"poll", "result", "cancel"} => jobs[PlanOf(t)] # "none",
         NEW s \in Sessions, SessionHolds(s, jobs[PlanOf(t)]),
         tasks' = Goto(t, pc, req), sessions' = [sessions EXCEPT ![PlanOf(t)] = s],
         stray' \subseteq StrayRequests, UNCHANGED <<provider, rewriting, jobs>>,
         plans' \in [Plans -> PlanShapes], \A p \in Plans : PlanKept(plans[p], plans'[p])
  PROVE  IInv'
  <1> DEFINE r == [tasks[t] EXCEPT !.pc = pc, !.req = req]
  <1>1. tasks[t] \in TaskRecords
    BY AtTask
  <1>2. r \in TaskRecords /\ r.pc = pc /\ r.req = req /\ r.plan = PlanOf(t)
    BY <1>1 DEF TaskRecords, PlanOf
  <1>3. tasks' = [tasks EXCEPT ![t] = r]
    BY DEF Goto, IInv, Shapes
  <1> HIDE DEF r
  <1>4. RequestHolds(r, jobs[r.plan])
    BY <1>2 DEF RequestHolds
  <1>5. Moves(t, r, s)
    BY <1>2, <1>3, <1>4 DEF Moves
  <1> QED BY <1>2, <1>5, GoesOn DEF PlanOf

\* A turn is over.
LEMMA Ending ==
  ASSUME IInv, NEW t \in Turns, tasks[t].pc \in InTurn, NEW out \in {"none", "answered", "other"},
         NEW s \in Sessions, SessionHolds(s, jobs[PlanOf(t)]),
         tasks' = [tasks EXCEPT ![t].pc = "done", ![t].req = NoRequest, ![t].out = out],
         sessions' = [sessions EXCEPT ![PlanOf(t)] = s],
         stray' \subseteq StrayRequests, UNCHANGED <<provider, rewriting, jobs>>,
         NEW qs \in [Plans -> PlanShapes], \A p \in Plans : PlanKept(plans[p], qs[p]),
         plans' = [qs EXCEPT ![PlanOf(t)] = Leave(qs[PlanOf(t)], t)]
  PROVE  IInv'
  <1> DEFINE r == [tasks[t] EXCEPT !.pc = "done", !.req = NoRequest, !.out = out]
  <1>1. tasks[t] \in TaskRecords /\ t \in Tasks
    BY AtTask DEF Tasks
  <1>2. r \in TaskRecords /\ r.pc = "done" /\ r.req = NoRequest /\ r.plan = PlanOf(t)
    BY <1>1 DEF TaskRecords, PlanOf
  <1>3. tasks' = [tasks EXCEPT ![t] = r]
    BY <1>1 DEF IInv, Shapes
  <1> HIDE DEF r
  <1>4. RequestHolds(r, jobs[r.plan])
    BY <1>2 DEF RequestHolds, NoRequest, Kind
  <1>5. Moves(t, r, s)
    BY <1>2, <1>3, <1>4 DEF Moves
  <1>6. r.pc \notin InTurn
    BY <1>2 DEF InTurn, Searching, Canceling
  <1> QED BY <1>2, <1>5, <1>6, Leaves DEF PlanOf

\* A turn that waits for no reply is over.
LEMMA EndingUnasked ==
  ASSUME IInv, NEW t \in Turns, tasks[t].pc \in InTurn, Kind(tasks[t].pc) = "none",
         tasks' = [tasks EXCEPT ![t].pc = "done", ![t].out = "other"]
  PROVE  tasks' = [tasks EXCEPT ![t].pc = "done", ![t].req = NoRequest, ![t].out = "other"]
  <1>1. tasks[t] \in TaskRecords /\ tasks[t].req = NoRequest
    BY AtTask DEF Tasks
  <1>2. [tasks[t] EXCEPT !.pc = "done", !.out = "other"]
          = [tasks[t] EXCEPT !.pc = "done", !.req = NoRequest, !.out = "other"]
    BY <1>1 DEF TaskRecords
  <1>3. tasks' = [tasks EXCEPT ![t] = [tasks[t] EXCEPT !.pc = "done", !.out = "other"]]
    BY DEF IInv, Shapes, Tasks
  <1> QED BY <1>2, <1>3 DEF IInv, Shapes, Tasks

\* The end of a request by its turn, with what it leaves on the way.
LEMMA FinishKeeps ==
  ASSUME IInv, NEW t \in Turns, tasks[t].pc \in InTurn, NEW out \in {"none", "answered", "other"},
         Finish(t, out), stray' \subseteq StrayRequests, UNCHANGED <<provider, rewriting, jobs>>
  PROVE  IInv'
  <1> DEFINE s == ReleaseLock(Session(t), t)
  <1>1. t \in Tasks
    BY DEF Tasks
  <1>2. s \in Sessions /\ SessionHolds(s, jobs[PlanOf(t)])
    BY <1>1, AtTask, LockBack
  <1>3. /\ tasks' = [tasks EXCEPT ![t].pc = "done", ![t].req = NoRequest, ![t].out = out]
        /\ sessions' = [sessions EXCEPT ![PlanOf(t)] = s]
        /\ plans' = [plans EXCEPT ![PlanOf(t)] = Leave(plans[PlanOf(t)], t)]
    BY DEF Finish, Session
  <1> HIDE DEF s
  <1> QED BY <1>1, <1>2, <1>3, AtTask, SamePlan, Ending

LEMMA StopKeeps ==
  ASSUME IInv, NEW t \in Turns, tasks[t].pc \in InTurn, NEW out \in {"none", "answered", "other"},
         Stop(t, out), UNCHANGED <<provider, rewriting, jobs>>
  PROVE  IInv'
  BY FinishKeeps, AtTask DEF Stop, Tasks

\* The search begins to cancel its own job.
LEMMA CancelHereKeeps ==
  ASSUME IInv, NEW t \in Turns, tasks[t].pc \in InTurn, NEW s \in Sessions,
         SessionHolds(s, jobs[PlanOf(t)]), CancelHere(t, s), UNCHANGED <<provider, rewriting, jobs>>
  PROVE  IInv'
  <1>1. "cancel_lock" \in InTurn /\ NoRequest.kind = Kind("cancel_lock") /\ NoRequest.phase # "back"
        /\ NoRequest.kind \notin {"poll", "result", "cancel"}
    BY DEF InTurn, Canceling, NoRequest, Kind
  <1> QED BY <1>1, Going, AtTask, SamePlan DEF CancelHere, Tasks

\* The next request goes out.
LEMMA SendNextKeeps ==
  ASSUME IInv, NEW t \in Tasks, tasks[t].pc \in InTurn, NEW s \in Sessions,
         SessionHolds(s, jobs[PlanOf(t)]), jobs[PlanOf(t)] # "none",
         NEW k \in {"poll", "result", "cancel"}, SendNext(t, s, k),
         UNCHANGED <<provider, rewriting, jobs>>
  PROVE  IInv'
  <1>1. k \in InTurn /\ Sent(k) \in Requests /\ Sent(k).kind = Kind(k) /\ Sent(k).phase # "back"
    BY DEF InTurn, Searching, Canceling, Sent, Requests, Kind
  <1> QED BY <1>1, Going, AtTask, SamePlan DEF SendNext

\* The wait of the search is over for good, or turns into a cancellation.
LEMMA RaiseLateKeeps ==
  ASSUME IInv, NEW t \in Turns, tasks[t].pc \in InTurn, RaiseLate(t),
         UNCHANGED <<provider, rewriting, jobs>>
  PROVE  IInv'
  <1> DEFINE s == [Session(t) EXCEPT !.timedOut = TRUE]
  <1>1. t \in Tasks
    BY DEF Tasks
  <1>2. s \in Sessions /\ SessionHolds(s, jobs[PlanOf(t)]) /\ s.requested = Session(t).requested
    BY <1>1, AtTask DEF Sessions, SessionHolds
  <1>3. CASE s.requested
    BY <1>2, <1>3, CancelHereKeeps DEF RaiseLate
  <1>4. CASE ~s.requested
    <2>1. /\ tasks' = [tasks EXCEPT ![t].pc = "done", ![t].req = NoRequest, ![t].out = "other"]
          /\ plans' = [plans EXCEPT ![PlanOf(t)] = Leave(plans[PlanOf(t)], t)]
          /\ sessions' = [sessions EXCEPT ![PlanOf(t)] = s]
          /\ stray' = stray
      BY <1>4 DEF RaiseLate
    <2> HIDE DEF s
    <2> QED BY <1>1, <1>2, <2>1, AtTask, SamePlan, Ending
  <1> QED BY <1>3, <1>4

-----------------------------------------------------------------------------
(* The actions on plans *)

LEMMA CreatePlanKeeps ==
  ASSUME IInv, CreatePlan
  PROVE  IInv'
  <1>1. rewriting' \in 0 .. MaxPlanners
    BY Bounds DEF IInv, Shapes, CreatePlan
  <1>2. Shapes'
    BY <1>1, PurgedKeeps DEF IInv, Shapes, CreatePlan
  <1> QED BY <1>2, PurgedKeeps, PlansMove DEF CreatePlan, IInv, JobsKnown

\* A plan as it is stored.
LEMMA NewPlan ==
  ASSUME NEW b \in BOOLEAN, NEW a \in BOOLEAN
  PROVE  LET m == [UnusedPlan EXCEPT !.stage = "present", !.blocked = b, !.approved = a]
         IN  m \in PlanShapes /\ m.active = 0 /\ m.stage = "present" /\ ~m.canceled
  <1>1. UnusedPlan \in PlanShapes /\ UnusedPlan.active = 0 /\ UnusedPlan.canceled = FALSE
    BY DEF UnusedPlan, PlanShapes
  <1> QED BY <1>1 DEF PlanShapes

LEMMA StorePlanKeeps ==
  ASSUME IInv, StorePlan
  PROVE  IInv'
  <1>1. rewriting' \in 0 .. MaxPlanners
    <2>1. rewriting > 0 /\ rewriting' = rewriting - 1 /\ rewriting \in 0 .. MaxPlanners
      BY DEF IInv, Shapes, StorePlan
    <2> QED BY <2>1, Bounds
  <1>2. CASE UNCHANGED plans
    <2>1. Shapes'
      BY <1>1, <1>2 DEF IInv, Shapes, StorePlan
    <2> QED BY <1>2, <2>1, SamePlan, PlansMove DEF StorePlan, IInv, JobsKnown
  <1>3. ASSUME NEW p \in Plans, NEW d \in Decisions, plans[p].stage = "unused",
               plans' = [plans EXCEPT ![p] = [UnusedPlan EXCEPT
                 !.stage = "present", !.blocked = d = "block", !.approved = d = "allow"]]
        PROVE  IInv'
    <2> DEFINE n == [UnusedPlan EXCEPT
                       !.stage = "present", !.blocked = d = "block", !.approved = d = "allow"]
    <2>1. plans[p].active = 0
      <3>1. ~(plans[p].active > 0)
        BY <1>3 DEF IInv, CountedIsPresent
      <3>2. Cardinality(Turns) \in Nat /\ plans[p].active \in 0 .. Cardinality(Turns)
        BY CountIsNat, TurnsFinite, FS_CardinalityType
      <3> QED BY <3>1, <3>2
    <2>2. PlanKept(plans[p], n) /\ plans' = [plans EXCEPT ![p] = n]
      <3>1. (d = "block") \in BOOLEAN /\ (d = "allow") \in BOOLEAN
        OBVIOUS
      <3>2. n \in PlanShapes /\ n.active = 0 /\ n.stage = "present" /\ ~n.canceled
        BY <3>1, NewPlan, Zenon
      <3> QED BY <1>3, <2>1, <3>2 DEF PlanKept
    <2> HIDE DEF n
    <2>3. plans' \in [Plans -> PlanShapes] /\ \A q \in Plans : PlanKept(plans[q], plans'[q])
      BY <2>2, SamePlan DEF IInv, Shapes, PlanKept
    <2>4. Shapes'
      BY <1>1, <2>3 DEF IInv, Shapes, StorePlan
    <2> QED BY <2>3, <2>4, PlansMove DEF StorePlan, IInv, JobsKnown
  <1> QED BY <1>2, <1>3 DEF StorePlan

LEMMA ApproveKeeps ==
  ASSUME IInv, NEW p \in Plans, Approve(p)
  PROVE  IInv'
  <1> DEFINE ps == Purged
             n == [ps[p] EXCEPT !.approved = TRUE]
  <1>1. ps \in [Plans -> PlanShapes] /\ \A q \in Plans : PlanKept(plans[q], ps[q])
    BY PurgedKeeps
  <1>2. plans' = ps \/ plans' = [ps EXCEPT ![p].approved = TRUE]
    BY DEF Approve
  <1> HIDE DEF ps
  <1>3. PlanKept(plans[p], n)
    BY <1>1 DEF PlanKept, PlanShapes
  <1>4. plans' = ps \/ plans' = [ps EXCEPT ![p] = n]
    BY <1>1, <1>2
  <1> HIDE DEF n
  <1>5. plans' \in [Plans -> PlanShapes] /\ \A q \in Plans : PlanKept(plans[q], plans'[q])
    BY <1>1, <1>3, <1>4 DEF PlanKept
  <1>6. Shapes'
    BY <1>5 DEF IInv, Shapes, Approve
  <1> QED BY <1>5, <1>6, PlansMove DEF Approve, IInv, JobsKnown

LEMMA ExpireKeeps ==
  ASSUME IInv, NEW p \in Plans, Expire(p)
  PROVE  IInv'
  <1> DEFINE n == [plans[p] EXCEPT !.expired = TRUE]
  <1>1. plans \in [Plans -> PlanShapes] /\ \A q \in Plans : PlanKept(plans[q], plans[q])
    BY SamePlan DEF IInv, Shapes
  <1>2. PlanKept(plans[p], n)
    BY <1>1 DEF PlanKept, PlanShapes
  <1>3. plans' = [plans EXCEPT ![p] = n]
    BY <1>1 DEF Expire
  <1> HIDE DEF n
  <1>4. plans' \in [Plans -> PlanShapes] /\ \A q \in Plans : PlanKept(plans[q], plans'[q])
    BY <1>1, <1>2, <1>3 DEF PlanKept
  <1>5. Shapes'
    BY <1>4 DEF IInv, Shapes, Expire
  <1> QED BY <1>4, <1>5, PlansMove DEF Expire, IInv, JobsKnown

LEMMA DeadlinePassesKeeps ==
  ASSUME IInv, NEW p \in Plans, DeadlinePasses(p)
  PROVE  IInv'
  <1> DEFINE n == [sessions[p] EXCEPT !.due = TRUE]
  <1>1. sessions \in [Plans -> Sessions] /\ \A q \in Plans : SessionHolds(sessions[q], jobs[q])
    BY DEF IInv, Shapes, JobsKnown
  <1>2. n \in Sessions /\ SessionHolds(n, jobs[p])
    BY <1>1 DEF Sessions, SessionHolds
  <1>3. sessions' = [sessions EXCEPT ![p] = n]
    BY <1>1 DEF DeadlinePasses
  <1> HIDE DEF n
  <1>4. sessions' \in [Plans -> Sessions] /\ \A q \in Plans : SessionHolds(sessions'[q], jobs[q])
    BY <1>1, <1>2, <1>3
  <1>5. Shapes'
    BY <1>4 DEF IInv, Shapes, DeadlinePasses
  <1> QED BY <1>4, <1>5, SamePlan, PlansMove DEF DeadlinePasses

-----------------------------------------------------------------------------
(* The actions of a turn *)

LEMMA BeginTurnKeeps ==
  ASSUME IInv, NEW t \in Turns, NEW p \in Plans, NEW matches \in BOOLEAN, BeginTurn(t, p, matches)
  PROVE  IInv'
  <1>1. t \in Tasks /\ tasks[t] \in TaskRecords /\ tasks[t].pc \notin InTurn
        /\ Kind(tasks[t].pc) = "none" /\ UNCHANGED <<provider, rewriting, sessions, jobs, stray>>
    BY AtTask DEF Tasks, BeginTurn, InTurn, Searching, Canceling, Kind
  <1>2. tasks[t].req = NoRequest
    BY <1>1, AtTask
  <1>3. Purged \in [Plans -> PlanShapes] /\ \A q \in Plans : PlanKept(plans[q], Purged[q])
    BY PurgedKeeps
  <1>4. tasks \in [Tasks -> TaskRecords]
    BY DEF IInv, Shapes
  <1>5. CASE Refuse(t) /\ plans' = Purged
    <2> DEFINE r == [tasks[t] EXCEPT !.pc = "done", !.out = "other"]
    <2>1. /\ r \in TaskRecords /\ r.pc \notin InTurn /\ r.req = NoRequest /\ r.pc = "done"
          /\ r.plan = PlanOf(t)
      BY <1>1, <1>2 DEF TaskRecords, PlanOf, InTurn, Searching, Canceling
    <2>2. tasks' = [tasks EXCEPT ![t] = r]
      BY <1>4, <1>1, <1>5 DEF Refuse
    <2> HIDE DEF r
    <2>3. Moves(t, r, Session(t))
      BY <1>1, <2>1, <2>2, AtTask DEF Moves, RequestHolds, NoRequest, Kind
    <2> QED BY <1>1, <1>3, <1>5, <2>1, <2>3, GoesOn
  <1>6. CASE ~(Refuse(t) /\ plans' = Purged)
    <2> DEFINE r == [tasks[t] EXCEPT !.pc = "ground", !.plan = p]
    <2>1. /\ tasks' = [tasks EXCEPT ![t].pc = "ground", ![t].plan = p]
          /\ provider = "worker" => Purged[p].stage = "present"
          /\ plans' = IF provider = "worker" THEN [Purged EXCEPT ![p].active = @ + 1] ELSE plans
      BY <1>6 DEF BeginTurn
    <2>2. r \in TaskRecords /\ r.pc = "ground" /\ r.req = NoRequest /\ r.plan = p /\ r.pc \in InTurn
      BY <1>1, <1>2 DEF TaskRecords, InTurn
    <2>3. tasks' = [tasks EXCEPT ![t] = r]
      BY <1>4, <1>1, <2>1
    <2>4. /\ sessions[p] \in Sessions /\ SessionHolds(sessions[p], jobs[p])
          /\ sessions = [sessions EXCEPT ![p] = sessions[p]] /\ stray \subseteq StrayRequests
      BY DEF IInv, Shapes, JobsKnown
    <2> HIDE DEF r
    <2>5. Moves(t, r, sessions[p])
      BY <1>1, <2>2, <2>3, <2>4 DEF Moves, RequestHolds, NoRequest, Kind
    <2>6. CASE provider = "worker"
      <3>1. plans' = [Purged EXCEPT ![p] = [Purged[p] EXCEPT !.active = @ + 1]]
        BY <1>3, <2>1, <2>6
      <3> QED BY <1>1, <1>3, <2>1, <2>2, <2>5, <2>6, <3>1, Begins
    <2>7. CASE provider # "worker"
      BY <1>1, <2>1, <2>2, <2>5, <2>7, SamePlan, AtTask, Begins
    <2> QED BY <2>6, <2>7
  <1> QED BY <1>5, <1>6

LEMMA EnterSearchKeeps ==
  ASSUME IInv, NEW t \in Turns, NEW matches \in BOOLEAN, EnterSearch(t, matches)
  PROVE  IInv'
  <1>1. /\ t \in Tasks /\ tasks[t].pc \in InTurn /\ Kind(tasks[t].pc) = "none"
        /\ UNCHANGED <<provider, rewriting, sessions, jobs, stray>>
    BY DEF Tasks, EnterSearch, InTurn, Searching, Canceling, Kind
  <1>2. Purged \in [Plans -> PlanShapes] /\ \A q \in Plans : PlanKept(plans[q], Purged[q])
    BY PurgedKeeps
  <1>3. CASE tasks' = Goto(t, "lock", NoRequest) /\ plans' = Purged
    <2>1. "lock" \in InTurn /\ NoRequest.kind = Kind("lock") /\ NoRequest.phase # "back"
          /\ NoRequest.kind \notin {"poll", "result", "cancel"}
      BY DEF InTurn, Searching, NoRequest, Kind
    <2> QED BY <1>1, <1>2, <1>3, <2>1, AtTask, Going
  <1>4. CASE /\ tasks' = [tasks EXCEPT ![t].pc = "done", ![t].out = "other"]
             /\ plans' = [Purged EXCEPT ![PlanOf(t)] = Leave(@, t)]
    <2>1. tasks' = [tasks EXCEPT ![t].pc = "done", ![t].req = NoRequest, ![t].out = "other"]
      BY <1>1, <1>4, EndingUnasked
    <2>2. plans' = [Purged EXCEPT ![PlanOf(t)] = Leave(Purged[PlanOf(t)], t)]
      BY <1>2, <1>4
    <2> QED BY <1>1, <1>2, <2>1, <2>2, AtTask, Ending
  <1> QED BY <1>3, <1>4 DEF EnterSearch

\* The places a turn passes while it waits for no reply, and those of requests.
LEMMA Waits ==
  /\ {"lock", "sleep", "claims", "fetch", "again", "model", "cancel_lock"} \subseteq InTurn
  /\ {"submit", "poll", "result", "cancel_submit", "cancel"} \subseteq InTurn
  /\ \A pc \in {"lock", "sleep", "claims", "fetch", "again", "model", "cancel_lock"} :
       NoRequest.kind = Kind(pc)
  /\ NoRequest.phase # "back" /\ NoRequest.kind \notin {"poll", "result", "cancel"}
  /\ NoRequest \in Requests \cup {NoRequest}
  /\ \A k \in {"submit", "poll", "result", "cancel"} :
       Sent(k) \in Requests /\ Sent(k).phase # "back" /\ Sent(k).kind = k /\ Kind(k) = k
  /\ Kind("cancel_submit") = "submit"
  BY DEF InTurn, Searching, Canceling, Kind, NoRequest, Sent, Requests

\* What the lock of a plan makes of it.
LEMMA LockKept ==
  ASSUME IInv, NEW p \in Plans, NEW l \in Turns, NEW e \in BOOLEAN
  PROVE  /\ PlanKept(plans[p], [plans[p] EXCEPT !.lock = l, !.expired = e])
         /\ provider # "worker" => PlanKept(plans[p], [plans[p] EXCEPT !.lock = l, !.stage = "gone"])
  <1>1. plans[p] \in PlanShapes /\ (plans[p].canceled => ~plans[p].completed)
    BY DEF IInv, Shapes, CanceledKeepsNothing
  <1>2. provider # "worker" => plans[p].active = 0
    BY DEF IInv, TurnsCounted
  <1>3. ASSUME NEW q \in PlanShapes, q.canceled => ~q.completed
        PROVE  /\ PlanKept(q, [q EXCEPT !.lock = l, !.expired = e])
               /\ q.active = 0 => PlanKept(q, [q EXCEPT !.lock = l, !.stage = "gone"])
    <2>1. LET m == [q EXCEPT !.lock = l, !.expired = e]
          IN  /\ m \in PlanShapes /\ m.active = q.active /\ m.stage = q.stage
              /\ m.canceled = q.canceled /\ m.completed = q.completed
      BY DEF PlanShapes
    <2>2. LET m == [q EXCEPT !.lock = l, !.stage = "gone"]
          IN  /\ m \in PlanShapes /\ m.active = q.active
              /\ m.canceled = q.canceled /\ m.completed = q.completed
      BY DEF PlanShapes
    <2> QED BY <1>3, <2>1, <2>2 DEF PlanKept
  <1> QED BY <1>1, <1>2, <1>3

\* One plan changes.
LEMMA OnePlan ==
  ASSUME IInv, NEW p \in Plans, NEW n, PlanKept(plans[p], n), NEW ps, ps = [plans EXCEPT ![p] = n]
  PROVE  ps \in [Plans -> PlanShapes] /\ \A q \in Plans : PlanKept(plans[q], ps[q])
  BY SamePlan DEF IInv, Shapes, PlanKept

\* The lock of a plan given back, with or without what its search found.
LEMMA PlanUnlocked ==
  ASSUME IInv, NEW p \in Plans, NEW t, NEW c \in BOOLEAN, c => ~plans[p].canceled
  PROVE  LET free == ReleaseLock(plans[p], t)
         IN  /\ PlanKept(plans[p], free)
             /\ PlanKept(plans[p], [free EXCEPT !.completed = @ \/ c])
  <1>1. plans[p] \in PlanShapes /\ PlanKept(plans[p], plans[p])
    BY SamePlan DEF IInv, Shapes
  <1>2. PlanKept(plans[p], [plans[p] EXCEPT !.lock = NoTask])
    BY <1>1 DEF PlanKept, PlanShapes
  <1>3. PlanKept(plans[p], ReleaseLock(plans[p], t))
    BY <1>1, <1>2 DEF ReleaseLock
  <1>4. ReleaseLock(plans[p], t).canceled = plans[p].canceled
    BY <1>1 DEF ReleaseLock, PlanShapes
  <1> QED BY <1>1, <1>3, <1>4 DEF PlanKept, PlanShapes

\* The session a search works in.
LEMMA OpenSession ==
  ASSUME IInv, NEW p \in Plans
  PROVE  LET s == IF sessions[p].open THEN sessions[p] ELSE NewSession
         IN  /\ s \in Sessions /\ SessionHolds(s, jobs[p])
             /\ [s EXCEPT !.timedOut = TRUE] \in Sessions
             /\ SessionHolds([s EXCEPT !.timedOut = TRUE], jobs[p])
             /\ s.job => jobs[p] # "none"
  <1>1. sessions[p] \in Sessions /\ SessionHolds(sessions[p], jobs[p])
    BY DEF IInv, Shapes, JobsKnown
  <1>2. NewSession \in Sessions /\ SessionHolds(NewSession, jobs[p])
    BY DEF NewSession, Sessions, SessionHolds, JobStates
  <1>3. \A s \in Sessions : SessionHolds(s, jobs[p]) =>
          /\ [s EXCEPT !.timedOut = TRUE] \in Sessions
          /\ SessionHolds([s EXCEPT !.timedOut = TRUE], jobs[p])
          /\ s.job => jobs[p] # "none"
    BY DEF Sessions, SessionHolds
  <1> QED BY <1>1, <1>2, <1>3

LEMMA TakeLockKeeps ==
  ASSUME IInv, NEW t \in Turns, TakeLock(t)
  PROVE  IInv'
  <1> DEFINE p == PlanOf(t)
             s == IF sessions[p].open THEN sessions[p] ELSE NewSession
             held == [plans EXCEPT ![p].lock = t, ![p].expired = IF sessions[p].open THEN @ ELSE FALSE]
  <1>1. /\ t \in Tasks /\ tasks[t].pc = "lock" /\ tasks[t].pc \in InTurn /\ p \in Plans
        /\ Kind(tasks[t].pc) = "none" /\ UNCHANGED <<provider, rewriting, jobs>>
        /\ plans \in [Plans -> PlanShapes]
    BY AtTask, Waits DEF Tasks, TakeLock, Kind
  <1>2. s \in Sessions /\ SessionHolds(s, jobs[p]) /\ (s.job => jobs[p] # "none")
        /\ [s EXCEPT !.timedOut = TRUE] \in Sessions
        /\ SessionHolds([s EXCEPT !.timedOut = TRUE], jobs[p])
    BY <1>1, OpenSession
  <1>3. held \in [Plans -> PlanShapes] /\ \A q \in Plans : PlanKept(plans[q], held[q])
    <2> DEFINE e == IF sessions[p].open THEN plans[p].expired ELSE FALSE
               n == [plans[p] EXCEPT !.lock = t, !.expired = e]
    <2>1. e \in BOOLEAN
      BY <1>1 DEF PlanShapes
    <2>2. held = [plans EXCEPT ![p] = n]
      BY <1>1
    <2> HIDE DEF e
    <2>3. PlanKept(plans[p], n)
      BY <1>1, <2>1, LockKept
    <2> HIDE DEF n, held
    <2> QED BY <1>1, <2>2, <2>3, OnePlan
  <1>4. CASE Stop(t, "other")
    BY <1>1, <1>4, StopKeeps
  <1>5. CASE tasks' = Goto(t, "model", NoRequest) /\ UNCHANGED <<plans, sessions, stray>>
    <2> HIDE DEF s, held
    <2> QED BY <1>1, <1>5, Waits, AtTask, SamePlan, Going
  <1>6. CASE tasks' = Goto(t, "claims", NoRequest) /\ plans' = held /\ UNCHANGED <<sessions, stray>>
    <2> HIDE DEF s, held
    <2> QED BY <1>1, <1>3, <1>6, Waits, AtTask, Going
  <1>7. CASE /\ tasks' = [tasks EXCEPT ![t].pc = "done", ![t].out = "other"]
             /\ plans' = [plans EXCEPT ![p] = Leave(@, t)]
             /\ sessions' = [sessions EXCEPT ![p] = [s EXCEPT !.timedOut = TRUE]]
             /\ UNCHANGED stray
    <2>1. tasks' = [tasks EXCEPT ![t].pc = "done", ![t].req = NoRequest, ![t].out = "other"]
      BY <1>1, <1>7, EndingUnasked
    <2>2. plans' = [plans EXCEPT ![p] = Leave(plans[p], t)]
      BY <1>1, <1>7
    <2> DEFINE s2 == [s EXCEPT !.timedOut = TRUE]
    <2>3. s2 \in Sessions /\ SessionHolds(s2, jobs[p]) /\ sessions' = [sessions EXCEPT ![p] = s2]
      BY <1>2, <1>7
    <2> HIDE DEF s2, s, held
    <2> QED BY <1>1, <1>7, <2>1, <2>2, <2>3, SamePlan, AtTask, Ending
  <1>8. CASE /\ tasks' = LET k == IF s.job THEN "poll" ELSE "submit" IN Goto(t, k, Sent(k))
             /\ plans' = held
             /\ sessions' = [sessions EXCEPT ![p] = s]
             /\ UNCHANGED stray
    <2>1. PICK k \in {"submit", "poll"} : tasks' = Goto(t, k, Sent(k)) /\ (k = "poll" => s.job)
      BY <1>8
    <2> HIDE DEF s, held
    <2>2. /\ k \in InTurn /\ Sent(k) \in Requests \cup {NoRequest} /\ Sent(k).kind = Kind(k)
          /\ Sent(k).phase # "back"
          /\ Sent(k).kind \in {"poll", "result", "cancel"} => jobs[p] # "none"
      BY <1>2, <2>1, Waits
    <2>3. stray' \subseteq StrayRequests
      BY <1>1, <1>8, AtTask
    <2> QED BY <1>1, <1>2, <1>3, <1>8, <2>1, <2>2, <2>3, Going
  <1>9. CASE /\ tasks' = Goto(t, "fetch", NoRequest)
             /\ plans' = [plans EXCEPT ![p].lock = t, ![p].stage = "gone"]
             /\ UNCHANGED <<sessions, stray>>
             /\ provider # "worker"
    <2> DEFINE n == [plans[p] EXCEPT !.lock = t, !.stage = "gone"]
    <2>1. plans' = [plans EXCEPT ![p] = n]
      BY <1>1, <1>9
    <2>2. PlanKept(plans[p], n)
      BY <1>1, <1>9, LockKept
    <2> HIDE DEF n, s, held
    <2>3. plans' \in [Plans -> PlanShapes] /\ \A q \in Plans : PlanKept(plans[q], plans'[q])
      BY <1>1, <2>1, <2>2, OnePlan
    <2> QED BY <1>1, <1>9, <2>3, Waits, AtTask, Going
  <1>10. CASE Asked(p)
    BY <1>4, <1>10 DEF TakeLock, Fresh
  <1>11. CASE ~Asked(p) /\ plans[p].completed
    BY <1>5, <1>11 DEF TakeLock, Fresh
  <1>12. CASE ~Asked(p) /\ ~plans[p].completed /\ Fresh(p)
    <2>1. CASE s.accepted
      BY <1>6, <1>12, <2>1 DEF TakeLock
    <2>2. CASE ~s.accepted /\ OutOfTime(s)
      BY <1>7, <1>12, <2>2 DEF TakeLock
    <2>3. CASE ~s.accepted /\ ~OutOfTime(s)
      BY <1>8, <1>12, <2>3 DEF TakeLock
    <2> QED BY <2>1, <2>2, <2>3
  <1>13. CASE ~Asked(p) /\ ~plans[p].completed /\ ~Fresh(p)
    <2>1. provider # "worker"
      BY <1>13 DEF Fresh
    <2> QED BY <1>9, <1>13, <2>1 DEF TakeLock
  <1> QED BY <1>10, <1>11, <1>12, <1>13

\* A reply, other than an error, tells of a job that exists; the reply to a
\* cancellation, of one that does not run any more.
LEMMA ReplyHolds ==
  ASSUME IInv, NEW t \in Tasks, tasks[t].pc \in {"submit", "poll", "cancel_submit", "cancel"},
         Back(t), tasks[t].req.view # "error"
  PROVE  LET s == Validated(Session(t), tasks[t].req.view)
         IN  /\ jobs[PlanOf(t)] # "none"
             /\ s \in Sessions /\ SessionHolds(s, jobs[PlanOf(t)])
             /\ [s EXCEPT !.acknowledged = TRUE] \in Sessions
             /\ tasks[t].pc = "cancel"
                  => SessionHolds([s EXCEPT !.acknowledged = TRUE], jobs[PlanOf(t)])
  <1>1. /\ tasks[t] \in TaskRecords /\ RequestHolds(tasks[t], jobs[PlanOf(t)])
        /\ Session(t) \in Sessions /\ SessionHolds(Session(t), jobs[PlanOf(t)])
    BY AtTask
  <1>2. tasks[t].req.view \in JobStates
    <2>1. tasks[t].req \in Requests
      BY <1>1 DEF RequestHolds, Kind, NoRequest, TaskRecords
    <2>2. tasks[t].req.view # "none"
      BY <1>1 DEF RequestHolds, Back
    <2> QED BY <2>1, <2>2 DEF Requests
  <1>3. jobs[PlanOf(t)] # "none"
    BY <1>1 DEF RequestHolds, Back
  <1>4. tasks[t].pc = "cancel" => jobs[PlanOf(t)] \notin Runnable
    BY <1>1 DEF RequestHolds, Back, Kind
  <1>5. ASSUME NEW v \in JobStates, NEW s \in Sessions, NEW j, SessionHolds(s, j), j # "none"
        PROVE  /\ Validated(s, v) \in Sessions /\ SessionHolds(Validated(s, v), j)
               /\ [Validated(s, v) EXCEPT !.acknowledged = TRUE] \in Sessions
               /\ j \notin Runnable
                    => SessionHolds([Validated(s, v) EXCEPT !.acknowledged = TRUE], j)
    <2> DEFINE w == IF s.acknowledged THEN s.state ELSE v
    <2>1. w \in JobStates
      BY DEF Sessions
    <2>2. Validated(s, v) = [s EXCEPT !.job = TRUE, !.state = w]
      BY DEF Validated, Sessions
    <2> HIDE DEF w
    <2>3. /\ Validated(s, v) \in Sessions
          /\ Validated(s, v).acknowledged = s.acknowledged
      BY <2>1, <2>2 DEF Sessions
    <2>4. /\ [Validated(s, v) EXCEPT !.acknowledged = TRUE] \in Sessions
          /\ [Validated(s, v) EXCEPT !.acknowledged = TRUE].job = Validated(s, v).job
      BY <2>3 DEF Sessions
    <2> QED BY <1>5, <2>3, <2>4 DEF SessionHolds
  <1> QED BY <1>1, <1>2, <1>3, <1>4, <1>5

LEMMA SearchReplyKeeps ==
  ASSUME IInv, NEW t \in Turns, SearchReply(t)
  PROVE  IInv'
  <1> DEFINE view == tasks[t].req.view
             s == Validated(Session(t), view)
  <1>1. /\ t \in Tasks /\ tasks[t].pc \in {"submit", "poll"} /\ tasks[t].pc \in InTurn
        /\ Back(t) /\ UNCHANGED <<provider, rewriting, jobs>>
    BY Waits DEF Tasks, SearchReply
  <1>2. view # "error" => /\ jobs[PlanOf(t)] # "none"
                          /\ s \in Sessions /\ SessionHolds(s, jobs[PlanOf(t)])
    BY <1>1, ReplyHolds, AtTask
  <1> HIDE DEF s, view
  <1>3. CASE Stop(t, "other")
    BY <1>1, <1>3, StopKeeps
  <1>4. CASE RaiseLate(t)
    BY <1>1, <1>4, RaiseLateKeeps
  <1>5. CASE view # "error" /\ CancelHere(t, s)
    BY <1>1, <1>2, <1>5, CancelHereKeeps
  <1>6. CASE view # "error" /\ (SendNext(t, s, "poll") \/ SendNext(t, s, "result"))
    BY <1>1, <1>2, <1>6, SendNextKeeps
  <1>7. CASE /\ view # "error"
             /\ tasks' = Goto(t, "sleep", NoRequest)
             /\ sessions' = [sessions EXCEPT ![PlanOf(t)] = s]
             /\ UNCHANGED <<plans, stray>>
    BY <1>1, <1>2, <1>7, Waits, AtTask, SamePlan, Going
  <1> QED BY <1>3, <1>4, <1>5, <1>6, <1>7 DEF SearchReply, s, view

LEMMA PollAgainKeeps ==
  ASSUME IInv, NEW t \in Turns, PollAgain(t)
  PROVE  IInv'
  <1>1. /\ t \in Tasks /\ tasks[t].pc \in InTurn /\ UNCHANGED <<provider, rewriting, jobs>>
    BY Waits DEF Tasks, PollAgain
  <1>2. Session(t) \in Sessions /\ SessionHolds(Session(t), jobs[PlanOf(t)])
    BY <1>1, AtTask
  <1>3. CASE CancelHere(t, Session(t))
    BY <1>1, <1>2, <1>3, CancelHereKeeps
  <1>4. CASE RaiseLate(t)
    BY <1>1, <1>4, RaiseLateKeeps
  <1>5. CASE SendNext(t, Session(t), "poll")
    <2>1. jobs[PlanOf(t)] # "none"
      BY <1>1, AtTask DEF RequestHolds, PollAgain
    <2> QED BY <1>1, <1>2, <1>5, <2>1, SendNextKeeps
  <1> QED BY <1>3, <1>4, <1>5 DEF PollAgain

LEMMA WaitEndsKeeps ==
  ASSUME IInv, NEW t \in Turns, NEW async \in BOOLEAN, WaitEnds(t, async)
  PROVE  IInv'
  <1>1. /\ t \in Tasks /\ tasks[t].pc \in InTurn /\ UNCHANGED <<provider, rewriting, jobs>>
        /\ PlanOf(t) \in Plans /\ plans \in [Plans -> PlanShapes]
    BY Waits, AtTask DEF Tasks, WaitEnds
  <1>2. CASE Stop(t, "other")
    BY <1>1, <1>2, StopKeeps
  <1>3. CASE /\ tasks' = Goto(t, "again", NoRequest)
             /\ plans' = [plans EXCEPT ![PlanOf(t)] = ReleaseLock(@, t)]
             /\ UNCHANGED <<sessions, stray>>
    <2> DEFINE n == ReleaseLock(plans[PlanOf(t)], t)
    <2>1. PlanKept(plans[PlanOf(t)], n) /\ plans' = [plans EXCEPT ![PlanOf(t)] = n]
      BY <1>1, <1>3, PlanUnlocked
    <2> HIDE DEF n
    <2>2. plans' \in [Plans -> PlanShapes] /\ \A q \in Plans : PlanKept(plans[q], plans'[q])
      BY <1>1, <2>1, OnePlan
    <2> QED BY <1>1, <1>3, <2>2, Waits, AtTask, Going
  <1> QED BY <1>2, <1>3 DEF WaitEnds

LEMMA ResultReplyKeeps ==
  ASSUME IInv, NEW t \in Turns, NEW valid \in Verdicts, ResultReply(t, valid)
  PROVE  IInv'
  <1> DEFINE s == AcceptSources(Session(t))
  <1>1. /\ t \in Tasks /\ tasks[t].pc \in InTurn /\ UNCHANGED <<provider, rewriting, jobs>>
    BY Waits DEF Tasks, ResultReply
  <1>2. Session(t) \in Sessions /\ SessionHolds(Session(t), jobs[PlanOf(t)])
    BY <1>1, AtTask
  <1>3. s \in Sessions /\ SessionHolds(s, jobs[PlanOf(t)])
    <2>1. (~OutOfTime(Session(t))) \in BOOLEAN
      OBVIOUS
    <2>2. \A a \in BOOLEAN : LET r == [Session(t) EXCEPT !.accepted = a]
                             IN  r \in Sessions /\ SessionHolds(r, jobs[PlanOf(t)])
      BY <1>2 DEF Sessions, SessionHolds
    <2> QED BY <2>1, <2>2, Zenon DEF AcceptSources
  <1> HIDE DEF s
  <1>4. CASE Stop(t, "other")
    BY <1>1, <1>4, StopKeeps
  <1>5. CASE RaiseLate(t)
    BY <1>1, <1>5, RaiseLateKeeps
  <1>6. CASE CancelHere(t, Session(t))
    BY <1>1, <1>2, <1>6, CancelHereKeeps
  <1>7. CASE /\ tasks' = Goto(t, "claims", NoRequest)
             /\ sessions' = [sessions EXCEPT ![PlanOf(t)] = s]
             /\ UNCHANGED <<plans, stray>>
    BY <1>1, <1>3, <1>7, Waits, AtTask, SamePlan, Going
  <1> QED BY <1>4, <1>5, <1>6, <1>7 DEF ResultReply, s

LEMMA FetchedKeeps ==
  ASSUME IInv, NEW t \in Turns, NEW found \in BOOLEAN, Fetched(t, found)
  PROVE  IInv'
  <1>1. /\ t \in Tasks /\ tasks[t].pc \in InTurn
        /\ UNCHANGED <<provider, rewriting, sessions, jobs, stray>>
        /\ PlanOf(t) \in Plans /\ plans \in [Plans -> PlanShapes]
    BY Waits, AtTask DEF Tasks, Fetched
  <1> DEFINE n == ReleaseLock(plans[PlanOf(t)], t)
  <1>2. PlanKept(plans[PlanOf(t)], n)
    BY <1>1, PlanUnlocked
  <1>3. plans' = plans \/ plans' = [plans EXCEPT ![PlanOf(t)] = n]
    BY <1>1 DEF Fetched
  <1> HIDE DEF n
  <1>4. plans' \in [Plans -> PlanShapes] /\ \A q \in Plans : PlanKept(plans[q], plans'[q])
    BY <1>1, <1>2, <1>3, OnePlan, SamePlan
  <1>5. PICK pc \in {"claims", "model"} : tasks' = Goto(t, pc, NoRequest)
    BY DEF Fetched
  <1> QED BY <1>1, <1>4, <1>5, Waits, AtTask, Going

\* What is stored was asked for by nobody to be canceled: of a plan that is
\* canceled nothing is kept.
LEMMA ClaimsReadKeeps ==
  ASSUME IInv, NEW t \in Turns, NEW claims \in Claims, ClaimsRead(t, claims)
  PROVE  IInv'
  <1>1. /\ t \in Tasks /\ tasks[t].pc \in InTurn /\ UNCHANGED <<provider, rewriting, jobs>>
        /\ PlanOf(t) \in Plans /\ plans \in [Plans -> PlanShapes] /\ claims \in BOOLEAN
    BY Waits, AtTask DEF Tasks, ClaimsRead, Claims
  <1>2. CASE Stop(t, "other")
    BY <1>1, <1>2, StopKeeps
  <1>3. CASE /\ Stored(PlanOf(t))
             /\ tasks' = Goto(t, "model", NoRequest)
             /\ plans' = [plans EXCEPT ![PlanOf(t)] =
                            [ReleaseLock(plans[PlanOf(t)], t) EXCEPT !.completed = @ \/ claims]]
             /\ UNCHANGED <<sessions, stray>>
    <2> DEFINE n == [ReleaseLock(plans[PlanOf(t)], t) EXCEPT !.completed = @ \/ claims]
    <2>1. ~plans[PlanOf(t)].canceled
      BY <1>3 DEF Stored, Asked
    <2>2. PlanKept(plans[PlanOf(t)], n)
      BY <1>1, <2>1, PlanUnlocked
    <2>3. plans' = [plans EXCEPT ![PlanOf(t)] = n]
      BY <1>3
    <2> HIDE DEF n
    <2>4. plans' \in [Plans -> PlanShapes] /\ \A q \in Plans : PlanKept(plans[q], plans'[q])
      BY <1>1, <2>2, <2>3, OnePlan
    <2> QED BY <1>1, <1>3, <2>4, Waits, AtTask, Going
  <1> QED BY <1>2, <1>3 DEF ClaimsRead

LEMMA AnswerKeeps ==
  ASSUME IInv, NEW t \in Turns, NEW last \in BOOLEAN, Answer(t, last)
  PROVE  IInv'
  <1>1. /\ t \in Tasks /\ tasks[t].pc = "model" /\ tasks[t].pc \in InTurn
        /\ UNCHANGED <<provider, rewriting, jobs>>
    BY Waits DEF Tasks, Answer
  <1>2. CASE Stop(t, "answered")
    BY <1>1, <1>2, StopKeeps
  <1>3. CASE tasks' = [tasks EXCEPT ![t].out = "answered"] /\ UNCHANGED <<plans, sessions, stray>>
    <2> DEFINE r == [tasks[t] EXCEPT !.out = "answered"]
    <2>1. tasks[t] \in TaskRecords /\ RequestHolds(tasks[t], jobs[PlanOf(t)])
          /\ Session(t) \in Sessions /\ SessionHolds(Session(t), jobs[PlanOf(t)])
          /\ sessions = [sessions EXCEPT ![PlanOf(t)] = Session(t)]
          /\ stray \subseteq StrayRequests
      BY <1>1, AtTask
    <2>2. r \in TaskRecords /\ r.pc = tasks[t].pc /\ r.req = tasks[t].req /\ r.plan = PlanOf(t)
      BY <2>1 DEF TaskRecords, PlanOf
    <2>3. tasks' = [tasks EXCEPT ![t] = r]
      BY <1>1, <1>3 DEF IInv, Shapes
    <2> HIDE DEF r
    <2>4. Moves(t, r, Session(t))
      BY <1>1, <1>3, <2>1, <2>2, <2>3 DEF Moves, RequestHolds
    <2> QED BY <1>1, <1>3, <2>2, <2>4, GoesOn, SamePlan, AtTask DEF PlanOf
  <1> QED BY <1>2, <1>3 DEF Answer

LEMMA FinishActionsKeep ==
  ASSUME IInv, NEW t \in Turns, ModelFails(t) \/ TurnCanceled(t) \/ Disconnect(t)
  PROVE  IInv'
  <1>1. t \in Tasks
    BY DEF Tasks
  <1>2. CASE ModelFails(t)
    BY <1>2, Waits, StopKeeps DEF ModelFails
  <1>3. CASE TurnCanceled(t) \/ Disconnect(t)
    BY <1>1, <1>3, DropType, FinishKeeps DEF TurnCanceled, Disconnect
  <1> QED BY <1>2, <1>3

LEMMA DeadlineFiresKeeps ==
  ASSUME IInv, NEW t \in Turns, DeadlineFires(t)
  PROVE  IInv'
  <1> DEFINE s == [Session(t) EXCEPT !.timedOut = TRUE]
  <1>1. /\ t \in Tasks /\ tasks[t].pc \in InTurn /\ UNCHANGED <<provider, rewriting, jobs>>
        /\ stray' \subseteq StrayRequests
    BY Waits, DropType DEF Tasks, DeadlineFires
  <1>2. s \in Sessions /\ SessionHolds(s, jobs[PlanOf(t)])
    BY <1>1, AtTask DEF Sessions, SessionHolds
  <1>3. CASE /\ tasks' = Goto(t, "cancel_lock", NoRequest)
             /\ sessions' = [sessions EXCEPT ![PlanOf(t)] = s]
             /\ UNCHANGED plans
    <2> HIDE DEF s
    <2> QED BY <1>1, <1>2, <1>3, Waits, AtTask, SamePlan, Going
  <1>4. CASE /\ tasks' = [tasks EXCEPT ![t].pc = "done", ![t].req = NoRequest, ![t].out = "other"]
             /\ plans' = [plans EXCEPT ![PlanOf(t)] = Leave(@, t)]
             /\ sessions' = [sessions EXCEPT ![PlanOf(t)] = s]
    <2> HIDE DEF s
    <2>1. plans' = [plans EXCEPT ![PlanOf(t)] = Leave(plans[PlanOf(t)], t)]
      BY <1>1, <1>4, AtTask
    <2> QED BY <1>1, <1>2, <1>4, <2>1, AtTask, SamePlan, Ending
  <1> QED BY <1>3, <1>4 DEF DeadlineFires

-----------------------------------------------------------------------------
(* The cancellations *)

LEMMA CancelPlanKeeps ==
  ASSUME IInv, NEW t \in Cancelers, NEW p \in Plans, CancelPlan(t, p)
  PROVE  IInv'
  <1>1. t \in Tasks /\ t \notin Turns /\ tasks[t] \in TaskRecords /\ tasks[t].pc = "idle"
        /\ Kind(tasks[t].pc) = "none" /\ UNCHANGED <<provider, rewriting, jobs, stray>>
    BY AtTask, TasksDistinct DEF Tasks, CancelPlan, Kind
  <1>2. tasks[t].req = NoRequest /\ stray \subseteq StrayRequests
    BY <1>1, AtTask
  <1>3. Purged \in [Plans -> PlanShapes] /\ \A q \in Plans : PlanKept(plans[q], Purged[q])
    BY PurgedKeeps
  <1>4. /\ tasks \in [Tasks -> TaskRecords] /\ sessions \in [Plans -> Sessions]
        /\ SessionHolds(sessions[p], jobs[p]) /\ sessions = [sessions EXCEPT ![p] = sessions[p]]
    BY DEF IInv, Shapes, JobsKnown
  <1>5. ASSUME NEW pc \in {"done", "cancel_lock"}, NEW plan \in Plans, NEW out \in {"none", "other"}
        PROVE  LET r == [tasks[t] EXCEPT !.pc = pc, !.plan = plan, !.out = out]
               IN  r \in TaskRecords /\ r.plan = plan /\ r.pc = pc /\ RequestHolds(r, jobs[plan])
    <2> DEFINE r == [tasks[t] EXCEPT !.pc = pc, !.plan = plan, !.out = out]
    <2>1. r \in TaskRecords /\ r.plan = plan /\ r.pc = pc /\ r.req = NoRequest
      BY <1>1, <1>2 DEF TaskRecords, InTurn, Canceling
    <2> QED BY <2>1, Waits DEF RequestHolds, Kind, NoRequest
  <1>6. CASE plans' = Purged /\ Refuse(t) /\ UNCHANGED sessions
    <2> DEFINE r == [tasks[t] EXCEPT !.pc = "done", !.plan = PlanOf(t), !.out = "other"]
    <2>1. tasks' = [tasks EXCEPT ![t] = r]
      <3>1. r = [tasks[t] EXCEPT !.pc = "done", !.out = "other"]
        BY <1>1 DEF TaskRecords, PlanOf
      <3> QED BY <1>1, <1>4, <1>6, <3>1 DEF Refuse
    <2>2. r \in TaskRecords /\ r.plan = PlanOf(t) /\ RequestHolds(r, jobs[PlanOf(t)])
      BY <1>1, <1>5, AtTask
    <2> HIDE DEF r
    <2>3. Moves(t, r, Session(t))
      BY <1>1, <1>2, <1>6, <2>1, <2>2, AtTask DEF Moves
    <2> QED BY <1>1, <1>3, <1>6, <2>3, GoesOn
  <1>7. CASE ~(plans' = Purged /\ Refuse(t) /\ UNCHANGED sessions)
    <2> DEFINE n == [Purged[p] EXCEPT !.canceled = TRUE, !.completed = FALSE]
    <2>1. plans' = [Purged EXCEPT ![p].canceled = TRUE, ![p].completed = FALSE]
      BY <1>7 DEF CancelPlan
    <2>2. plans' = [Purged EXCEPT ![p] = n]
      BY <1>3, <2>1
    <2>3. PlanKept(plans[p], n)
      BY <1>3 DEF PlanKept, PlanShapes
    <2> HIDE DEF n
    <2>4. plans' \in [Plans -> PlanShapes] /\ \A q \in Plans : PlanKept(plans[q], plans'[q])
      BY <1>3, <2>2, <2>3 DEF PlanKept
    <2>5. CASE sessions[p].open
      <3> DEFINE s == [sessions[p] EXCEPT !.requested = TRUE]
                 r == [tasks[t] EXCEPT !.pc = "cancel_lock", !.plan = p, !.out = tasks[t].out]
      <3>1. /\ sessions' = [sessions EXCEPT ![p].requested = TRUE]
            /\ tasks' = [tasks EXCEPT ![t].pc = "cancel_lock", ![t].plan = p]
        BY <1>7, <2>5 DEF CancelPlan
      <3>2. s \in Sessions /\ SessionHolds(s, jobs[p]) /\ sessions' = [sessions EXCEPT ![p] = s]
        <4>1. sessions[p] \in Sessions /\ SessionHolds(sessions[p], jobs[p])
          BY <1>4
        <4>2. s \in Sessions /\ s.job = sessions[p].job /\ s.acknowledged = sessions[p].acknowledged
          BY <4>1 DEF Sessions
        <4>3. SessionHolds(s, jobs[p])
          BY <4>1, <4>2 DEF SessionHolds
        <4> QED BY <1>4, <3>1, <4>2, <4>3
      <3>3. r \in TaskRecords /\ r.plan = p /\ r.pc = "cancel_lock" /\ r.req = NoRequest
        BY <1>1, <1>2 DEF TaskRecords, InTurn, Canceling
      <3>4. tasks' = [tasks EXCEPT ![t] = r]
        <4>1. r = [tasks[t] EXCEPT !.pc = "cancel_lock", !.plan = p]
          BY <1>1 DEF TaskRecords
        <4> QED BY <1>1, <1>4, <3>1, <4>1
      <3> HIDE DEF r, s
      <3>5. RequestHolds(r, jobs[p])
        BY <3>3 DEF RequestHolds, Kind, NoRequest
      <3>6. Moves(t, r, s)
        BY <1>1, <1>2, <3>2, <3>3, <3>4, <3>5 DEF Moves
      <3> QED BY <1>1, <2>4, <3>6, GoesOn
    <2>6. CASE ~sessions[p].open
      <3> DEFINE r == [tasks[t] EXCEPT !.pc = "done", !.plan = p, !.out = "other"]
      <3>1. /\ UNCHANGED sessions
            /\ tasks' = [tasks EXCEPT ![t].pc = "done", ![t].plan = p, ![t].out = "other"]
        BY <1>7, <2>6 DEF CancelPlan
      <3>2. r \in TaskRecords /\ r.plan = p /\ RequestHolds(r, jobs[p])
        BY <1>5
      <3>3. tasks' = [tasks EXCEPT ![t] = r]
        BY <1>1, <1>4, <3>1
      <3> HIDE DEF r
      <3>4. Moves(t, r, sessions[p])
        BY <1>1, <1>2, <1>4, <3>1, <3>2, <3>3 DEF Moves
      <3> QED BY <1>1, <2>4, <3>4, GoesOn
    <2> QED BY <2>5, <2>6
  <1> QED BY <1>6, <1>7

\* `cancel` is over for its task, which is a turn or the cancel route.
LEMMA CanceledKeeps ==
  ASSUME IInv, NEW t \in Tasks, tasks[t].pc \in Canceling, NEW s \in Sessions,
         SessionHolds(s, jobs[PlanOf(t)]), Canceled(t, s), UNCHANGED <<provider, rewriting, jobs>>
  PROVE  IInv'
  <1> DEFINE f == ReleaseLock(s, t)
  <1>1. f \in Sessions /\ SessionHolds(f, jobs[PlanOf(t)])
    BY LockBack
  <1>2. /\ tasks' = [tasks EXCEPT ![t].pc = "done", ![t].req = NoRequest, ![t].out = "other"]
        /\ sessions' = [sessions EXCEPT ![PlanOf(t)] = f]
        /\ plans' = IF t \in Turns THEN [plans EXCEPT ![PlanOf(t)] = Leave(@, t)] ELSE plans
        /\ stray' = stray
    BY DEF Canceled
  <1>3. PlanOf(t) \in Plans /\ tasks[t] \in TaskRecords /\ plans \in [Plans -> PlanShapes]
        /\ stray \subseteq StrayRequests
    BY AtTask
  <1>4. tasks[t].pc \in InTurn
    BY DEF InTurn
  <1> HIDE DEF f
  <1>5. CASE t \in Turns
    <2>1. plans' = [plans EXCEPT ![PlanOf(t)] = Leave(plans[PlanOf(t)], t)]
      BY <1>2, <1>3, <1>5
    <2> QED BY <1>1, <1>2, <1>3, <1>4, <1>5, <2>1, SamePlan, Ending
  <1>6. CASE t \notin Turns
    <2> DEFINE r == [tasks[t] EXCEPT !.pc = "done", !.req = NoRequest, !.out = "other"]
    <2>1. r \in TaskRecords /\ r.pc = "done" /\ r.req = NoRequest /\ r.plan = PlanOf(t)
      BY <1>3 DEF TaskRecords, PlanOf
    <2>2. tasks' = [tasks EXCEPT ![t] = r]
      BY <1>2 DEF IInv, Shapes
    <2> HIDE DEF r
    <2>3. RequestHolds(r, jobs[r.plan])
      BY <2>1 DEF RequestHolds, NoRequest, Kind
    <2>4. stray' \subseteq StrayRequests
      BY <1>2, <1>3
    <2>5. Moves(t, r, f)
      BY <1>1, <1>2, <2>1, <2>2, <2>3, <2>4 DEF Moves
    <2> QED BY <1>2, <1>3, <1>6, <2>5, GoesOn, SamePlan
  <1> QED BY <1>5, <1>6

LEMMA CancelLockedKeeps ==
  ASSUME IInv, NEW t \in Tasks, CancelLocked(t)
  PROVE  IInv'
  <1> DEFINE s == Session(t)
             k == FirstStep(s)
             pc == IF k = "submit" THEN "cancel_submit" ELSE "cancel"
             l == [s EXCEPT !.lock = t]
  <1>1. /\ tasks[t].pc \in Canceling /\ tasks[t].pc \in InTurn
        /\ UNCHANGED <<provider, rewriting, jobs>>
    BY Waits DEF CancelLocked, Canceling
  <1>2. s \in Sessions /\ SessionHolds(s, jobs[PlanOf(t)]) /\ PlanOf(t) \in Plans
    BY AtTask
  <1>3. k \in {"submit", "cancel"} /\ (k = "cancel" => s.job)
    BY DEF FirstStep
  <1>4. CASE Canceled(t, s)
    BY <1>1, <1>2, <1>4, CanceledKeeps
  <1>5. CASE /\ tasks' = Goto(t, pc, Sent(k))
             /\ sessions' = [sessions EXCEPT ![PlanOf(t)].lock = t]
             /\ UNCHANGED <<plans, stray>>
    <2>1. l \in Sessions /\ SessionHolds(l, jobs[PlanOf(t)])
      BY <1>2 DEF Sessions, SessionHolds
    <2>2. sessions' = [sessions EXCEPT ![PlanOf(t)] = l]
      BY <1>2, <1>5 DEF IInv, Shapes, Session
    <2>3. /\ pc \in InTurn /\ Sent(k) \in Requests \cup {NoRequest} /\ Sent(k).kind = Kind(pc)
          /\ Sent(k).phase # "back" /\ pc # "sleep"
          /\ Sent(k).kind \in {"poll", "result", "cancel"} => jobs[PlanOf(t)] # "none"
      BY <1>2, <1>3, Waits DEF SessionHolds
    <2> HIDE DEF pc, k, l, s
    <2> QED BY <1>1, <1>5, <2>1, <2>2, <2>3, AtTask, SamePlan, Going
  <1> QED BY <1>3, <1>4, <1>5 DEF CancelLocked

LEMMA CancelReplyKeeps ==
  ASSUME IInv, NEW t \in Tasks, CancelReply(t)
  PROVE  IInv'
  <1> DEFINE view == tasks[t].req.view
             s == Validated(Session(t), view)
             a == [s EXCEPT !.acknowledged = TRUE]
  <1>1. /\ tasks[t].pc \in {"cancel_submit", "cancel"} /\ tasks[t].pc \in Canceling
        /\ tasks[t].pc \in InTurn /\ Back(t) /\ UNCHANGED <<provider, rewriting, jobs>>
    BY Waits DEF CancelReply, Canceling
  <1>2. Session(t) \in Sessions /\ SessionHolds(Session(t), jobs[PlanOf(t)])
    BY AtTask
  <1>3. view # "error" => /\ jobs[PlanOf(t)] # "none" /\ a \in Sessions
                          /\ s \in Sessions /\ SessionHolds(s, jobs[PlanOf(t)])
                          /\ tasks[t].pc = "cancel" => SessionHolds(a, jobs[PlanOf(t)])
    BY <1>1, ReplyHolds
  <1> HIDE DEF s, view, a
  <1>4. CASE Canceled(t, Session(t))
    BY <1>1, <1>2, <1>4, CanceledKeeps
  <1>5. CASE view # "error" /\ SendNext(t, s, "cancel")
    BY <1>1, <1>3, <1>5, SendNextKeeps
  <1>6. CASE view # "error" /\ tasks[t].pc = "cancel" /\ Canceled(t, a)
    BY <1>1, <1>3, <1>6, CanceledKeeps
  <1> QED BY <1>4, <1>5, <1>6 DEF CancelReply, s, view, a

-----------------------------------------------------------------------------
(* The Manager and the network *)

LEMMA ServeKeeps ==
  ASSUME IInv, NEW t \in Tasks, Serve(t)
  PROVE  IInv'
  <1> DEFINE p == PlanOf(t)
             j == Handled(tasks[t].req.kind, p)
             q == [tasks[t].req EXCEPT !.phase = "back", !.view = j]
             r == [tasks[t] EXCEPT !.req = q]
  <1>1. /\ tasks[t] \in TaskRecords /\ p \in Plans /\ RequestHolds(tasks[t], jobs[p])
        /\ tasks[t].req.phase = "sent" /\ jobs[p] \in JobStates \cup {"none"}
        /\ tasks \in [Tasks -> TaskRecords] /\ jobs \in [Plans -> JobStates \cup {"none"}]
    BY AtTask DEF Serve, IInv, Shapes
  <1>2. tasks[t].req \in Requests
    BY <1>1 DEF TaskRecords, NoRequest
  <1>3. /\ j \in JobStates \cup {"none"} /\ Later(jobs[p], j)
        /\ tasks[t].req.kind = "submit" => j # "none"
        /\ tasks[t].req.kind = "cancel" /\ jobs[p] # "none" => j \notin Runnable
    <2>1. tasks[t].req.kind \in {"submit", "poll", "result", "cancel"}
      BY <1>2 DEF Requests
    <2> QED BY <1>1, <2>1, HandledIsLater
  <1>4. /\ jobs' = [jobs EXCEPT ![p] = j]
        /\ tasks' = [tasks EXCEPT ![t].req.phase = "back", ![t].req.view = j]
        /\ UNCHANGED <<provider, rewriting, plans, sessions, stray>>
    BY DEF Serve
  <1>5. q \in Requests /\ q.phase = "back" /\ q.view = j /\ q.kind = tasks[t].req.kind
    <2> HIDE DEF j
    <2> QED BY <1>2, <1>3 DEF Requests
  <1>6. tasks' = [tasks EXCEPT ![t] = r]
    BY <1>1, <1>4
  <1> HIDE DEF j, q
  <1>7. r \in TaskRecords /\ r.req = q /\ r.pc = tasks[t].pc /\ r.plan = p
    BY <1>1, <1>5 DEF TaskRecords, PlanOf
  <1> HIDE DEF r
  <1>8. RequestHolds(r, j)
    <2>1. tasks[t].req.kind # "submit" => jobs[p] # "none"
      BY <1>1, <1>2 DEF RequestHolds, Requests
    <2>2. j # "none"
      BY <1>3, <2>1 DEF Later
    <2> QED BY <1>1, <1>3, <1>5, <1>7, <2>1, <2>2 DEF RequestHolds
  <1>9. /\ tasks'[t] = r /\ \A u \in Tasks \ {t} : tasks'[u] = tasks[u]
        /\ \A u \in Plans : Later(jobs[u], jobs'[u])
        /\ jobs'[p] = j
    BY <1>1, <1>3, <1>4, <1>6 DEF Later
  <1>10. Shapes'
    BY <1>1, <1>3, <1>4, <1>6, <1>7 DEF IInv, Shapes
  <1>11. JobsKnown'
    <2>1. \A u \in Plans : SessionHolds(sessions'[u], jobs'[u])
      BY <1>4, <1>9, LaterHolds DEF IInv, JobsKnown
    <2>2. ASSUME NEW u \in Tasks
          PROVE  RequestHolds(tasks'[u], jobs'[tasks'[u].plan])
      <3>1. CASE u = t
        BY <1>7, <1>8, <1>9, <3>1
      <3>2. CASE u # t
        <4>1. PlanOf(u) \in Plans /\ RequestHolds(tasks[u], jobs[PlanOf(u)])
          BY AtTask
        <4> QED BY <1>9, <3>2, <4>1, LaterHolds DEF PlanOf
      <3> QED BY <3>1, <3>2
    <2> QED BY <2>1, <2>2 DEF JobsKnown, PlanOf
  <1>12. TurnsCounted' /\ CountedIsPresent' /\ CanceledKeepsNothing'
    <2>1. \A u \in Plans : Running(u)' = Running(u)
      BY <1>7, <1>9 DEF Running, Tasks, PlanOf
    <2> QED BY <1>4, <2>1 DEF IInv, TurnsCounted, CountedIsPresent, CanceledKeepsNothing
  <1> QED BY <1>10, <1>11, <1>12 DEF IInv

LEMMA RequestFailsKeeps ==
  ASSUME IInv, NEW t \in Tasks, RequestFails(t)
  PROVE  IInv'
  <1> DEFINE q == [tasks[t].req EXCEPT !.phase = "back", !.view = "error"]
             r == [tasks[t] EXCEPT !.req = q]
  <1>1. /\ tasks[t] \in TaskRecords /\ RequestHolds(tasks[t], jobs[PlanOf(t)])
        /\ tasks[t].req.phase = "sent" /\ tasks \in [Tasks -> TaskRecords]
        /\ UNCHANGED <<provider, rewriting, plans, sessions, jobs>>
        /\ Session(t) \in Sessions /\ SessionHolds(Session(t), jobs[PlanOf(t)])
        /\ sessions = [sessions EXCEPT ![PlanOf(t)] = Session(t)]
    BY AtTask DEF RequestFails, IInv, Shapes
  <1>2. tasks[t].req \in Requests
    BY <1>1 DEF TaskRecords, NoRequest
  <1>3. q \in Requests /\ q.view = "error" /\ q.kind = tasks[t].req.kind
    BY <1>2 DEF Requests
  <1>4. tasks' = [tasks EXCEPT ![t] = r]
    BY <1>1 DEF RequestFails
  <1> HIDE DEF q
  <1>5. r \in TaskRecords /\ r.req = q /\ r.pc = tasks[t].pc /\ r.plan = PlanOf(t)
    BY <1>1, <1>3 DEF TaskRecords, PlanOf
  <1> HIDE DEF r
  <1>6. RequestHolds(r, jobs[r.plan])
    BY <1>1, <1>3, <1>5 DEF RequestHolds
  <1>7. stray' \subseteq StrayRequests
    BY DropType DEF RequestFails
  <1>8. Moves(t, r, Session(t))
    BY <1>1, <1>4, <1>5, <1>6, <1>7 DEF Moves
  <1> QED BY <1>1, <1>5, <1>8, AtTask, SamePlan, GoesOn DEF PlanOf

LEMMA ManagerKeeps ==
  ASSUME IInv,
         \/ \E r \in stray : ServeStray(r)
         \/ \E p \in Plans, j \in JobStates : Work(p, j)
  PROVE  IInv'
  <1>1. jobs \in [Plans -> JobStates \cup {"none"}] /\ stray \subseteq StrayRequests
    BY DEF IInv, Shapes
  <1>2. ASSUME NEW r \in stray, ServeStray(r)
        PROVE  IInv'
    <2>1. r[1] \in {"submit", "poll", "result", "cancel"} /\ r[2] \in Plans
      BY <1>1, <1>2 DEF StrayRequests
    <2>2. Handled(r[1], r[2]) \in JobStates \cup {"none"} /\ Later(jobs[r[2]], Handled(r[1], r[2]))
      BY <1>1, <2>1, HandledIsLater
    <2>3. /\ jobs' = [jobs EXCEPT ![r[2]] = Handled(r[1], r[2])] /\ stray' \subseteq stray
          /\ UNCHANGED <<provider, rewriting, plans, sessions, tasks>>
      BY <1>2 DEF ServeStray
    <2> QED BY <2>1, <2>2, <2>3, JobMoves
  <1>3. ASSUME NEW p \in Plans, NEW j \in JobStates, Work(p, j)
        PROVE  IInv'
    <2>1. Later(jobs[p], j)
      BY <1>3 DEF Work, Later, Runnable
    <2> QED BY <1>3, <2>1, JobMoves DEF Work
  <1> QED BY <1>2, <1>3

-----------------------------------------------------------------------------
(* Theorems *)

\* At the start nothing is planned, searched or asked for.
LEMMA InitKeeps ==
  ASSUME Init
  PROVE  IInv
  <1>1. /\ \A p \in Plans : plans[p] = UnusedPlan /\ sessions[p] = NoSession /\ jobs[p] = "none"
        /\ \A t \in Tasks : /\ tasks[t].pc = "idle" /\ tasks[t].plan = SomePlan
                            /\ tasks[t].req = NoRequest /\ tasks[t].out = "none"
    BY DEF Init
  <1>2. UnusedPlan \in PlanShapes /\ UnusedPlan.active = 0 /\ UnusedPlan.canceled = FALSE
    BY DEF UnusedPlan, PlanShapes
  <1>3. NoSession \in Sessions /\ NoSession.job = FALSE /\ NoSession.acknowledged = FALSE
    BY DEF NoSession, NewSession, Sessions, JobStates
  <1>4. tasks \in [Tasks -> TaskRecords]
    <2>1. SomePlan \in Plans
      BY PlansExist DEF SomePlan
    <2> QED BY <2>1, Waits DEF Init, TaskRecords
  <1>5. Shapes
    <2>1. rewriting \in 0 .. MaxPlanners
      BY Bounds DEF Init
    <2>2. plans \in [Plans -> PlanShapes] /\ sessions \in [Plans -> Sessions]
      BY <1>2, <1>3 DEF Init
    <2>3. provider \in Providers /\ jobs \in [Plans -> JobStates \cup {"none"}]
          /\ stray \subseteq StrayRequests
      BY DEF Init
    <2> QED BY <1>4, <2>1, <2>2, <2>3 DEF Shapes
  <1>6. \A p \in Plans : Cardinality(Running(p)) = 0
    <2> TAKE p \in Plans
    <2>1. Running(p) = {}
      BY <1>1 DEF Running, Tasks, InTurn, Searching, Canceling
    <2> QED BY <2>1, FS_EmptySet
  <1>7. TurnsCounted /\ CountedIsPresent /\ CanceledKeepsNothing
    BY <1>1, <1>2, <1>6 DEF TurnsCounted, CountedIsPresent, CanceledKeepsNothing
  <1>8. JobsKnown
    <2>1. \A p \in Plans : SessionHolds(sessions[p], jobs[p])
      BY <1>1, <1>3 DEF SessionHolds
    <2>2. \A t \in Tasks : RequestHolds(tasks[t], jobs[PlanOf(t)])
      BY <1>1 DEF RequestHolds, NoRequest, Kind
    <2> QED BY <2>1, <2>2 DEF JobsKnown
  <1> QED BY <1>5, <1>7, <1>8 DEF IInv

\* A step of a turn.
LEMMA TurnKeeps ==
  ASSUME IInv, NEW t \in Turns, Step(t)
  PROVE  IInv'
  <1>1. t \in Tasks
    BY DEF Tasks
  <1> QED
    BY <1>1, TakeLockKeeps, SearchReplyKeeps, PollAgainKeeps, EnterSearchKeeps, ResultReplyKeeps,
       FetchedKeeps, ClaimsReadKeeps, AnswerKeeps, FinishActionsKeep, DeadlineFiresKeeps,
       CancelLockedKeeps, CancelReplyKeeps, RequestFailsKeeps
    DEF Step

\* A step keeps the invariant.
LEMMA StepKeeps ==
  ASSUME IInv, [Next]_vars
  PROVE  IInv'
  <1>1. CASE UNCHANGED vars
    <2>1. Shapes' /\ TurnsCounted' /\ CountedIsPresent' /\ CanceledKeepsNothing'
      BY <1>1 DEF vars, IInv, Shapes, TurnsCounted, Running, CountedIsPresent, CanceledKeepsNothing
    <2>2. JobsKnown'
      BY <1>1 DEF vars, IInv, JobsKnown, PlanOf
    <2> QED BY <2>1, <2>2 DEF IInv
  <1>2. ASSUME CreatePlan \/ StorePlan
               \/ \E p \in Plans : Approve(p) \/ Expire(p) \/ DeadlinePasses(p)
        PROVE  IInv'
    BY <1>2, CreatePlanKeeps, StorePlanKeeps, ApproveKeeps, ExpireKeeps, DeadlinePassesKeeps
  <1>3. ASSUME NEW t \in Turns,
               \/ Step(t) \/ Answer(t, FALSE) \/ ModelFails(t) \/ Disconnect(t)
               \/ \E p \in Plans, matches \in BOOLEAN : BeginTurn(t, p, matches)
               \/ \E async \in BOOLEAN : WaitEnds(t, async)
        PROVE  IInv'
    BY <1>3, TurnKeeps, AnswerKeeps, FinishActionsKeep, BeginTurnKeeps, WaitEndsKeeps
  <1>4. ASSUME NEW t \in Cancelers,
               \/ CancelLocked(t) \/ CancelReply(t) \/ RequestFails(t)
               \/ \E p \in Plans : CancelPlan(t, p)
        PROVE  IInv'
    <2>1. t \in Tasks
      BY DEF Tasks
    <2> QED BY <1>4, <2>1, CancelLockedKeeps, CancelReplyKeeps, RequestFailsKeeps, CancelPlanKeeps
  <1>5. CASE \E t \in Tasks : Serve(t)
    BY <1>5, ServeKeeps
  <1>6. CASE \/ \E r \in stray : ServeStray(r)
             \/ \E p \in Plans, j \in JobStates : Work(p, j)
    BY <1>6, ManagerKeeps
  <1>7. CASE Next
    BY <1>2, <1>3, <1>4, <1>5, <1>6, <1>7 DEF Next
  <1> QED BY <1>1, <1>7

\* The invariant: the count of the turns of each plan, and what the sessions
\* and the requests know of the jobs.
THEOREM Invariance == Spec => []IInv
  <1>1. Init => IInv
    BY InitKeeps
  <1>2. IInv /\ [Next]_vars => IInv'
    BY StepKeeps
  <1> QED BY <1>1, <1>2, PTL DEF Spec

\* The types of the state of a search.
THEOREM Typed == Spec => []TypeOK
  <1>1. ASSUME IInv
        PROVE  TypeOK
    <2>1. \A p \in Plans : plans[p] \in PlanRecords
      <3> TAKE p \in Plans
      <3>1. plans[p] \in PlanShapes /\ plans[p].active \in 0 .. Cardinality(Turns)
        BY <1>1, CountIsNat DEF IInv, Shapes
      <3> QED BY <3>1 DEF PlanShapes, PlanRecords
    <2> QED BY <1>1, <2>1 DEF IInv, Shapes, TypeOK, StrayRequests
  <1> QED BY <1>1, Invariance, PTL

\* _purge never takes the plan of a turn that runs: begin_turn and close keep
\* the count of the turns of a plan right on every way a turn can end.
THEOREM PlanOutlivesTurns == Spec => []TurnKeepsPlan
  <1>1. ASSUME IInv
        PROVE  TurnKeepsPlan
    <2>1. SUFFICES ASSUME NEW t \in Turns, provider = "worker", tasks[t].pc \in InTurn
                   PROVE  plans[PlanOf(t)].stage = "present"
      BY DEF TurnKeepsPlan
    <2>2. PlanOf(t) \in Plans /\ t \in Running(PlanOf(t))
      BY <1>1, <2>1, AtTask DEF Tasks, Running, PlanOf
    <2>3. Cardinality(Running(PlanOf(t))) \in Nat \ {0}
      <3>1. IsFiniteSet(Running(PlanOf(t)))
        BY TurnsFinite, FS_Subset DEF Running
      <3> QED BY <2>2, <3>1, FS_CardinalityType, FS_EmptySet
    <2> QED BY <1>1, <2>1, <2>2, <2>3 DEF IInv, TurnsCounted, CountedIsPresent
  <1> QED BY <1>1, Invariance, PTL

\* A cancellation that was acknowledged has left nothing to run at the Manager,
\* and a canceled plan keeps no result, whatever the network loses or delays.
THEOREM CancellationIsFinal == Spec => []CancellationHolds
  <1>1. ASSUME IInv
        PROVE  CancellationHolds
    BY <1>1 DEF IInv, JobsKnown, SessionHolds, Runnable, CancellationHolds, NoOrphanJob
  <1> QED BY <1>1, Invariance, PTL
-----------------------------------------------------------------------------
(* The observation of Discord (DiscordObservation) *)

Days == {DaysOf[r] : r \in Queries}
AnswerShapes ==
  {NoAnswer} \cup
  {[status |-> s, analysis |-> a, selected |-> Len(Select(d)), omitted |-> Omitted(d)] :
     s \in {"completed", "partial"}, a \in {"verified", "unverified", "failed"}, d \in Days}
Record ==
  [request : Queries, service : Services, task : AtWork \cup Over \cup {"none", "new"}, runs : 0 .. 1,
   answer : AnswerShapes, known : BOOLEAN, accepted : Results \cup {NoResult}, expired : BOOLEAN,
   late : BOOLEAN, due : BOOLEAN]
Collections == [state : {"none", "running", "completed", "partial", "failed"}, result : Results \cup {NoResult}]

\* The count of a record is that of its task, which has none once it is answered.
RecordHolds(rec) ==
  /\ rec \in Record
  /\ rec.runs = IF rec.task \in AtWork THEN 1 ELSE 0
  /\ rec.answer # NoAnswer => rec.task \in {"done", "none"}

Open == {p \in DOMAIN calls : calls[p].at # "idle"}
Analyzing == {i \in Records : records[i].task = "analyzing"}

CallHolds(c, made) ==
  /\ DOMAIN c = {"at", "request", "service", "record"}
  /\ c.at # "idle" => c.request \in Queries /\ c.service \in Services
  /\ c.at \in {"lock", "held"} => c.record \in made

ObservationTyped ==
  /\ records \in Seq(Record) /\ current \in Services
  /\ kept \in [Services -> SUBSET Records]
  /\ collections \in [Ids -> Collections]
  /\ DOMAIN calls = Polls /\ calls = [p \in Polls |-> calls[p]]
  /\ \A p \in Polls : CallHolds(calls[p], Records)
Counted == active = Cardinality(Open) + Cardinality(Analyzing)
Excluded == token => Analyzing = {}
OInv ==
  ObservationTyped /\ (\A i \in Records : RecordHolds(records[i])) /\ Counted /\ Excluded

LEMMA Constants ==
  ASSUME ObservationAssumption
  PROVE  /\ NoCall.at = "idle" /\ CallHolds(NoCall, {})
         /\ \A i \in 0 .. MaxReloads : i \in Services
  BY DEF NoCall, CallHolds, Services, ObservationAssumption

LEMMA SeqIsFunction ==
  ASSUME NEW S, NEW s \in Seq(S)
  PROVE  /\ Len(s) \in Nat /\ DOMAIN s = 1 .. Len(s) /\ s \in [1 .. Len(s) -> S]
  OBVIOUS

LEMMA FunctionIsSeq ==
  ASSUME NEW S, NEW n \in Nat, NEW s \in [1 .. n -> S]
  PROVE  s \in Seq(S) /\ Len(s) = n
  OBVIOUS

\* What is counted is finite.
LEMMA CountedSets ==
  ASSUME ObservationAssumption, OInv
  PROVE  /\ IsFiniteSet(Open) /\ IsFiniteSet(Analyzing)
         /\ Cardinality(Open) \in Nat /\ Cardinality(Analyzing) \in Nat
  <1>1. IsFiniteSet(Open)
    BY FS_Subset DEF OInv, ObservationTyped, ObservationAssumption, Open
  <1>2. IsFiniteSet(Records)
    BY SeqIsFunction, FS_Interval DEF OInv, ObservationTyped, Records
  <1>3. IsFiniteSet(Analyzing)
    BY <1>2, FS_Subset DEF Analyzing
  <1> QED BY <1>1, <1>3, FS_CardinalityType

\* One record changes; its analysis begins, ends, or goes on.
LEMMA RecordMoves ==
  ASSUME ObservationAssumption, OInv, NEW i \in Records, NEW rec, RecordHolds(rec),
         records' = [records EXCEPT ![i] = rec], UNCHANGED <<kept, calls, token, current>>,
         collections' \in [Ids -> Collections],
         \/ active' = active /\ (rec.task = "analyzing" <=> records[i].task = "analyzing")
         \/ active' = active + 1 /\ rec.task = "analyzing" /\ records[i].task # "analyzing" /\ ~token
         \/ active' = active - 1 /\ rec.task # "analyzing" /\ records[i].task = "analyzing"
  PROVE  OInv'
  <1>1. /\ records \in [1 .. Len(records) -> Record] /\ Len(records) \in Nat /\ Records = 1 .. Len(records)
        /\ rec \in Record
    BY SeqIsFunction DEF OInv, ObservationTyped, Records, RecordHolds
  <1>2. records' \in [1 .. Len(records) -> Record]
    BY <1>1
  <1>3. records' \in Seq(Record) /\ Records' = Records
    BY <1>1, <1>2, FunctionIsSeq, SeqIsFunction DEF Records
  <1>4. \A j \in Records : records'[j] = IF j = i THEN rec ELSE records[j]
    BY <1>1
  <1>5. ObservationTyped'
    BY <1>3 DEF OInv, ObservationTyped
  <1>6. \A j \in Records : RecordHolds(records'[j])
    BY <1>4 DEF OInv
  <1>7. Analyzing' = IF rec.task = "analyzing" THEN Analyzing \cup {i} ELSE Analyzing \ {i}
    BY <1>3, <1>4 DEF Analyzing
  <1>8. i \in Analyzing <=> records[i].task = "analyzing"
    BY DEF Analyzing
  <1>9. Excluded'
    BY <1>7, <1>8 DEF OInv, Excluded
  <1>10. Counted'
    <2>1. Open' = Open
      BY DEF Open
    <2>2. /\ IsFiniteSet(Analyzing) /\ Cardinality(Open) \in Nat /\ Cardinality(Analyzing) \in Nat
          /\ active = Cardinality(Open) + Cardinality(Analyzing)
      BY CountedSets DEF OInv, Counted
    <2>3. Cardinality(Analyzing') = IF rec.task = "analyzing" /\ i \notin Analyzing THEN Cardinality(Analyzing) + 1
                                    ELSE IF rec.task # "analyzing" /\ i \in Analyzing
                                         THEN Cardinality(Analyzing) - 1 ELSE Cardinality(Analyzing)
      BY <1>7, <2>2, FS_AddElement, FS_RemoveElement
    <2> QED BY <1>8, <2>1, <2>2, <2>3 DEF Counted
  <1> QED BY <1>3, <1>5, <1>6, <1>9, <1>10 DEF OInv

\* A poll comes, goes on or leaves; the records may become more.
LEMMA PollMoves ==
  ASSUME ObservationAssumption, OInv, NEW p \in Polls, NEW c, calls' = [calls EXCEPT ![p] = c],
         CallHolds(c, Records'), records' \in Seq(Record), Records \subseteq Records',
         \A i \in Records' : RecordHolds(records'[i]), Analyzing' = Analyzing,
         kept' \in [Services -> SUBSET Records'], UNCHANGED <<collections, token, current>>,
         \/ active' = active /\ c.at # "idle" /\ calls[p].at # "idle"
         \/ active' = active + 1 /\ c.at # "idle" /\ calls[p].at = "idle"
         \/ active' = active - 1 /\ c.at = "idle" /\ calls[p].at # "idle"
  PROVE  OInv'
  <1>1. /\ DOMAIN calls' = Polls /\ calls' = [q \in Polls |-> calls'[q]]
        /\ \A q \in Polls : calls'[q] = IF q = p THEN c ELSE calls[q]
    BY DEF OInv, ObservationTyped
  <1>2. \A q \in Polls : CallHolds(calls[q], Records')
    BY DEF OInv, ObservationTyped, CallHolds
  <1>3. ObservationTyped'
    BY <1>1, <1>2 DEF OInv, ObservationTyped
  <1>4. Open' = IF c.at # "idle" THEN Open \cup {p} ELSE Open \ {p}
    BY <1>1 DEF Open, OInv, ObservationTyped
  <1>5. p \in Open <=> calls[p].at # "idle"
    BY DEF Open, OInv, ObservationTyped
  <1>6. Counted'
    <2>1. /\ IsFiniteSet(Open) /\ Cardinality(Open) \in Nat /\ Cardinality(Analyzing) \in Nat
          /\ active = Cardinality(Open) + Cardinality(Analyzing)
      BY CountedSets DEF OInv, Counted
    <2>2. Cardinality(Open') = IF c.at # "idle" /\ p \notin Open THEN Cardinality(Open) + 1
                               ELSE IF c.at = "idle" /\ p \in Open
                                    THEN Cardinality(Open) - 1 ELSE Cardinality(Open)
      BY <1>4, <2>1, FS_AddElement, FS_RemoveElement
    <2> QED BY <1>5, <2>1, <2>2 DEF Counted
  <1>7. Excluded'
    BY DEF OInv, Excluded
  <1> QED BY <1>3, <1>6, <1>7 DEF OInv

-----------------------------------------------------------------------------
(* The run of a record *)

\* A record that was at work, with its answer.
LEMMA StoredHolds ==
  ASSUME NEW rec \in Record, rec.runs = 1, NEW analysis \in {"verified", "unverified", "failed"}
  PROVE  LET new == [rec EXCEPT !.task = "done", !.runs = @ - 1, !.expired = FALSE, !.answer = Rendered(rec, analysis)]
         IN  RecordHolds(new) /\ new.task = "done"
  <1> DEFINE new == [rec EXCEPT !.task = "done", !.runs = @ - 1, !.expired = FALSE, !.answer = Rendered(rec, analysis)]
  <1>1. Rendered(rec, analysis) \in AnswerShapes
    <2>1. DaysOf[rec.request] \in Days
      BY DEF Record, Days
    <2> QED BY <2>1 DEF Rendered, AnswerShapes
  <1>2. new \in Record
    <2>1. "done" \in AtWork \cup Over \cup {"none", "new"} /\ rec.runs - 1 \in 0 .. 1
      BY DEF Over
    <2> HIDE DEF AnswerShapes
    <2> QED BY <1>1, <2>1 DEF Record
  <1>3. new.task = "done" /\ new.runs = 0
    BY DEF Record
  <1>4. "done" \notin AtWork
    BY DEF AtWork, Collecting
  <1> QED BY <1>2, <1>3, <1>4 DEF RecordHolds

\* A record that begins or goes on with its work.
LEMMA WorkHolds ==
  ASSUME NEW rec \in Record, rec.task \in AtWork, rec.runs = 1, rec.answer = NoAnswer
  PROVE  RecordHolds(rec)
  BY DEF RecordHolds

LEMMA AtWorkHas ==
  ASSUME OInv, NEW i \in Records, records[i].task \in AtWork
  PROVE  records[i] \in Record /\ records[i].runs = 1 /\ records[i].answer = NoAnswer
  BY DEF OInv, RecordHolds, AtWork, Collecting

LEMMA EndRunKeeps ==
  ASSUME ObservationAssumption, OInv, NEW i \in Records, records[i].task \in Collecting,
         NEW task \in {"failed", "pending"}, EndRun(i, task), UNCHANGED <<kept, calls, token, current, active>>,
         collections' \in [Ids -> Collections]
  PROVE  OInv'
  <1> DEFINE rec == [records[i] EXCEPT !.task = task, !.runs = @ - 1]
  <1>1. records[i] \in Record /\ records[i].runs = 1 /\ records[i].answer = NoAnswer
    BY AtWorkHas DEF AtWork
  <1>2. records' = [records EXCEPT ![i] = rec]
    BY <1>1, SeqIsFunction DEF EndRun, OInv, ObservationTyped, Records
  <1>3. rec \in Record
    <2>1. task \in AtWork \cup Over \cup {"none", "new"} /\ records[i].runs - 1 \in 0 .. 1
      BY <1>1 DEF Over
    <2> QED BY <1>1, <2>1 DEF Record
  <1>4. rec.task = task /\ rec.runs = 0 /\ rec.answer = NoAnswer
    BY <1>1 DEF Record
  <1>5. RecordHolds(rec) /\ rec.task # "analyzing" /\ records[i].task # "analyzing"
    BY <1>3, <1>4 DEF RecordHolds, AtWork, Collecting
  <1> HIDE DEF rec
  <1> QED BY <1>2, <1>5, RecordMoves

\* A record whose posts are accepted, analysed or not.
LEMMA AnalyzeKeeps ==
  ASSUME ObservationAssumption, OInv, NEW i \in Records, records[i].task # "analyzing",
         NEW rec \in Record, rec.runs = 1, rec.answer = NoAnswer, Analyze(i, rec),
         UNCHANGED <<kept, collections, calls, token, current>>
  PROVE  OInv'
  <1>0. collections' \in [Ids -> Collections]
    BY DEF OInv, ObservationTyped
  <1>1. CASE token
    <2> DEFINE new == [rec EXCEPT !.task = "done", !.runs = @ - 1, !.expired = FALSE,
                                  !.answer = Rendered(rec, "unverified")]
    <2>1. RecordHolds(new) /\ new.task = "done"
      BY StoredHolds
    <2>2. records' = [records EXCEPT ![i] = new] /\ active' = active
      BY <1>1 DEF Analyze, StoreAnswer
    <2> HIDE DEF new
    <2> QED BY <1>0, <2>1, <2>2, RecordMoves
  <1>2. CASE ~token
    <2> DEFINE new == [rec EXCEPT !.task = "analyzing", !.due = FALSE]
    <2>1. "analyzing" \in AtWork
      BY DEF AtWork
    <2>2. new \in Record /\ new.task = "analyzing" /\ new.runs = 1 /\ new.answer = NoAnswer
      BY <2>1 DEF Record
    <2>3. records' = [records EXCEPT ![i] = new] /\ active' = active + 1
      BY <1>2 DEF Analyze
    <2> HIDE DEF new
    <2> QED BY <1>0, <1>2, <2>1, <2>2, <2>3, WorkHolds, RecordMoves
  <1> QED BY <1>1, <1>2

LEMMA StartKeeps ==
  ASSUME ObservationAssumption, OInv, NEW i \in Records, Start(i)
  PROVE  OInv'
  <1> DEFINE rec == [records[i] EXCEPT !.runs = @ + 1]
             next == IF rec.known THEN "watching" ELSE "posting"
             new == [rec EXCEPT !.task = next]
  <1>1. rec.task = "new" /\ UNCHANGED <<kept, collections, calls, token, current>>
    BY DEF Start, others
  <1>2. records[i] \in Record /\ records[i].task = "new" /\ records[i].runs = 0 /\ records[i].answer = NoAnswer
    BY <1>1 DEF OInv, RecordHolds, AtWork, Collecting, Record
  <1>3. rec \in Record /\ rec.runs = 1 /\ rec.answer = NoAnswer
    BY <1>2 DEF Record
  <1>4. CASE rec.accepted # NoResult
    BY <1>1, <1>2, <1>3, <1>4, AnalyzeKeeps DEF Start
  <1>5. CASE rec.accepted = NoResult
    <2>1. records' = [records EXCEPT ![i] = new] /\ active' = active
      BY <1>5 DEF Start
    <2>2. next \in AtWork /\ next # "analyzing"
      BY DEF AtWork, Collecting
    <2> HIDE DEF rec, next
    <2>3. new \in Record /\ new.task = next /\ new.runs = 1 /\ new.answer = NoAnswer
      BY <1>3, <2>2 DEF Record
    <2> HIDE DEF new
    <2>4. collections' \in [Ids -> Collections]
      BY <1>1 DEF OInv, ObservationTyped
    <2> QED BY <1>1, <1>2, <2>1, <2>2, <2>3, <2>4, WorkHolds, RecordMoves
  <1> QED BY <1>4, <1>5

LEMMA PostKeeps ==
  ASSUME ObservationAssumption, OInv, NEW i \in Records, Post(i)
  PROVE  OInv'
  <1> DEFINE id == IdOf[records[i].request]
             new == [records[i] EXCEPT !.task = "watching", !.known = TRUE]
  <1>1. records[i].task \in Collecting /\ records[i].task \in AtWork /\ records[i].task = "posting"
        /\ UNCHANGED <<kept, calls, token, current, active>>
    BY DEF Post, Collecting, AtWork, others
  <1>2. records[i] \in Record /\ records[i].runs = 1 /\ records[i].answer = NoAnswer
    BY <1>1, AtWorkHas
  <1>3. collections' \in [Ids -> Collections]
    <2>1. id \in Ids /\ collections \in [Ids -> Collections]
      BY <1>2 DEF Record, Ids, OInv, ObservationTyped
    <2>2. [NoJob EXCEPT !.state = "running"] \in Collections
      BY DEF NoJob, Collections
    <2>3. collections' = [collections EXCEPT ![id] = IF collections[id] = NoJob THEN [NoJob EXCEPT !.state = "running"]
                                                     ELSE collections[id]]
      BY <2>1 DEF Post
    <2> HIDE DEF id
    <2> QED BY <2>1, <2>2, <2>3
  <1>4. CASE records' = [records EXCEPT ![i].task = "watching", ![i].known = TRUE]
    <2>1. records' = [records EXCEPT ![i] = new]
      BY <1>2, <1>4, SeqIsFunction DEF OInv, ObservationTyped, Records
    <2>2. "watching" \in AtWork
      BY DEF AtWork, Collecting
    <2>3. new \in Record /\ new.task = "watching" /\ new.runs = 1 /\ new.answer = NoAnswer
      BY <1>2, <2>2 DEF Record
    <2> HIDE DEF new
    <2> QED BY <1>1, <1>3, <2>1, <2>2, <2>3, WorkHolds, RecordMoves
  <1>5. CASE EndRun(i, "failed")
    BY <1>1, <1>3, <1>5, EndRunKeeps
  <1> QED BY <1>4, <1>5 DEF Post

LEMMA WatchKeeps ==
  ASSUME ObservationAssumption, OInv, NEW i \in Records, Watch(i)
  PROVE  OInv'
  <1> DEFINE new == [records[i] EXCEPT !.task = "fetching"]
  <1>1. records[i].task \in Collecting /\ records[i].task \in AtWork /\ records[i].task = "watching"
        /\ UNCHANGED <<kept, calls, token, current, active>> /\ collections' \in [Ids -> Collections]
    BY DEF Watch, Collecting, AtWork, others, OInv, ObservationTyped
  <1>2. records[i] \in Record /\ records[i].runs = 1 /\ records[i].answer = NoAnswer
    BY <1>1, AtWorkHas
  <1>3. CASE records' = [records EXCEPT ![i].task = "fetching"]
    <2>1. records' = [records EXCEPT ![i] = new]
      BY <1>2, <1>3, SeqIsFunction DEF OInv, ObservationTyped, Records
    <2>2. "fetching" \in AtWork
      BY DEF AtWork, Collecting
    <2>3. new \in Record /\ new.task = "fetching" /\ new.runs = 1 /\ new.answer = NoAnswer
      BY <1>2, <2>2 DEF Record
    <2> HIDE DEF new
    <2> QED BY <1>1, <2>1, <2>2, <2>3, WorkHolds, RecordMoves
  <1>4. CASE EndRun(i, "failed") \/ EndRun(i, "pending")
    BY <1>1, <1>4, EndRunKeeps
  <1> QED BY <1>3, <1>4 DEF Watch

LEMMA FetchKeeps ==
  ASSUME ObservationAssumption, OInv, NEW i \in Records, Fetch(i)
  PROVE  OInv'
  <1> DEFINE job == collections[IdOf[records[i].request]]
             rec == [records[i] EXCEPT !.accepted = job.result]
  <1>1. records[i].task \in Collecting /\ records[i].task \in AtWork /\ records[i].task = "fetching"
        /\ UNCHANGED <<kept, collections, calls, token, current>>
    BY DEF Fetch, Collecting, AtWork, others
  <1>2. records[i] \in Record /\ records[i].runs = 1 /\ records[i].answer = NoAnswer
    BY <1>1, AtWorkHas
  <1>3. job \in Collections
    BY <1>2 DEF Record, Ids, OInv, ObservationTyped
  <1>4. CASE Analyze(i, rec)
    <2>1. rec \in Record /\ rec.runs = 1 /\ rec.answer = NoAnswer
      BY <1>2, <1>3 DEF Record, Collections
    <2> HIDE DEF rec
    <2> QED BY <1>1, <1>4, <2>1, AnalyzeKeeps
  <1>5. CASE EndRun(i, "failed") /\ UNCHANGED active
    BY <1>1, <1>5, EndRunKeeps DEF OInv, ObservationTyped
  <1> QED BY <1>4, <1>5 DEF Fetch

LEMMA CollectFailsKeeps ==
  ASSUME ObservationAssumption, OInv, NEW i \in Records, CollectFails(i)
  PROVE  OInv'
  BY EndRunKeeps DEF CollectFails, others, OInv, ObservationTyped

\* The analysis ends with an answer.
LEMMA EndAnalysisKeeps ==
  ASSUME ObservationAssumption, OInv, NEW i \in Records, records[i].task = "analyzing",
         NEW analysis \in {"verified", "unverified", "failed"}, EndAnalysis(i, analysis)
  PROVE  OInv'
  <1> DEFINE rec == records[i]
             new == [rec EXCEPT !.task = "done", !.runs = @ - 1, !.expired = FALSE,
                                !.answer = Rendered(rec, analysis)]
  <1>1. records[i] \in Record /\ records[i].runs = 1
    BY AtWorkHas DEF AtWork
  <1>2. RecordHolds(new) /\ new.task = "done"
    BY <1>1, StoredHolds
  <1>3. /\ records' = [records EXCEPT ![i] = new] /\ active' = active - 1
        /\ UNCHANGED <<kept, calls, token, current>> /\ collections' \in [Ids -> Collections]
    BY DEF EndAnalysis, StoreAnswer, others, OInv, ObservationTyped
  <1> HIDE DEF new
  <1> QED BY <1>2, <1>3, RecordMoves

\* A flag of a record that says nothing of its run.
LEMMA FlagKeeps ==
  ASSUME ObservationAssumption, OInv, NEW i \in Records, NEW rec,
         rec \in {[records[i] EXCEPT !.due = TRUE], [records[i] EXCEPT !.late = TRUE],
                  [records[i] EXCEPT !.expired = TRUE]},
         records' = [records EXCEPT ![i] = rec], UNCHANGED <<kept, collections, calls, active, token, current>>
  PROVE  OInv'
  <1>1. RecordHolds(records[i]) /\ records[i] \in Record
    BY DEF OInv, RecordHolds
  <1>2. /\ rec \in Record /\ rec.task = records[i].task /\ rec.runs = records[i].runs
        /\ rec.answer = records[i].answer
    BY <1>1 DEF Record
  <1>3. RecordHolds(rec)
    BY <1>1, <1>2 DEF RecordHolds
  <1> QED BY <1>2, <1>3, RecordMoves DEF OInv, ObservationTyped

LEMMA RunStepKeeps ==
  ASSUME ObservationAssumption, OInv, NEW i \in Records, RunStep(i) \/ Deadline(i) \/ RecordExpires(i)
  PROVE  OInv'
  <1>0. records \in [1 .. Len(records) -> Record] /\ Records = 1 .. Len(records)
    BY SeqIsFunction DEF OInv, ObservationTyped, Records
  <1>1. CASE Reply(i)
    BY <1>1, EndAnalysisKeeps DEF Reply
  <1>2. CASE Break(i) \/ TimeOut(i)
    BY <1>2, EndAnalysisKeeps DEF Break, TimeOut
  <1>3. CASE Idle(i)
    <2>1. records' = [records EXCEPT ![i] = [records[i] EXCEPT !.due = TRUE]]
      BY <1>0, <1>3 DEF Idle
    <2> QED BY <1>3, <2>1, FlagKeeps DEF Idle, others
  <1>4. CASE Deadline(i)
    <2>1. records' = [records EXCEPT ![i] = [records[i] EXCEPT !.late = TRUE]]
      BY <1>0, <1>4 DEF Deadline
    <2> QED BY <1>4, <2>1, FlagKeeps DEF Deadline, others
  <1>5. CASE RecordExpires(i)
    <2>1. records' = [records EXCEPT ![i] = [records[i] EXCEPT !.expired = TRUE]]
      BY <1>0, <1>5 DEF RecordExpires
    <2> QED BY <1>5, <2>1, FlagKeeps DEF RecordExpires, others
  <1> QED BY <1>1, <1>2, <1>3, <1>4, <1>5, StartKeeps, PostKeeps, WatchKeeps, FetchKeeps, CollectFailsKeeps
          DEF RunStep

-----------------------------------------------------------------------------
(* The polls *)

\* A poll that keeps its record, or has none.
LEMMA QuietPoll ==
  ASSUME ObservationAssumption, OInv, NEW p \in Polls, NEW c, calls' = [calls EXCEPT ![p] = c],
         CallHolds(c, Records), UNCHANGED <<records, collections, token, current>>,
         kept' \in [Services -> SUBSET Records],
         \/ active' = active /\ c.at # "idle" /\ calls[p].at # "idle"
         \/ active' = active + 1 /\ c.at # "idle" /\ calls[p].at = "idle"
         \/ active' = active - 1 /\ c.at = "idle" /\ calls[p].at # "idle"
  PROVE  OInv'
  <1>1. Records' = Records /\ Analyzing' = Analyzing
    BY DEF Records, Analyzing
  <1>2. records' \in Seq(Record) /\ \A i \in Records : RecordHolds(records'[i])
    BY DEF OInv, ObservationTyped
  <1>3. CallHolds(c, Records') /\ Records \subseteq Records' /\ kept' \in [Services -> SUBSET Records']
        /\ \A i \in Records' : RecordHolds(records'[i])
    BY <1>1, <1>2
  <1> QED BY <1>1, <1>2, <1>3, PollMoves

LEMMA ReturnKeeps ==
  ASSUME ObservationAssumption, OInv, NEW p \in Polls, Return(p), calls[p].at # "idle",
         UNCHANGED <<records, collections, token, current>>, kept' \in [Services -> SUBSET Records]
  PROVE  OInv'
  <1>1. CallHolds(NoCall, Records) /\ NoCall.at = "idle"
    BY Constants DEF CallHolds
  <1> QED BY <1>1, QuietPoll DEF Return

LEMMA PollKeeps ==
  ASSUME ObservationAssumption, OInv, NEW p \in Polls, NEW r \in Queries, Poll(p, r)
  PROVE  OInv'
  <1> DEFINE c == [at |-> "called", request |-> r, service |-> current, record |-> 0]
  <1>1. CallHolds(c, Records) /\ c.at = "called"
    BY DEF CallHolds, OInv, ObservationTyped
  <1>2. calls' = [calls EXCEPT ![p] = c] /\ active' = active + 1 /\ calls[p].at = "idle"
        /\ UNCHANGED <<records, collections, token, current>> /\ kept' \in [Services -> SUBSET Records]
    BY DEF Poll, others, OInv, ObservationTyped
  <1> HIDE DEF c
  <1> QED BY <1>1, <1>2, QuietPoll

\* A poll finds its record.
LEMMA LockRecord ==
  ASSUME ObservationAssumption, OInv, NEW p \in Polls, calls[p].at = "called", NEW i
  PROVE  LET c == [calls[p] EXCEPT !.at = "lock", !.record = i]
         IN  /\ c.at = "lock" /\ \A made : i \in made => CallHolds(c, made)
             /\ [calls EXCEPT ![p].at = "lock", ![p].record = i] = [calls EXCEPT ![p] = c]
  <1>1. CallHolds(calls[p], Records) /\ calls = [q \in Polls |-> calls[q]]
    BY DEF OInv, ObservationTyped
  <1> QED BY <1>1 DEF CallHolds

LEMMA EnterKeeps ==
  ASSUME ObservationAssumption, OInv, NEW p \in Polls, Enter(p)
  PROVE  OInv'
  <1> DEFINE c == calls[p]
             live == Live(c.service)
             made == Len(records) + 1
             new == NewRecord(c.request, c.service)
  <1>1. /\ c.at = "called" /\ c.request \in Queries /\ c.service \in Services
        /\ UNCHANGED <<collections, token, current>>
    BY DEF Enter, others, OInv, ObservationTyped, CallHolds
  <1>2. live \subseteq Records /\ kept \in [Services -> SUBSET Records]
    BY <1>1 DEF Live, OInv, ObservationTyped
  <1>3. CASE UNCHANGED records /\ kept' = [kept EXCEPT ![c.service] = live] /\ Return(p)
    BY <1>1, <1>2, <1>3, ReturnKeeps
  <1>4. ASSUME NEW i \in live, UNCHANGED <<records, active>>, kept' = [kept EXCEPT ![c.service] = live],
               calls' = [calls EXCEPT ![p].at = "lock", ![p].record = i]
        PROVE  OInv'
    <2> DEFINE d == [c EXCEPT !.at = "lock", !.record = i]
    <2>1. d.at = "lock" /\ CallHolds(d, Records) /\ calls' = [calls EXCEPT ![p] = d]
      BY <1>1, <1>2, <1>4, LockRecord
    <2>2. kept' \in [Services -> SUBSET Records]
      BY <1>2, <1>4
    <2> HIDE DEF d
    <2> QED BY <1>1, <1>4, <2>1, <2>2, QuietPoll
  <1>5. CASE /\ records' = Append(records, new) /\ kept' = [kept EXCEPT ![c.service] = live \cup {made}]
             /\ calls' = [calls EXCEPT ![p].at = "lock", ![p].record = made] /\ UNCHANGED active
    <2> DEFINE d == [c EXCEPT !.at = "lock", !.record = made]
    <2>1. records \in Seq(Record) /\ Records = 1 .. Len(records) /\ Len(records) \in Nat
      BY SeqIsFunction DEF OInv, ObservationTyped, Records
    <2>2. new \in Record /\ new.task = "none" /\ new.runs = 0 /\ new.answer = NoAnswer
      BY <1>1 DEF NewRecord, Record, AnswerShapes
    <2> HIDE DEF new
    <2>3. /\ records' \in Seq(Record) /\ Len(records') = made
          /\ \A i \in 1 .. made : records'[i] = IF i = made THEN new ELSE records[i]
      BY <1>5, <2>1, <2>2
    <2>4. Records' = 1 .. made
      BY <2>3, SeqIsFunction DEF Records
    <2>5. RecordHolds(new)
      BY <2>2 DEF RecordHolds, AtWork, Collecting
    <2>6. \A i \in Records' : RecordHolds(records'[i])
      BY <2>1, <2>3, <2>4, <2>5 DEF OInv
    <2>7. Analyzing' = Analyzing
      BY <2>1, <2>2, <2>3, <2>4 DEF Analyzing
    <2>8. d.at = "lock" /\ CallHolds(d, Records') /\ calls' = [calls EXCEPT ![p] = d]
      <3>1. made \in Records'
        BY <2>1, <2>4
      <3> HIDE DEF made
      <3> QED BY <1>1, <1>5, <3>1, LockRecord
    <2>9. kept' \in [Services -> SUBSET Records'] /\ Records \subseteq Records'
      BY <1>1, <1>2, <1>5, <2>1, <2>4
    <2> HIDE DEF d
    <2> QED BY <1>1, <1>5, <2>3, <2>6, <2>7, <2>8, <2>9, PollMoves
  <1> QED BY <1>3, <1>4, <1>5 DEF Enter

\* A record gets a task that is not at work, or loses one that is over, while a
\* poll goes on or leaves.
LEMMA TaskKeeps ==
  ASSUME ObservationAssumption, OInv, NEW p \in Polls, NEW i \in Records, NEW task,
         \/ task = "new" /\ records[i].task = "none" /\ records[i].answer = NoAnswer
         \/ task = "none" /\ records[i].task \in Over
         \/ task = records[i].task,
         records' = [records EXCEPT ![i].task = task], UNCHANGED <<kept, collections, token, current>>,
         NEW c, calls' = [calls EXCEPT ![p] = c], CallHolds(c, Records), calls[p].at # "idle",
         \/ active' = active /\ c.at # "idle"
         \/ active' = active - 1 /\ c.at = "idle"
  PROVE  OInv'
  <1> DEFINE rec == [records[i] EXCEPT !.task = task]
  <1>1. /\ records \in [1 .. Len(records) -> Record] /\ Len(records) \in Nat /\ Records = 1 .. Len(records)
        /\ RecordHolds(records[i]) /\ records[i] \in Record
    BY SeqIsFunction DEF OInv, ObservationTyped, Records, RecordHolds
  <1>2. task \in AtWork \cup Over \cup {"none", "new"}
    BY <1>1 DEF Record
  <1>3. /\ rec \in Record /\ rec.task = task /\ rec.runs = records[i].runs
        /\ rec.answer = records[i].answer
    BY <1>1, <1>2 DEF Record
  <1>4. RecordHolds(rec)
    BY <1>1, <1>3 DEF RecordHolds, AtWork, Collecting, Over
  <1>5. records' \in [1 .. Len(records) -> Record] /\ \A j \in Records : records'[j] = IF j = i THEN rec ELSE records[j]
    BY <1>1, <1>3
  <1>6. records' \in Seq(Record) /\ Records' = Records
    BY <1>1, <1>5, FunctionIsSeq, SeqIsFunction DEF Records
  <1>7. rec.task = "analyzing" <=> records[i].task = "analyzing"
    BY <1>3 DEF Over
  <1>8. Analyzing' = Analyzing
    BY <1>5, <1>6, <1>7 DEF Analyzing
  <1>9. \A j \in Records' : RecordHolds(records'[j])
    BY <1>4, <1>5, <1>6 DEF OInv
  <1> HIDE DEF rec
  <1> QED BY <1>6, <1>8, <1>9, PollMoves DEF OInv, ObservationTyped

LEMMA LockKeeps ==
  ASSUME ObservationAssumption, OInv, NEW p \in Polls, Lock(p)
  PROVE  OInv'
  <1> DEFINE i == calls[p].record
             task == IF records[i].task = "none" THEN "new" ELSE records[i].task
             c == [calls[p] EXCEPT !.at = "held"]
  <1>1. /\ calls[p].at = "lock" /\ i \in Records /\ CallHolds(calls[p], Records)
        /\ UNCHANGED <<kept, collections, token, current>> /\ calls = [q \in Polls |-> calls[q]]
    BY DEF Lock, others, OInv, ObservationTyped, CallHolds
  <1>2. CASE records[i].answer # NoAnswer
    BY <1>1, <1>2, ReturnKeeps DEF Lock, OInv, ObservationTyped
  <1>3. CASE records[i].answer = NoAnswer
    <2>1. /\ records' = [records EXCEPT ![i].task = task] /\ calls' = [calls EXCEPT ![p].at = "held"]
          /\ UNCHANGED active
      BY <1>1, <1>3, SeqIsFunction DEF Lock
    <2>2. c.at = "held" /\ CallHolds(c, Records) /\ calls' = [calls EXCEPT ![p] = c]
      BY <1>1, <2>1 DEF CallHolds
    <2>3. task = records[i].task \/ (task = "new" /\ records[i].task = "none")
      OBVIOUS
    <2> HIDE DEF task, c, i
    <2> QED BY <1>1, <1>3, <2>1, <2>2, <2>3, TaskKeeps
  <1> QED BY <1>2, <1>3

LEMMA ResumeKeeps ==
  ASSUME ObservationAssumption, OInv, NEW p \in Polls, Resume(p)
  PROVE  OInv'
  <1> DEFINE i == calls[p].record
             task == IF records[i].task \in Over THEN "none" ELSE records[i].task
  <1>1. /\ calls[p].at = "held" /\ i \in Records /\ UNCHANGED <<kept, collections, token, current>>
        /\ calls' = [calls EXCEPT ![p] = NoCall] /\ active' = active - 1
    BY DEF Resume, Return, others, OInv, ObservationTyped, CallHolds
  <1>2. records' = [records EXCEPT ![i].task = task]
    BY <1>1 DEF Resume
  <1>3. CallHolds(NoCall, Records) /\ NoCall.at = "idle"
    BY Constants DEF CallHolds
  <1>4. task = records[i].task \/ (task = "none" /\ records[i].task \in Over)
    OBVIOUS
  <1> HIDE DEF task, i
  <1> QED BY <1>1, <1>2, <1>3, <1>4, TaskKeeps

LEMMA LeaveKeeps ==
  ASSUME ObservationAssumption, OInv, NEW p \in Polls, ClientLeaves(p)
  PROVE  OInv'
  BY ReturnKeeps DEF ClientLeaves, others, OInv, ObservationTyped

-----------------------------------------------------------------------------
(* Reloads, the gate and the manager *)

LEMMA CancelRunsKeeps ==
  ASSUME ObservationAssumption, OInv, NEW g \in Services, CancelRuns(g)
  PROVE  OInv'
  <1> DEFINE hit == {i \in kept[g] : records[i].task \in AtWork \cup {"new"}}
             stopped(i) == [records[i] EXCEPT !.task = "canceled", !.runs = 0]
             ended == {i \in hit : records[i].task = "analyzing"}
  <1>1. /\ records \in [1 .. Len(records) -> Record] /\ Len(records) \in Nat /\ Records = 1 .. Len(records)
        /\ hit \subseteq Records /\ \A i \in Records : RecordHolds(records[i]) /\ records[i] \in Record
    BY SeqIsFunction DEF OInv, ObservationTyped, Records, RecordHolds
  <1>2. /\ records' = [i \in Records |-> IF i \in hit THEN stopped(i) ELSE records[i]]
        /\ active' = active - Cardinality(ended) /\ UNCHANGED <<kept, collections, calls, current, token>>
    BY DEF CancelRuns
  <1>3. ASSUME NEW i \in hit
        PROVE  RecordHolds(stopped(i)) /\ stopped(i).task = "canceled"
    <2>1. records[i] \in Record /\ records[i].answer = NoAnswer
      BY <1>1, <1>3 DEF RecordHolds, AtWork, Collecting
    <2>2. "canceled" \in AtWork \cup Over \cup {"none", "new"} /\ "canceled" \notin AtWork
      BY DEF Over, AtWork, Collecting
    <2>3. stopped(i) \in Record /\ stopped(i).task = "canceled" /\ stopped(i).runs = 0 /\ stopped(i).answer = NoAnswer
      <3> DEFINE mid == [records[i] EXCEPT !.task = "canceled"]
      <3>1. mid \in Record /\ mid.task = "canceled" /\ mid.answer = NoAnswer
        BY <2>1, <2>2 DEF Record
      <3>2. stopped(i) = [mid EXCEPT !.runs = 0]
        OBVIOUS
      <3> HIDE DEF mid, stopped
      <3>3. [mid EXCEPT !.runs = 0] \in Record
        BY <3>1 DEF Record
      <3> QED BY <3>1, <3>2, <3>3 DEF Record
    <2> QED BY <2>2, <2>3 DEF RecordHolds
  <1> HIDE DEF stopped, hit
  <1>4. \A i \in Records : RecordHolds(records'[i]) /\ records'[i] = IF i \in hit THEN stopped(i) ELSE records[i]
    BY <1>1, <1>2, <1>3
  <1>5. records' \in [1 .. Len(records) -> Record]
    BY <1>1, <1>2, <1>4 DEF RecordHolds
  <1>6. records' \in Seq(Record) /\ Records' = Records
    BY <1>1, <1>5, FunctionIsSeq, SeqIsFunction DEF Records
  <1>7. Analyzing' = Analyzing \ ended /\ Analyzing \cap ended = ended
    BY <1>1, <1>3, <1>4, <1>6 DEF Analyzing
  <1>8. Counted' /\ Excluded'
    <2>1. Open' = Open
      BY <1>2 DEF Open
    <2>2. IsFiniteSet(Analyzing) /\ active = Cardinality(Open) + Cardinality(Analyzing)
          /\ Cardinality(Open) \in Nat /\ Cardinality(Analyzing) \in Nat
      BY CountedSets DEF OInv, Counted
    <2>3. Cardinality(Analyzing') = Cardinality(Analyzing) - Cardinality(ended)
      <3> HIDE DEF ended
      <3>1. Cardinality(Analyzing \ ended) = Cardinality(Analyzing) - Cardinality(Analyzing \cap ended)
        BY <2>2, FS_Difference
      <3> QED BY <1>7, <3>1
    <2>4. Cardinality(ended) \in Nat
      BY <1>7, <2>2, FS_Subset, FS_CardinalityType
    <2> HIDE DEF ended
    <2> QED BY <1>2, <1>7, <2>1, <2>2, <2>3, <2>4 DEF Counted, Excluded, OInv
  <1>9. ObservationTyped'
    BY <1>2, <1>6 DEF OInv, ObservationTyped
  <1> QED BY <1>4, <1>6, <1>8, <1>9 DEF OInv

\* Steps that no record and no poll takes.
LEMMA OutsideKeeps ==
  ASSUME ObservationAssumption, OInv, UNCHANGED <<records, kept, calls, active>>,
         current' \in Services, collections' \in [Ids -> Collections],
         token' => token \/ active = 0
  PROVE  OInv'
  <1>1. Open' = Open /\ Records' = Records /\ Analyzing' = Analyzing
    BY DEF Open, Records, Analyzing
  <1>2. active = 0 => Analyzing = {}
    BY CountedSets, FS_EmptySet DEF OInv, Counted
  <1> QED BY <1>1, <1>2 DEF OInv, ObservationTyped, Counted, Excluded

LEMMA JobEndsKeeps ==
  ASSUME ObservationAssumption, OInv, NEW id \in Ids, JobEnds(id)
  PROVE  OInv'
  <1>1. PICK state \in {"completed", "partial", "failed"}, result \in Results :
          collections' = [collections EXCEPT ![id] = [state |-> state, result |-> result]]
    BY DEF JobEnds
  <1>2. [state |-> state, result |-> result] \in Collections
    BY DEF Collections
  <1>3. collections' \in [Ids -> Collections]
    BY <1>1, <1>2 DEF OInv, ObservationTyped
  <1>4. UNCHANGED <<records, kept, calls, active, token, current>>
    BY DEF JobEnds, others
  <1> QED BY <1>3, <1>4, OutsideKeeps DEF OInv, ObservationTyped

LEMMA GatewayKeeps ==
  ASSUME ObservationAssumption, OInv,
         BeginSwitch \/ EndSwitch \/ Reload \/ (\E g \in Services : CloseClients(g)) \/ UNCHANGED observationVars
  PROVE  OInv'
  <1>1. UNCHANGED <<records, kept, calls, active, collections>>
    BY DEF BeginSwitch, EndSwitch, Reload, CloseClients, observationVars
  <1>2. current' \in Services
    BY DEF BeginSwitch, EndSwitch, Reload, CloseClients, observationVars, OInv, ObservationTyped,
           Services, ObservationAssumption
  <1>3. token' => token \/ active = 0
    BY DEF BeginSwitch, EndSwitch, Reload, CloseClients, observationVars
  <1> QED BY <1>1, <1>2, <1>3, OutsideKeeps DEF OInv, ObservationTyped

LEMMA ObservationStep ==
  ASSUME ObservationAssumption, OInv, [ObservationNext]_observationVars
  PROVE  OInv'
  BY PollKeeps, EnterKeeps, LockKeeps, ResumeKeeps, LeaveKeeps, RunStepKeeps, JobEndsKeeps, CancelRunsKeeps,
     GatewayKeeps DEF ObservationNext

LEMMA ObservationStarts == ASSUME ObservationAssumption, ObservationInit PROVE OInv
  <1>1. records = <<>> /\ Records = {} /\ records \in Seq(Record)
    BY DEF ObservationInit, Records
  <1>2. Analyzing = {}
    BY <1>1 DEF Analyzing
  <1>3. Open = {}
    BY Constants DEF ObservationInit, Open
  <1>4. current \in Services /\ kept \in [Services -> SUBSET Records]
    BY Constants DEF ObservationInit, ObservationAssumption
  <1>5. collections \in [Ids -> Collections]
    BY DEF ObservationInit, NoJob, Collections
  <1>6. DOMAIN calls = Polls /\ calls = [p \in Polls |-> calls[p]] /\ \A p \in Polls : CallHolds(calls[p], Records)
    BY <1>1, Constants DEF ObservationInit
  <1>7. Counted
    BY <1>2, <1>3, FS_EmptySet DEF Counted, ObservationInit
  <1> QED BY <1>1, <1>2, <1>4, <1>5, <1>6, <1>7 DEF OInv, ObservationTyped, Excluded

\* The records, the polls and the gate fit together.
THEOREM ObservationInvariance ==
  ASSUME ObservationAssumption
  PROVE  ObservationSpec => []OInv
  BY ObservationStarts, ObservationStep, PTL DEF ObservationSpec

\* One run of a record at a time and none after its answer, and no run reads
\* from the model while a switch holds the gate's token.
THEOREM OneRunInItsPlace ==
  ASSUME ObservationAssumption
  PROVE  ObservationSpec => []RunsHoldTheirPlace
  <1>1. OInv => RunsHoldTheirPlace
    <2> SUFFICES ASSUME OInv PROVE RunsHoldTheirPlace
      OBVIOUS
    <2>1. OneInference
      BY DEF OneInference, OInv, RecordHolds, AtWork, Collecting
    <2>2. NoSwitchDuringAnalysis
      BY DEF NoSwitchDuringAnalysis, OInv, Counted, Excluded, Open, Analyzing
    <2> QED BY <2>1, <2>2 DEF RunsHoldTheirPlace
  <1> QED BY <1>1, ObservationInvariance, PTL
=============================================================================
