----------------------------- MODULE WebSearch -----------------------------
(***************************************************************************)
(* A web search of the gateway (packages/web_search_core, and the chat     *)
(* route that waits for it): plans that are proposed, approved, used by a  *)
(* chat turn and canceled.  With the worker provider the search is a job   *)
(* of an external Manager that several tasks of the gateway submit, poll   *)
(* and cancel, over requests whose replies may come late or not at all.    *)
(*                                                                         *)
(* A task runs on the event loop until its next await, so an action is the *)
(* code between two awaits.  Abstracted: queries and results are what the  *)
(* checks on them say (the hash of the prompt matches, the result is       *)
(* valid, claims were found); an expiry time is a flag that is raised.     *)
(***************************************************************************)
EXTENDS Integers, FiniteSets, Sequences

CONSTANTS
  Plans,      \* plan identifiers, never used twice
  Turns,      \* tasks of the chat route
  Cancelers,  \* tasks of the cancel route
  NoTask,
  MaxPlanners,  \* bound: tasks of the plan route at one time
  MaxPlans,   \* web_search.max_plans
  Providers   \* the providers the configuration may name

ASSUME TasksDistinct == Turns \cap Cancelers = {} /\ NoTask \notin Turns \cup Cancelers
ASSUME PlansExist == Plans # {}
ASSUME TurnsFinite == IsFiniteSet(Turns)
ASSUME Bounds == MaxPlans \in Nat \ {0} /\ MaxPlanners \in Nat
ASSUME ProvidersKnown == Providers \subseteq {"worker", "searxng"}

VARIABLES
  provider,   \* the provider in use
  rewriting,  \* planners that wait for the local model
  plans,      \* plan -> PlanRecord
  sessions,   \* plan -> WorkerSearchSession
  jobs,       \* plan -> state of its job at the Manager (external)
  stray,      \* requests given up by their task that the Manager may still get
  tasks       \* task -> where it is, its plan, its request, its outcome

vars == <<provider, rewriting, plans, sessions, jobs, stray, tasks>>

Tasks == Turns \cup Cancelers
SomePlan == CHOOSE p \in Plans : TRUE

JobStates == {"queued", "running", "cancel_requested",
              "completed", "partial", "failed", "cancelled", "lost"}
Ended == {"completed", "partial", "failed", "cancelled", "lost"}

\* What the checks on a result say: its schema, its job, attempt, query, usage
\* and budget, and the digest of its pack; and whether safe claims were found.
Verdicts == BOOLEAN
Claims == BOOLEAN

NoRequest == [kind |-> "none", phase |-> "none", view |-> "none"]
Requests == [kind : {"submit", "poll", "result", "cancel"},
             phase : {"sent", "back"}, view : JobStates \cup {"none", "error"}]
Sent(k) == [kind |-> k, phase |-> "sent", view |-> "none"]

PlanRecords == [stage : {"unused", "present", "gone"}, blocked : BOOLEAN,
                approved : BOOLEAN, expired : BOOLEAN, lock : Turns \cup {NoTask},
                completed : BOOLEAN, canceled : BOOLEAN, active : 0 .. Cardinality(Turns)]
UnusedPlan == [stage |-> "unused", blocked |-> TRUE, approved |-> FALSE, expired |-> FALSE,
               lock |-> NoTask, completed |-> FALSE, canceled |-> FALSE, active |-> 0]

Sessions == [open : BOOLEAN, job : BOOLEAN, state : JobStates, requested : BOOLEAN,
             acknowledged : BOOLEAN, lock : Tasks \cup {NoTask}, due : BOOLEAN,
             timedOut : BOOLEAN, accepted : BOOLEAN]
NewSession == [open |-> TRUE, job |-> FALSE, state |-> "queued", requested |-> FALSE,
               acknowledged |-> FALSE, lock |-> NoTask, due |-> FALSE, timedOut |-> FALSE,
               accepted |-> FALSE]
NoSession == [NewSession EXCEPT !.open = FALSE]

Searching == {"lock", "submit", "poll", "sleep", "result", "claims", "fetch"}
Canceling == {"cancel_lock", "cancel_submit", "cancel"}
Waiting == {"submit", "poll", "result", "cancel_submit", "cancel"}
InTurn == {"ground", "again", "model"} \cup Searching \cup Canceling

TaskRecords == [pc : {"idle", "done"} \cup InTurn, plan : Plans,
                req : Requests \cup {NoRequest},
                out : {"none", "answered", "other"}]

TypeOK ==
  /\ provider \in Providers
  /\ rewriting \in 0 .. MaxPlanners
  /\ plans \in [Plans -> PlanRecords]
  /\ sessions \in [Plans -> Sessions]
  /\ jobs \in [Plans -> JobStates \cup {"none"}]
  /\ stray \subseteq {"submit", "cancel"} \X Plans
  /\ tasks \in [Tasks -> TaskRecords]

Init ==
  /\ provider \in Providers
  /\ rewriting = 0
  /\ plans = [p \in Plans |-> UnusedPlan]
  /\ sessions = [p \in Plans |-> NoSession]
  /\ jobs = [p \in Plans |-> "none"]
  /\ stray = {}
  /\ tasks = [t \in Tasks |-> [pc |-> "idle", plan |-> SomePlan, req |-> NoRequest, out |-> "none"]]

----------------------------------------------------------------------------
(* Plans: create, approve, expire                                          *)

Present(ps) == {p \in Plans : ps[p].stage = "present"}

Unexpired_active(rec) == ~rec.expired  \* mutant
Unexpired(rec) == rec.active > 0 \/ ~rec.expired

Purged == [p \in Plans |-> IF plans[p].stage = "present" /\ ~Unexpired(plans[p])
                           THEN [plans[p] EXCEPT !.stage = "gone"] ELSE plans[p]]

\* The verdict on a query: what the detector finds in it, how the local model
\* rewrites it, and what the detector finds in what would go out.
Decide(query, rewrite, outbound) ==
  IF query = "hard" \/ outbound \in {"hard", "empty"} THEN "block"
  ELSE IF query = "clear" /\ rewrite = "ok" /\ outbound = "clear" THEN "allow" ELSE "confirm"

\* What inspect and normalize_query say of a text, and what _rewrite_query does.
Inspected == {"clear", "confirm", "hard"}
Rewritten == {"ok", "risky", "unavailable"}
Decisions == {Decide(q, r, o) : q \in Inspected, r \in Rewritten, o \in Inspected \cup {"empty"}}

HasRoom(ps) == Cardinality(Present(ps)) < MaxPlans

\* create_plan up to the call of the local model.
CreatePlan ==
  /\ rewriting < MaxPlanners
  /\ \E p \in Plans : plans[p].stage = "unused"    \* bound
  /\ plans' = Purged
  /\ rewriting' = IF HasRoom(Purged) THEN rewriting + 1 ELSE rewriting
  /\ UNCHANGED <<provider, sessions, jobs, stray, tasks>>

\* create_plan after it: other planners may have filled the store meanwhile.
StorePlan ==
  /\ rewriting > 0
  /\ rewriting' = rewriting - 1
  /\ \/ /\ HasRoom(plans)
        /\ \E p \in Plans, d \in Decisions :
             /\ plans[p].stage = "unused"
             /\ plans' = [plans EXCEPT ![p] = [UnusedPlan EXCEPT
                  !.stage = "present", !.blocked = d = "block", !.approved = d = "allow"]]
     \/ ~HasRoom(plans) /\ UNCHANGED plans
  /\ UNCHANGED <<provider, sessions, jobs, stray, tasks>>

Approve(p) ==
  /\ plans[p].stage = "present"
  /\ LET ps == Purged IN
     plans' = IF ps[p].stage = "present" /\ ~ps[p].blocked
              THEN [ps EXCEPT ![p].approved = TRUE] ELSE ps
  /\ UNCHANGED <<provider, rewriting, sessions, jobs, stray, tasks>>

\* expires_at passes.  A session moved it past its own deadline.
Expire(p) ==
  /\ plans[p].stage = "present" /\ ~plans[p].expired
  /\ sessions[p].open => sessions[p].due
  /\ plans' = [plans EXCEPT ![p].expired = TRUE]
  /\ UNCHANGED <<provider, rewriting, sessions, jobs, stray, tasks>>

----------------------------------------------------------------------------
(* The chat route                                                          *)

Refuse(t) == tasks' = [tasks EXCEPT ![t].pc = "done", ![t].out = "other"]

PlanOf(t) == tasks[t].plan
Session(t) == sessions[PlanOf(t)]
Asked(p) == plans[p].canceled \/ sessions[p].requested
OutOfTime(s) == s.due \/ s.timedOut

Goto(t, pc, req) == [tasks EXCEPT ![t].pc = pc, ![t].req = req]
Drop(t) ==
  IF tasks[t].req.phase = "sent" /\ tasks[t].req.kind \in {"submit", "cancel"}
  THEN stray \cup {<<tasks[t].req.kind, PlanOf(t)>>} ELSE stray

ReleaseLock_kept(rec, t) == rec  \* mutant
ReleaseLock(rec, t) == IF rec.lock = t THEN [rec EXCEPT !.lock = NoTask] ELSE rec

\* WorkerSearchTurn.close and the end of the request, with the locks its
\* `async with` blocks give back.
Leave(rec, t) ==
  LET free == ReleaseLock(rec, t) IN
  IF provider = "worker" THEN [free EXCEPT !.active = @ - 1] ELSE free

Finish(t, out) ==
  /\ tasks' = [tasks EXCEPT ![t].pc = "done", ![t].req = NoRequest, ![t].out = out]
  /\ plans' = [plans EXCEPT ![PlanOf(t)] = Leave(@, t)]
  /\ sessions' = [sessions EXCEPT ![PlanOf(t)] = ReleaseLock(@, t)]

Stop(t, out) == Finish(t, out) /\ UNCHANGED stray

\* begin_turn (nothing for SearXNG); grounding in a thread comes next.
BeginTurn(t, p, matches) ==
  /\ tasks[t].pc = "idle" /\ plans[p].stage # "unused"
  /\ LET ps == Purged
         ok == ps[p].stage = "present" /\ matches /\ ps[p].approved /\ ~Asked(p)
     IN IF provider = "worker" /\ ~ok
        THEN /\ Refuse(t)
             /\ plans' = ps
        ELSE /\ tasks' = [tasks EXCEPT ![t].pc = "ground", ![t].plan = p]
             /\ plans' = IF provider = "worker" THEN [ps EXCEPT ![p].active = @ + 1] ELSE plans
  /\ UNCHANGED <<provider, rewriting, sessions, jobs, stray>>

\* Grounding (or the pause after a 202 nobody asked for) is over:
\* search_for_chat up to the lock of the plan.
EnterSearch(t, matches) ==
  /\ tasks[t].pc \in {"ground", "again"}
  /\ LET ps == Purged IN
     IF ps[PlanOf(t)].stage = "present" /\ ps[PlanOf(t)].approved /\ (provider = "worker" \/ matches)
     THEN /\ tasks' = Goto(t, "lock", NoRequest)
          /\ plans' = ps
          /\ UNCHANGED sessions
     ELSE /\ tasks' = [tasks EXCEPT ![t].pc = "done", ![t].out = "other"]
          /\ plans' = [ps EXCEPT ![PlanOf(t)] = Leave(@, t)]
          /\ UNCHANGED sessions
  /\ UNCHANGED <<provider, rewriting, jobs, stray>>

Fresh(p) == provider = "worker" /\ ~Asked(p) /\ ~plans[p].completed

\* With the lock: what is known already, or the first request of search_job.
TakeLock(t) ==
  LET p == PlanOf(t)
      s == IF sessions[p].open THEN sessions[p] ELSE NewSession
      held == [plans EXCEPT ![p].lock = t, ![p].expired = IF sessions[p].open THEN @ ELSE FALSE]
  IN /\ tasks[t].pc = "lock" /\ plans[p].lock = NoTask
     /\ CASE Asked(p) ->
               Stop(t, "other")
          [] ~Asked(p) /\ plans[p].completed ->
               /\ tasks' = Goto(t, "model", NoRequest)
               /\ UNCHANGED <<plans, sessions, stray>>
          [] Fresh(p) /\ s.accepted ->
               /\ tasks' = Goto(t, "claims", NoRequest)
               /\ plans' = held
               /\ UNCHANGED <<sessions, stray>>
          [] Fresh(p) /\ ~s.accepted /\ OutOfTime(s) ->
               /\ tasks' = [tasks EXCEPT ![t].pc = "done", ![t].out = "other"]
               /\ plans' = [plans EXCEPT ![p] = Leave(@, t)]
               /\ sessions' = [sessions EXCEPT ![p] = [s EXCEPT !.timedOut = TRUE]]
               /\ UNCHANGED stray
          [] Fresh(p) /\ ~s.accepted /\ ~OutOfTime(s) ->
               /\ tasks' = LET k == IF s.job THEN "poll" ELSE "submit" IN Goto(t, k, Sent(k))
               /\ plans' = held
               /\ sessions' = [sessions EXCEPT ![p] = s]
               /\ UNCHANGED stray
          [] OTHER ->                                  \* SearXNG: the plan is used up
               /\ tasks' = Goto(t, "fetch", NoRequest)
               /\ plans' = [plans EXCEPT ![p].lock = t, ![p].stage = "gone"]
               /\ UNCHANGED <<sessions, stray>>
     /\ UNCHANGED <<provider, rewriting, jobs>>

\* _check_cancellation inside search_job: the task cancels the job itself.
\* `s` is the session as the reply at hand has left it.
CancelHere(t, s) ==
  /\ tasks' = Goto(t, "cancel_lock", NoRequest)
  /\ sessions' = [sessions EXCEPT ![PlanOf(t)] = s]
  /\ UNCHANGED <<plans, stray>>

\* search_job raises: after the deadline a requested cancellation comes first.
RaiseLate(t) ==
  LET s == [Session(t) EXCEPT !.timedOut = TRUE] IN
  IF s.requested THEN CancelHere(t, s)
  ELSE /\ tasks' = [tasks EXCEPT ![t].pc = "done", ![t].req = NoRequest, ![t].out = "other"]
       /\ plans' = [plans EXCEPT ![PlanOf(t)] = Leave(@, t)]
       /\ sessions' = [sessions EXCEPT ![PlanOf(t)] = s]
       /\ UNCHANGED stray

\* _validate_view on a view that is this job's; after the acknowledgement of
\* a cancellation the state stays.
Validated(s, view) == [s EXCEPT !.job = TRUE, !.state = IF s.acknowledged THEN @ ELSE view]

SendNext(t, s, k) ==
  /\ tasks' = Goto(t, k, Sent(k))
  /\ sessions' = [sessions EXCEPT ![PlanOf(t)] = s]
  /\ UNCHANGED <<plans, stray>>

Back(t) == tasks[t].req.phase = "back"

\* A reply to the submission or to a poll.
SearchReply(t) ==
  LET view == tasks[t].req.view
      s == Validated(Session(t), view)
  IN /\ tasks[t].pc \in {"submit", "poll"} /\ Back(t)
     /\ \/ view = "error" /\ Stop(t, "other")
        \/ view # "error" /\ OutOfTime(Session(t)) /\ RaiseLate(t)
        \/ view # "error" /\ ~OutOfTime(Session(t)) /\ s.requested /\ CancelHere(t, s)
        \/ /\ view # "error" /\ ~OutOfTime(Session(t)) /\ ~s.requested
           /\ \/ tasks[t].pc = "submit" /\ SendNext(t, s, "poll")
              \/ tasks[t].pc = "poll" /\ s.state = "completed" /\ SendNext(t, s, "result")
              \/ tasks[t].pc = "poll" /\ s.state \in Ended \ {"completed"} /\ Stop(t, "other")
              \/ /\ tasks[t].pc = "poll" /\ s.state \notin Ended
                 /\ tasks' = Goto(t, "sleep", NoRequest)
                 /\ sessions' = [sessions EXCEPT ![PlanOf(t)] = s]
                 /\ UNCHANGED <<plans, stray>>
     /\ UNCHANGED <<provider, rewriting, jobs>>

\* The pause between two polls ends.
PollAgain(t) ==
  /\ tasks[t].pc = "sleep"
  /\ \/ Session(t).requested /\ CancelHere(t, Session(t))
     \/ ~Session(t).requested /\ OutOfTime(Session(t)) /\ RaiseLate(t)
     \/ ~Session(t).requested /\ ~OutOfTime(Session(t)) /\ SendNext(t, Session(t), "poll")
  /\ UNCHANGED <<provider, rewriting, jobs>>

\* worker_wait_seconds are over: WorkerSearchPending leaves the lock.  The
\* client gets a 202 or the route tries again after a pause.
WaitEnds(t, async) ==
  /\ tasks[t].pc = "sleep" /\ ~Session(t).requested /\ ~OutOfTime(Session(t))
  /\ IF async THEN Stop(t, "other")
     ELSE /\ tasks' = Goto(t, "again", NoRequest)
          /\ plans' = [plans EXCEPT ![PlanOf(t)] = ReleaseLock(@, t)]
          /\ UNCHANGED <<sessions, stray>>
  /\ UNCHANGED <<provider, rewriting, jobs>>

AcceptSources(s) == [s EXCEPT !.accepted = ~OutOfTime(s)]

\* The result: valid or not, and in time or not.
ResultReply(t, valid) ==
  /\ tasks[t].pc = "result" /\ Back(t)
  /\ LET s == AcceptSources(Session(t))
         good == valid /\ tasks[t].req.view # "error"
     IN \/ tasks[t].req.view = "error" /\ Stop(t, "other")
        \/ tasks[t].req.view # "error" /\ ~s.accepted /\ RaiseLate(t)
        \/ tasks[t].req.view # "error" /\ s.accepted /\ ~valid /\ Stop(t, "other")
        \/ good /\ s.accepted /\ Session(t).requested /\ CancelHere(t, Session(t))
        \/ /\ good /\ ~Session(t).requested /\ s.accepted
           /\ tasks' = Goto(t, "claims", NoRequest)
           /\ sessions' = [sessions EXCEPT ![PlanOf(t)] = s]
           /\ UNCHANGED <<plans, stray>>
  /\ UNCHANGED <<provider, rewriting, jobs>>

\* The SearXNG request returns; a failure leaves the chat without the web.
Fetched(t, found) ==
  /\ tasks[t].pc = "fetch"
  /\ tasks' = Goto(t, IF found THEN "claims" ELSE "model", NoRequest)
  /\ plans' = IF found THEN plans ELSE [plans EXCEPT ![PlanOf(t)] = ReleaseLock(@, t)]
  /\ UNCHANGED <<provider, rewriting, sessions, jobs, stray>>

Stored(p) == ~Asked(p)

\* The local model has read the sources.
ClaimsRead(t, claims) ==
  LET p == PlanOf(t) IN
  /\ tasks[t].pc = "claims"
  /\ \/ ~Stored(p) /\ Stop(t, "other")
     \/ Stored(p) /\ ~claims /\ provider = "worker" /\ Stop(t, "other")
     \/ /\ Stored(p) /\ (claims \/ provider = "searxng")
        /\ tasks' = Goto(t, "model", NoRequest)
        /\ plans' = [plans EXCEPT ![p] = [ReleaseLock(plans[p], t) EXCEPT !.completed = @ \/ claims]]
        /\ UNCHANGED <<sessions, stray>>
  /\ UNCHANGED <<provider, rewriting, jobs>>

\* The answer, or a chunk of its stream, goes out: run and iterate look at
\* the cancellation again when the wait is over.
Answer(t, last) ==
  /\ tasks[t].pc = "model"
  /\ provider = "worker" => ~Asked(PlanOf(t))
  /\ IF last THEN Stop(t, "answered")
     ELSE tasks' = [tasks EXCEPT ![t].out = "answered"] /\ UNCHANGED <<plans, sessions, stray>>
  /\ UNCHANGED <<provider, rewriting, jobs>>

ModelFails(t) ==
  /\ tasks[t].pc = "model"
  /\ Stop(t, "other")
  /\ UNCHANGED <<provider, rewriting, jobs>>

\* WorkerSearchTurn.run sees the event and cancels the work it waits for.
TurnCanceled(t) ==
  /\ provider = "worker" /\ tasks[t].pc \in InTurn /\ plans[PlanOf(t)].canceled
  /\ Finish(t, "other")
  /\ stray' = Drop(t)
  /\ UNCHANGED <<provider, rewriting, jobs>>

\* The client goes away: the work is abandoned, the plan is not.
Disconnect(t) ==
  /\ provider = "worker" /\ tasks[t].pc \in InTurn
  /\ Finish(t, "other")
  /\ stray' = Drop(t)
  /\ UNCHANGED <<provider, rewriting, jobs>>

\* asyncio.timeout of _collection_request.
DeadlineFires(t) ==
  /\ tasks[t].pc \in {"submit", "poll", "result"} /\ Session(t).due
  /\ LET s == [Session(t) EXCEPT !.timedOut = TRUE] IN
     IF s.requested
     THEN /\ tasks' = Goto(t, "cancel_lock", NoRequest)
          /\ sessions' = [sessions EXCEPT ![PlanOf(t)] = s]
          /\ UNCHANGED plans
     ELSE /\ tasks' = [tasks EXCEPT ![t].pc = "done", ![t].req = NoRequest, ![t].out = "other"]
          /\ plans' = [plans EXCEPT ![PlanOf(t)] = Leave(@, t)]
          /\ sessions' = [sessions EXCEPT ![PlanOf(t)] = s]
  /\ stray' = Drop(t)
  /\ UNCHANGED <<provider, rewriting, jobs>>

DeadlinePasses(p) ==
  /\ sessions[p].open /\ ~sessions[p].due
  /\ sessions' = [sessions EXCEPT ![p].due = TRUE]
  /\ UNCHANGED <<provider, rewriting, plans, jobs, stray, tasks>>

----------------------------------------------------------------------------
(* Cancellation: the cancel route and the search that cancels itself       *)

\* cancel_plan up to the lock of the cancellations.
CancelPlan(t, p) ==
  /\ tasks[t].pc = "idle" /\ plans[p].stage # "unused"
  /\ LET ps == Purged IN
     IF ps[p].stage = "present" /\ ps[p].approved /\ provider = "worker"
     THEN /\ plans' = [ps EXCEPT ![p].canceled = TRUE, ![p].completed = FALSE]
          /\ IF sessions[p].open
             THEN /\ sessions' = [sessions EXCEPT ![p].requested = TRUE]
                  /\ tasks' = [tasks EXCEPT ![t].pc = "cancel_lock", ![t].plan = p]
             ELSE /\ tasks' = [tasks EXCEPT ![t].pc = "done", ![t].plan = p, ![t].out = "other"]
                  /\ UNCHANGED sessions
     ELSE /\ Refuse(t)
          /\ plans' = ps
          /\ UNCHANGED sessions
  /\ UNCHANGED <<provider, rewriting, jobs, stray>>

\* The end of `cancel`: the route answers, the search raises.
Canceled(t, s) ==
  LET p == PlanOf(t) IN
  /\ tasks' = [tasks EXCEPT ![t].pc = "done", ![t].req = NoRequest, ![t].out = "other"]
  /\ sessions' = [sessions EXCEPT ![p] = ReleaseLock(s, t)]
  /\ plans' = IF t \in Turns THEN [plans EXCEPT ![p] = Leave(@, t)] ELSE plans
  /\ UNCHANGED stray

FirstStep_known(s) == IF s.job THEN "cancel" ELSE "none"  \* mutant
\* An unknown job is found again by submitting it under the same key.
FirstStep(s) == IF s.job THEN "cancel" ELSE "submit"

CancelLocked(t) ==
  LET s == Session(t) IN
  /\ tasks[t].pc = "cancel_lock" /\ s.lock = NoTask
  /\ CASE s.acknowledged -> Canceled(t, s)
       [] ~s.acknowledged /\ FirstStep(s) = "none" ->
            Canceled(t, [s EXCEPT !.acknowledged = TRUE])
       [] OTHER ->
            /\ tasks' = Goto(t, IF FirstStep(s) = "submit" THEN "cancel_submit" ELSE "cancel",
                             Sent(FirstStep(s)))
            /\ sessions' = [sessions EXCEPT ![PlanOf(t)].lock = t]
            /\ UNCHANGED <<plans, stray>>
  /\ UNCHANGED <<provider, rewriting, jobs>>

CancelReply(t) ==
  LET view == tasks[t].req.view
      s == Validated(Session(t), view)
  IN /\ tasks[t].pc \in {"cancel_submit", "cancel"} /\ Back(t)
     /\ \/ view = "error" /\ Canceled(t, Session(t))
        \/ view # "error" /\ tasks[t].pc = "cancel_submit" /\ SendNext(t, s, "cancel")
        \/ /\ view # "error" /\ tasks[t].pc = "cancel"
           /\ Canceled(t, [s EXCEPT !.acknowledged = TRUE])
     /\ UNCHANGED <<provider, rewriting, jobs>>

----------------------------------------------------------------------------
(* The Manager and the network (external)                                  *)

\* A submit key names one job for ever; a running job is asked to stop.
Handled(kind, p) ==
  CASE kind = "submit" -> IF jobs[p] = "none" THEN "queued" ELSE jobs[p]
    [] kind = "cancel" -> CASE jobs[p] = "queued" -> "cancelled"
                            [] jobs[p] = "running" -> "cancel_requested"
                            [] OTHER -> jobs[p]
    [] OTHER -> jobs[p]

Serve(t) ==
  /\ tasks[t].req.phase = "sent"
  /\ LET p == PlanOf(t)
         j == Handled(tasks[t].req.kind, p)
     IN /\ jobs' = [jobs EXCEPT ![p] = j]
        /\ tasks' = [tasks EXCEPT ![t].req.phase = "back", ![t].req.view = j]
  /\ UNCHANGED <<provider, rewriting, plans, sessions, stray>>

\* No usable reply within timeout_seconds: the Manager may have acted or may
\* act later.
RequestFails(t) ==
  /\ tasks[t].req.phase = "sent"
  /\ tasks' = [tasks EXCEPT ![t].req.phase = "back", ![t].req.view = "error"]
  /\ stray' = Drop(t)
  /\ UNCHANGED <<provider, rewriting, plans, sessions, jobs>>

ServeStray(r) ==
  /\ r \in stray
  /\ jobs' = [jobs EXCEPT ![r[2]] = Handled(r[1], r[2])]
  /\ stray' = stray \ {r}
  /\ UNCHANGED <<provider, rewriting, plans, sessions, tasks>>

Work(p, j) ==
  /\ \/ jobs[p] = "queued" /\ j \in {"running", "failed"}
     \/ jobs[p] = "running" /\ j \in {"completed", "partial", "failed", "lost"}
     \/ jobs[p] = "cancel_requested" /\ j \in {"cancelled", "completed"}
  /\ jobs' = [jobs EXCEPT ![p] = j]
  /\ UNCHANGED <<provider, rewriting, plans, sessions, stray, tasks>>

----------------------------------------------------------------------------
Step(t) ==
  \/ TakeLock(t) \/ SearchReply(t) \/ PollAgain(t)
  \/ \E matches \in BOOLEAN : EnterSearch(t, matches)
  \/ \E valid \in Verdicts : ResultReply(t, valid)
  \/ \E found \in BOOLEAN : Fetched(t, found)
  \/ \E claims \in Claims : ClaimsRead(t, claims)
  \/ Answer(t, TRUE) \/ TurnCanceled(t) \/ DeadlineFires(t) \/ CancelLocked(t) \/ CancelReply(t)
  \/ RequestFails(t)

Next ==
  \/ CreatePlan \/ StorePlan
  \/ \E p \in Plans : Approve(p) \/ Expire(p) \/ DeadlinePasses(p)
  \/ \E t \in Turns :
       \/ Step(t) \/ Answer(t, FALSE) \/ ModelFails(t) \/ Disconnect(t)
       \/ \E p \in Plans, matches \in BOOLEAN : BeginTurn(t, p, matches)
       \/ \E async \in BOOLEAN : WaitEnds(t, async)
  \/ \E t \in Cancelers :
       \/ CancelLocked(t) \/ CancelReply(t) \/ RequestFails(t)
       \/ \E p \in Plans : CancelPlan(t, p)
  \/ \E t \in Tasks : Serve(t)
  \/ \E r \in stray : ServeStray(r)
  \/ \E p \in Plans, j \in JobStates : Work(p, j)

Spec == Init /\ [][Next]_vars

\* The loop runs every ready task, a request ends by its timeout, the local
\* model answers or fails, and the collection deadline comes.
Fairness ==
  /\ \A t \in Turns \cup Cancelers : WF_vars(Step(t))
  /\ \A p \in Plans : WF_vars(DeadlinePasses(p))

FairSpec == Spec /\ Fairness

----------------------------------------------------------------------------
(* Properties                                                              *)

\* A canceled plan keeps no result for a later turn: what a search stores
\* after its awaits is not stored past a cancellation.
CanceledKeepsNothing == \A p \in Plans : plans[p].canceled => ~plans[p].completed

\* An acknowledged cancellation has reached the job, also when the reply to
\* the submission was lost or the submission arrives after it: nothing is
\* left at the Manager to run (WorkerSearchProvider.cancel).
NoOrphanJob ==
  \A p \in Plans : sessions[p].acknowledged => jobs[p] \notin {"none", "queued", "running"}

\* A cancellation is final on both sides.
CancellationHolds == CanceledKeepsNothing /\ NoOrphanJob

\* A turn of the worker provider can be canceled for as long as it lasts: its
\* plan is not purged, however long the search takes (active_turns).
TurnKeepsPlan ==
  \A t \in Turns : provider = "worker" /\ tasks[t].pc \in InTurn => plans[PlanOf(t)].stage = "present"

\* Every turn ends: with an answer, a 202, an error or a cancellation.
EveryTurnEnds == \A t \in Turns : tasks[t].pc # "idle" ~> tasks[t].pc = "done"
=============================================================================
