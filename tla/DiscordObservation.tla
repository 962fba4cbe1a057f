------------------------- MODULE DiscordObservation -------------------------
(***************************************************************************)
(* The observation of a Discord community (packages/discord_observe_core   *)
(* and apps/gateway/discord_observe_routes).  A client asks again and      *)
(* again with the same request until it is answered; a run behind the      *)
(* polls submits a job to the worker manager, waits for its result, lets   *)
(* the local model analyse the posts and stores the answer in a record.    *)
(* A poll ends or its client leaves, the run goes on; a record expires,    *)
(* the time of the collection and the silence of the model are limited,    *)
(* the gateway reloads, and a switch of the model may be going on.         *)
(*                                                                         *)
(* One event loop: an action is the code between two awaits.  Abstracted:  *)
(* what the posts say, the wording of the answer, the progress a poll      *)
(* reports; times are events that may happen once they are possible.       *)
(***************************************************************************)
EXTENDS Integers, FiniteSets, Sequences, SequencesExt

CONSTANTS
  Polls,           \* calls the clients have open at one time
  Queries,         \* what they ask
  IdOf,            \* request -> its request_id
  DaysOf,          \* request -> period_days
  Posts,           \* posts of the guild, the oldest first
  Results,         \* results a job may end with
  Replies,         \* replies of the model
  SelectionMessages, SelectionChars,  \* limits of the settings
  MaxKept,         \* settings.max_plans
  MaxRecords,      \* bound: records ever made
  MaxReloads       \* bound: reloads of the gateway

\* Assumed of the constants; a module that takes this one states it.
ObservationAssumption ==
  /\ IsFiniteSet(Polls) /\ IsFiniteSet(Queries)
  /\ MaxKept \in Nat /\ MaxRecords \in Nat /\ MaxReloads \in Nat
  /\ SelectionMessages \in Nat /\ SelectionChars \in Nat

VARIABLES
  records,   \* every ObservationRecord made
  kept,      \* service -> the records it still holds
  current,   \* the service the gateway has published
  services,  \* service -> open, canceled, closed
  collections,  \* request_id -> the job of its submit_key, at the manager
  calls,     \* the polls
  active,    \* InferenceGate.active
  token      \* InferenceGate.token is held

others == <<services, current, token>>
observationVars == <<records, kept, current, services, collections, calls, active, token>>

Services == 0 .. MaxReloads
Ids == {IdOf[r] : r \in Queries}
Records == DOMAIN records
Collecting == {"posting", "watching", "fetching"}
AtWork == Collecting \cup {"analyzing"}
Over == {"done", "pending", "failed", "canceled"}

NoAnswer == [status |-> "none", analysis |-> "none", selected |-> 0, omitted |-> 0]
NoResult == [status |-> "none", coverage |-> "none", lacks |-> FALSE, bound |-> FALSE]
NoJob == [state |-> "none", result |-> NoResult]
NoCall == [at |-> "idle", request |-> CHOOSE r \in Queries : TRUE, service |-> 0, record |-> 0]

NewRecord(r, g) ==
  [request |-> r, service |-> g, task |-> "none", runs |-> 0, answer |-> NoAnswer,
   known |-> FALSE, accepted |-> NoResult, expired |-> FALSE, late |-> FALSE, due |-> FALSE]

ObservationInit ==
  /\ records = <<>> /\ kept = [g \in Services |-> {}]
  /\ current = 0 /\ services = [g \in Services |-> "open"]
  /\ collections = [i \in Ids |-> NoJob]
  /\ calls = [p \in Polls |-> NoCall]
  /\ active = 0 /\ token = FALSE

----------------------------------------------------------------------------
(* What is read, chosen and believed                                       *)

\* Posts of the period a request asks for.
Candidates(days) == SelectSeq(Posts, LAMBDA post : post.age <= days)

\* The newest first, as long as the two limits allow; a post whose text is
\* missing or cut off, or that does not fit, is passed over.
Select(days) ==
  FoldRight(LAMBDA post, chosen :
              IF post.whole /\ Len(chosen.posts) < SelectionMessages
                 /\ chosen.chars + post.chars <= SelectionChars
              THEN [posts |-> Append(chosen.posts, post), chars |-> chosen.chars + post.chars]
              ELSE chosen,
            Candidates(days), [posts |-> <<>>, chars |-> 0]).posts

Omitted(days) == Len(Candidates(days)) - Len(Select(days))

\* An item is believed when every quote is found in a selected post, a
\* decision or a task is confirmed by its quotes, and an owner or a deadline
\* belongs to a task and stands in them.
Founded(item, selected) ==
  /\ item.cites # {} /\ item.cites \subseteq ToSet(selected) /\ item.quoted
  /\ item.kind \in {"decision", "task"} => item.confirmed
  /\ item.assigned => item.kind = "task" /\ item.inquote

\* One unfounded item and nothing of the reply is used.
Verified(reply, selected) ==
  reply.wellformed /\ reply.safe /\ \A item \in reply.items : Founded(item, selected)

\* A result must belong to the job and its budget, and say the same of the
\* coverage as the job says of its end; a whole one must lack nothing.
Fits(state, result) ==
  /\ result.bound
  /\ result.status = IF state = "completed" THEN "succeeded" ELSE "partial"
  /\ (result.coverage = "complete") = (result.status = "succeeded")
  /\ result.status = "succeeded" => ~result.lacks

Rendered(record, analysis) ==
  LET days == DaysOf[record.request] IN
  [status |-> IF record.accepted.coverage = "complete" /\ analysis # "failed"
              THEN "completed" ELSE "partial",
   analysis |-> analysis,
   selected |-> Len(Select(days)), omitted |-> Omitted(days)]

----------------------------------------------------------------------------
(* Polls                                                                   *)

Return(p) == calls' = [calls EXCEPT ![p] = NoCall] /\ active' = active - 1

\* A poll is refused while the model is switched.  (The resident's candidate
\* that it cancels is modelled in Participation.)
Poll(p, r) ==
  /\ calls[p].at = "idle" /\ ~token
  /\ active' = active + 1
  /\ calls' = [calls EXCEPT ![p] = [at |-> "called", request |-> r, service |-> current, record |-> 0]]
  /\ UNCHANGED <<records, kept, collections, others>>

\* Records whose time is over go, unless a run is at work in them.
Live(g) == {i \in kept[g] : records[i].runs > 0 \/ ~records[i].expired}

\* _record: the record of the request_id, or a new one.
Enter(p) ==
  LET c == calls[p]
      live == Live(c.service)
      same == {i \in live : IdOf[records[i].request] = IdOf[c.request]}
      made == Len(records) + 1 IN
  /\ c.at = "called"
  /\ \/ /\ \E i \in same :
             IF records[i].request = c.request
             THEN calls' = [calls EXCEPT ![p].at = "lock", ![p].record = i] /\ UNCHANGED active
             ELSE Return(p)
        /\ kept' = [kept EXCEPT ![c.service] = live]
        /\ UNCHANGED records
     \/ /\ same = {} /\ Cardinality(live) >= MaxKept
        /\ Return(p)
        /\ kept' = [kept EXCEPT ![c.service] = live]
        /\ UNCHANGED records
     \/ /\ same = {} /\ Cardinality(live) < MaxKept /\ made <= MaxRecords
        /\ records' = Append(records, NewRecord(c.request, c.service))
        /\ kept' = [kept EXCEPT ![c.service] = live \cup {made}]
        /\ calls' = [calls EXCEPT ![p].at = "lock", ![p].record = made]
        /\ UNCHANGED active
  /\ UNCHANGED <<collections, others>>

Free(i) == \A q \in Polls : calls[q].at = "held" => calls[q].record # i

\* Under the lock of the record: its answer, or a run, unless there is one.
Lock_again(p) ==
  LET i == calls[p].record IN
  /\ calls[p].at = "lock" /\ Free(i)
  /\ IF records[i].answer # NoAnswer
     THEN Return(p) /\ UNCHANGED records
     ELSE /\ records' = [records EXCEPT ![i].task = "new"]
          /\ calls' = [calls EXCEPT ![p].at = "held"]
          /\ UNCHANGED active
  /\ UNCHANGED <<kept, collections, others>>

Lock(p) ==
  LET i == calls[p].record IN
  /\ calls[p].at = "lock" /\ Free(i)
  /\ IF records[i].answer # NoAnswer
     THEN Return(p) /\ UNCHANGED records
     ELSE /\ records' = [records EXCEPT ![i].task = IF @ = "none" THEN "new" ELSE @]
          /\ calls' = [calls EXCEPT ![p].at = "held"]
          /\ UNCHANGED active
  /\ UNCHANGED <<kept, collections, others>>

\* After sleep(0): a run that is over is taken away, and its error raised.
Resume(p) ==
  LET i == calls[p].record IN
  /\ calls[p].at = "held"
  /\ records' = [records EXCEPT ![i].task = IF @ \in Over THEN "none" ELSE @]
  /\ Return(p)
  /\ UNCHANGED <<kept, collections, others>>

\* The client leaves: the poll is canceled, the run is not.
ClientLeaves(p) ==
  /\ calls[p].at # "idle"
  /\ Return(p)
  /\ UNCHANGED <<records, kept, collections, others>>

----------------------------------------------------------------------------
(* The run of a record                                                     *)

\* The run ends; there is no answer.
EndRun(i, task) ==
  records' = [records EXCEPT ![i].task = task, ![i].runs = @ - 1]

\* The answer is stored, and kept for plan_ttl_seconds.
StoreAnswer(i, rec, analysis) ==
  records' = [records EXCEPT ![i] =
    [rec EXCEPT !.task = "done", !.runs = @ - 1, !.expired = FALSE,
                !.answer = Rendered(rec, analysis)]]

\* _analyze, for the record with the posts it has now: not while the model is
\* switched, and inside the gate.
Analyze(i, rec) ==
  IF token
  THEN StoreAnswer(i, rec, "unverified") /\ UNCHANGED active
  ELSE /\ records' = [records EXCEPT ![i] = [rec EXCEPT !.task = "analyzing", !.due = FALSE]]
       /\ active' = active + 1

\* The task starts: posts it already accepted are not collected again.
Start(i) ==
  LET rec == [records[i] EXCEPT !.runs = @ + 1] IN
  /\ rec.task = "new"
  /\ IF rec.accepted # NoResult
     THEN Analyze(i, rec)
     ELSE /\ records' = [records EXCEPT ![i] =
                          [rec EXCEPT !.task = IF rec.known THEN "watching" ELSE "posting"]]
          /\ UNCHANGED active
  /\ UNCHANGED <<kept, collections, calls, others>>

\* Nothing of the manager is used once the time of the collection is over or
\* the client of the service is closed.
Answers(i) == ~records[i].late /\ services[records[i].service] # "closed"

\* The job is submitted; its submit_key is the request_id.
Post(i) ==
  LET id == IdOf[records[i].request] IN
  /\ records[i].task = "posting" /\ Answers(i)
  /\ collections' = [collections EXCEPT ![id] = IF @ = NoJob THEN [NoJob EXCEPT !.state = "running"] ELSE @]
  /\ \/ records' = [records EXCEPT ![i].task = "watching", ![i].known = TRUE]
     \/ EndRun(i, "failed")     \* the reply is lost
  /\ UNCHANGED <<kept, calls, active, others>>

\* The state of the job is read; a run does not wait longer than
\* worker_wait_seconds.
Watch(i) ==
  LET state == collections[IdOf[records[i].request]].state IN
  /\ records[i].task = "watching" /\ Answers(i)
  /\ \/ state \in {"completed", "partial"} /\ records' = [records EXCEPT ![i].task = "fetching"]
     \/ state = "failed" /\ EndRun(i, "failed")
     \/ state = "running" /\ EndRun(i, "pending")
  /\ UNCHANGED <<kept, collections, calls, active, others>>

\* The result is read and accepted, the posts are chosen, the model is asked.
Fetch(i) ==
  LET job == collections[IdOf[records[i].request]] IN
  /\ records[i].task = "fetching" /\ Answers(i)
  /\ IF Fits(job.state, job.result)
     THEN Analyze(i, [records[i] EXCEPT !.accepted = job.result])
     ELSE EndRun(i, "failed") /\ UNCHANGED active
  /\ UNCHANGED <<kept, collections, calls, others>>

\* The manager does not answer, answers for another job, or too late.
CollectFails(i) ==
  /\ records[i].task \in Collecting
  /\ EndRun(i, "failed")
  /\ UNCHANGED <<kept, collections, calls, active, others>>

\* The stream of the model ends.
EndAnalysis(i, analysis) ==
  /\ StoreAnswer(i, records[i], analysis)
  /\ active' = active - 1
  /\ UNCHANGED <<kept, collections, calls, others>>

\* The end of the stream, which may be read just when its time is over: a whole
\* reply.  A closed adapter and an unsuitable model give none.
Reply(i) ==
  /\ records[i].task = "analyzing"
  /\ \/ /\ services[records[i].service] # "closed"
        /\ \E reply \in Replies :
             EndAnalysis(i, IF Verified(reply, Select(DaysOf[records[i].request]))
                            THEN "verified" ELSE "unverified")
     \/ EndAnalysis(i, "unverified")

\* The backend breaks off, or the adapter is closed while it is read.
Break(i) ==
  /\ records[i].task = "analyzing"
  /\ EndAnalysis(i, "failed")

\* No real delta for 600 seconds.
Idle(i) ==
  /\ records[i].task = "analyzing" /\ ~records[i].due
  /\ records' = [records EXCEPT ![i].due = TRUE]
  /\ UNCHANGED <<kept, collections, calls, active, others>>

\* A wait that a heartbeat of the connection renews.
TimeOut_renewed(i) ==
  /\ records[i].task = "analyzing" /\ records[i].due
  /\ \/ EndAnalysis(i, "failed")
     \/ /\ records' = [records EXCEPT ![i].due = FALSE]
        /\ UNCHANGED <<kept, collections, calls, active, others>>

\* The wait is over, and a chunk that arrives then is not read.
TimeOut(i) ==
  /\ records[i].task = "analyzing" /\ records[i].due
  /\ EndAnalysis(i, "failed")

----------------------------------------------------------------------------
(* Time, the manager, the gate and reloads                                 *)

Deadline(i) ==
  /\ ~records[i].late /\ records[i].accepted = NoResult
  /\ records' = [records EXCEPT ![i].late = TRUE]
  /\ UNCHANGED <<kept, collections, calls, active, others>>

RecordExpires(i) ==
  /\ ~records[i].expired
  /\ records' = [records EXCEPT ![i].expired = TRUE]
  /\ UNCHANGED <<kept, collections, calls, active, others>>

\* "failed" stands for failed, cancelled and lost.
JobEnds(id) ==
  /\ collections[id].state = "running"
  /\ \E state \in {"completed", "partial", "failed"}, result \in Results :
       collections' = [collections EXCEPT ![id] = [state |-> state, result |-> result]]
  /\ UNCHANGED <<records, kept, calls, active, others>>

\* begin of a model switch; its end, or the end of the token's time.
BeginSwitch ==
  /\ ~token /\ active = 0
  /\ token' = TRUE
  /\ UNCHANGED <<records, kept, collections, calls, active, services, current>>

EndSwitch ==
  /\ token
  /\ token' = FALSE
  /\ UNCHANGED <<records, kept, collections, calls, active, services, current>>

\* reload_gateway_state publishes a new service ...
Reload ==
  /\ current < MaxReloads
  /\ current' = current + 1
  /\ UNCHANGED <<records, kept, collections, calls, active, services, token>>

\* ... and closes the old one: it cancels the runs it knows, then closes the
\* clients.
CancelRuns(g) ==
  LET hit == {i \in kept[g] : records[i].task \in AtWork \cup {"new"}} IN
  /\ g < current /\ services[g] = "open"
  /\ services' = [services EXCEPT ![g] = "canceled"]
  /\ records' = [i \in Records |->
       IF i \in hit THEN [records[i] EXCEPT !.task = "canceled", !.runs = 0] ELSE records[i]]
  /\ active' = active - Cardinality({i \in hit : records[i].task = "analyzing"})
  /\ UNCHANGED <<kept, collections, calls, current, token>>

CloseClients(g) ==
  /\ services[g] = "canceled"
  /\ services' = [services EXCEPT ![g] = "closed"]
  /\ UNCHANGED <<records, kept, collections, calls, active, current, token>>

----------------------------------------------------------------------------

RunStep(i) ==
  \/ Start(i) \/ Post(i) \/ Watch(i) \/ Fetch(i) \/ CollectFails(i)
  \/ Reply(i) \/ Break(i) \/ Idle(i) \/ TimeOut(i)

ObservationNext ==
  \/ \E p \in Polls : \/ \E r \in Queries : Poll(p, r)
                      \/ Enter(p) \/ Lock(p) \/ Resume(p) \/ ClientLeaves(p)
  \/ \E i \in Records : RunStep(i) \/ Deadline(i) \/ RecordExpires(i)
  \/ \E id \in Ids : JobEnds(id)
  \/ BeginSwitch \/ EndSwitch
  \/ Reload
  \/ \E g \in Services : CancelRuns(g) \/ CloseClients(g)

\* The event loop runs every task that can go on, and time passes.
ObservationFairness == \A i \in 1 .. MaxRecords : WF_observationVars(i \in Records /\ RunStep(i))

ObservationSpec == ObservationInit /\ [][ObservationNext]_observationVars /\ ObservationFairness

----------------------------------------------------------------------------
(* Properties                                                              *)

\* Several polls, disconnects, a lock that is passed on and a reload never let
\* two runs of one record go on at once, nor a run after its answer is there:
\* the job and the inference of a request are not repeated while the answer is
\* kept (DiscordObserveService.observe).
OneInference ==
  \A i \in Records : /\ records[i].runs \in 0 .. 1
                     /\ records[i].answer # NoAnswer => records[i].runs = 0

\* A run outlives the poll that started it, and so its place in the gate: while
\* a switch of the model holds the gate's token, no run reads from the model
\* (_analyze takes a place of its own, or does without the model).
NoSwitchDuringAnalysis ==
  /\ token => \A i \in Records : records[i].task # "analyzing"
  /\ active = Cardinality({p \in DOMAIN calls : calls[p].at # "idle"})
              + Cardinality({i \in Records : records[i].task = "analyzing"})

RunsHoldTheirPlace == OneInference /\ NoSwitchDuringAnalysis

Busy(i) == i \in Records /\ records[i].task \in AtWork

\* A run ends, with a model that is silent for good and a connection that is
\* not: what only keeps the connection alive must not renew the wait
\* (LocalObservationAdapter.create_chat_completion).
RunEnds == \A i \in 1 .. MaxRecords : Busy(i) ~> ~Busy(i)
=============================================================================
