---------------------------- MODULE SpeechWorker ----------------------------
(***************************************************************************)
(* The speech service (apps/speech/service.py, worker.py, schemas.py).  A  *)
(* request is checked against the catalog and gets a task; the task that   *)
(* finds the lock free owns the one worker process, starts it for the      *)
(* provider of the voice, asks, and reads the answer.  Any failure of the  *)
(* owner, a cancellation among them, stops the process before the lock is  *)
(* given up.  All who stop the process join one cleanup task.              *)
(*                                                                         *)
(* An await is the end of a step; a cancellation reaches a task at its     *)
(* next step.  Times (20 ms, 1 s, 5 s, 60 s) are steps that may be taken.  *)
(***************************************************************************)
EXTENDS Integers, Sequences, FiniteSets, TLC

CONSTANTS
  Requests,     \* the calls of POST /v1/speech
  NoRequest,
  Asked,        \* what each of them says: id, profile, revision, clone, group, synthesis, style
  Catalog,      \* the configured profiles, by id: provider, revision, clone, group, synthesis, style
  Default,      \* the default profile, or ""
  Installed,    \* the providers whose files and modules are there
  Arrivals      \* bound: the sets of requests that are sent in one behaviour

\* A caller that is no request: nobody owns the worker, there is no process.
RequestsAssumption == NoRequest \notin Requests

VARIABLES
  stage,      \* of each request: "never", "sent", "streaming", "aborting", "ended"
  outcome,    \* what its stream ended with: "none", "refused", "audio", "error"
  gone,       \* the requests whose client went away
  job,        \* where the task of a request is
  answer,     \* the audio the task returned: the request it was made for, or NoRequest
  canceled,   \* the requests whose task is told to cancel
  left,       \* the requests whose start was left behind by a second cancellation
  waits,      \* of each caller of stop: "no", "waiting", "cleaned", "failed"
  lock,       \* the request whose task owns the worker
  process, temporary, provider,    \* the handles of ProcessWorker
  stopping,   \* the cleanup task
  procs,      \* the processes started: alive, signal, input, output, broken
  dirs,       \* the temporary directories on disk
  service     \* "up", "ending", "ended"

tasks == <<job, answer, canceled, left, waits, lock>>
worker == <<process, temporary, provider, stopping>>
world == <<procs, dirs>>
streams == <<stage, outcome, gone, service>>
vars == <<streams, tasks, worker, world>>

-----------------------------------------------------------------------------
(* Profiles and styles. *)

Neutral == [affect |-> "neutral", intensity |-> 100, pace |-> 100, pitch |-> 0, volume |-> 20,
            pause |-> "natural", interruptible |-> TRUE]
Volume == [volume |-> 0 .. 20]    \* steps of 0.05
Controls(who) ==
  IF who = "qwen3-tts" THEN Volume
  ELSE Volume @@ [affect |-> {"neutral", "warm", "cheerful", "cute", "sleepy", "concerned"},
                  intensity |-> {75, 100, 125}, pace |-> {85, 100, 115},
                  pause |-> {"natural", "short", "deliberate"}]
Irodori == {"irodori-tts", "irodori-audiocpp"}
Providers == {"qwen3-tts"} \cup Irodori
NoProvider == ""

\* validate_style_for_capabilities: a control the provider lacks keeps its default.
Supported(style, who) ==
  /\ \A c \in DOMAIN style \ {"interruptible"} :
       IF c \in DOMAIN Controls(who) THEN style[c] \in Controls(who)[c] ELSE style[c] = Neutral[c]
  /\ style.interruptible

\* public_profile: a cloned voice has a prompt, an Irodori voice a reference group.
PublicProfile(c) ==
  /\ c.provider \in Providers
  /\ (c.clone # "") = (c.provider = "qwen3-tts") /\ (c.group # "") = (c.provider \in Irodori)
  /\ Supported(c.style @@ Neutral, c.provider)

CatalogAssumption ==
  /\ Cardinality(DOMAIN Catalog) <= 16
  /\ \A v \in DOMAIN Catalog : PublicProfile(Catalog[v])
  /\ Default # "" => Default \in DOMAIN Catalog /\ Catalog[Default].provider \notin Irodori

\* SpeechService.profile: the request names the voice as it is now.
Accepted(r) ==
  LET q == Asked[r]
      c == Catalog[q.profile]
  IN /\ q.profile \in DOMAIN Catalog /\ c.provider \in Installed
     /\ <<q.revision, q.clone, q.group>> = <<c.revision, c.clone, c.group>>
     /\ q.synthesis \in {"", c.synthesis}
     /\ Supported(q.style @@ Neutral, c.provider)

\* events: what the request leaves out is as the profile says.
StyleOf(r) == Asked[r].style @@ Catalog[Asked[r].profile].style @@ Neutral
Wanted(r) == Catalog[Asked[r].profile].provider

-----------------------------------------------------------------------------
(* Processes and the cleanup task.  A process, and its temporary directory, is *)
(* named by the request that starts it.                                        *)

NoStop == [at |-> "none", p |-> NoRequest, t |-> NoRequest]
Finished == {"cleaned", "failed"}
Frame(kind, r, bad) == [kind |-> kind, id |-> IF r = NoRequest THEN "" ELSE Asked[r].id, for |-> r, bad |-> bad]
NoFrame == Frame("none", NoRequest, FALSE)
NotStarted == [alive |-> FALSE, signal |-> "none", ready |-> FALSE, input |-> <<>>, output |-> <<>>, broken |-> FALSE]

Alive(p) == p # NoRequest /\ procs[p].alive
Output(p) == IF p = NoRequest THEN <<>> ELSE procs[p].output
Owner(r) == <<r, "job">>     \* the task of a request
Start(r) == <<r, "start">>   \* the task wait_for makes of its _start
Ender == <<NoRequest, "end">>
Callers == {Owner(r) : r \in Requests} \cup {Start(r) : r \in Requests} \cup {Ender}

\* A caller of stop joins the cleanup that runs, or starts one; a finished one that
\* nobody took away yet answers at once.
Stop(c) ==
  IF stopping.at \in Finished
  THEN waits' = [waits EXCEPT ![c] = stopping.at] /\ stopping' = NoStop
  ELSE /\ waits' = [waits EXCEPT ![c] = "waiting"]
       /\ stopping' = IF stopping = NoStop THEN [NoStop EXCEPT !.at = "new"] ELSE stopping

\* The caller goes on; the first of them takes the finished cleanup away.
Resume(c) ==
  /\ waits[c] \in Finished
  /\ waits' = [waits EXCEPT ![c] = "no"]
  /\ stopping' = IF stopping.at \in Finished THEN NoStop ELSE stopping

StopEnds(how) ==
  /\ stopping' = [stopping EXCEPT !.at = how]
  /\ waits' = [c \in Callers |-> IF waits[c] = "waiting" THEN how ELSE waits[c]]

StopBegins ==
  /\ stopping.at = "new" /\ process # NoRequest
  /\ stopping' = [at |-> "terminated", p |-> process, t |-> temporary]
  /\ provider' = NoProvider    \* it will not be used again, whatever the cleanup comes to
  /\ procs' = [procs EXCEPT ![process].signal = "term"]
  /\ UNCHANGED <<process, temporary, dirs, waits>>

StopKills ==
  /\ stopping.at = "terminated" /\ Alive(stopping.p)
  /\ procs' = [procs EXCEPT ![stopping.p].signal = "kill"]
  /\ stopping' = [stopping EXCEPT !.at = "killed"]
  /\ UNCHANGED <<process, temporary, provider, dirs, waits>>

Removable == \/ stopping.at = "new" /\ process = NoRequest
             \/ stopping.at \in {"terminated", "killed"} /\ ~Alive(stopping.p)

StopCleans ==
  /\ Removable
  /\ dirs' = dirs \ {IF stopping.at = "new" THEN temporary ELSE stopping.t}
  /\ process' = NoRequest /\ temporary' = NoRequest /\ provider' = NoProvider
  /\ procs' = [p \in Requests |-> IF p = process THEN NotStarted ELSE procs[p]]    \* its pipes are closed
  /\ StopEnds("cleaned")

\* A killed process is not gone in time, or its directory cannot be removed: the
\* handles are kept for the next caller.
Kept_dropped == process' = NoRequest /\ temporary' = NoRequest    \* mutant
Kept == UNCHANGED <<process, temporary>>
StopGivesUp ==
  /\ \/ stopping.at = "killed" /\ Alive(stopping.p)
     \/ Removable /\ temporary \in dirs
  /\ StopEnds("failed") /\ Kept /\ provider' = NoProvider /\ UNCHANGED world

Cleanup ==
  /\ StopBegins \/ StopKills \/ StopCleans \/ StopGivesUp
  /\ UNCHANGED <<streams, job, answer, canceled, left, lock>>

-----------------------------------------------------------------------------
(* ProcessWorker.synthesize, in the task of a request. *)

Goes(r, where) == job' = [job EXCEPT ![r] = where]
Done(r) == Goes(r, "done") /\ lock' = IF lock = r THEN NoRequest ELSE lock

\* Whatever goes wrong for the owner, the process is stopped first.
Fail_keeps(r) == Done(r) /\ UNCHANGED <<waits, stopping>>    \* mutant
Fail(r) == Goes(r, "failing") /\ Stop(Owner(r)) /\ UNCHANGED lock

Begin(r) ==
  /\ job[r] = "created" /\ r \notin canceled
  /\ IF lock = NoRequest THEN Goes(r, "starting") /\ lock' = r ELSE Done(r)    \* tts_busy
  /\ UNCHANGED <<answer, canceled, left, waits, worker, world>>

\* _start: wait for a cleanup that runs; use the process if it is of this provider.
Join(r) ==
  /\ job[r] = "starting" /\ r \notin canceled /\ stopping # NoStop
  /\ Goes(r, "joining") /\ Stop(Start(r))
  /\ UNCHANGED <<answer, canceled, left, lock, process, temporary, provider, world>>

Joined(r) ==
  /\ job[r] = "joining" /\ r \notin canceled /\ Resume(Start(r))
  /\ Goes(r, IF waits[Start(r)] = "cleaned" THEN "starting" ELSE "raising")
  /\ UNCHANGED <<answer, canceled, left, lock, process, temporary, provider, world>>

Check(r) ==
  /\ job[r] = "starting" /\ r \notin canceled /\ stopping = NoStop
  /\ IF Alive(process) /\ provider = Wanted(r)
     THEN Goes(r, "started") /\ UNCHANGED <<waits, stopping>>
     ELSE Goes(r, "clearing") /\ Stop(Start(r))
  /\ UNCHANGED <<answer, canceled, left, lock, process, temporary, provider, world>>

Cleared(r) ==
  /\ job[r] = "clearing" /\ r \notin canceled /\ Resume(Start(r))
  /\ IF waits[Start(r)] = "cleaned"
     THEN Goes(r, "spawning") /\ temporary' = r /\ dirs' = dirs \cup {r}
     ELSE Goes(r, "raising") /\ UNCHANGED <<temporary, dirs>>
  /\ UNCHANGED <<answer, canceled, left, lock, process, provider, procs>>

Spawned(r) ==
  /\ job[r] = "spawning" /\ r \notin canceled
  /\ process' = r /\ provider' = Wanted(r)
  /\ procs' = [procs EXCEPT ![r].alive = TRUE]
  /\ Goes(r, "configuring")
  /\ UNCHANGED <<answer, canceled, left, waits, lock, temporary, stopping, dirs>>

Reads(r) ==
  /\ job[r] \in {"configuring", "asked"} /\ r \notin canceled /\ Output(process) # <<>>
  /\ procs' = [procs EXCEPT ![process].output = Tail(@)]
  /\ LET line == Head(Output(process)) IN
     \/ /\ job[r] = "configuring" /\ line.kind = "ready"
        /\ Goes(r, "started") /\ UNCHANGED <<answer, waits, lock, stopping>>
     \/ /\ job[r] = "asked" /\ line.kind = "result" /\ line.id = Asked[r].id
        /\ answer' = [answer EXCEPT ![r] = line]
        /\ Done(r) /\ UNCHANGED <<waits, stopping>>
     \/ /\ ~(job[r] = "configuring" /\ line.kind = "ready")
        /\ ~(job[r] = "asked" /\ line.kind = "result" /\ line.id = Asked[r].id)
        /\ Fail(r) /\ UNCHANGED answer
  /\ UNCHANGED <<canceled, left, process, temporary, provider, dirs>>

Ask(r) ==
  /\ job[r] = "started" /\ r \notin canceled /\ Alive(process)
  /\ procs' = [procs EXCEPT ![process].input = Append(@, r)]
  /\ Goes(r, "asked")
  /\ UNCHANGED <<answer, canceled, left, waits, lock, worker, dirs>>

\* The pipe is closed, or the cleanup inside _start failed.
Breaks(r) ==
  /\ \/ job[r] \in {"configuring", "started", "asked"} /\ ~Alive(process) /\ Output(process) = <<>>
     \/ job[r] = "raising"
  /\ r \notin canceled
  /\ Fail(r)
  /\ UNCHANGED <<answer, canceled, left, process, temporary, provider, world>>

Starting == {"starting", "joining", "clearing", "spawning", "configuring"}

\* A cancellation, or the five seconds of the start.  A cleanup inside _start is
\* shielded: the owner waits for it, unless it is canceled again.
Interrupted(r) ==
  /\ \/ r \in canceled /\ job[r] \in Starting \cup {"started", "asked", "raising"}
     \/ job[r] \in Starting
  /\ canceled' = canceled \ {r}
  /\ IF job[r] \in {"joining", "clearing"}
     THEN Goes(r, "unstarting") /\ UNCHANGED <<waits, lock, stopping>>
     ELSE Fail(r)
  /\ UNCHANGED <<answer, left, process, temporary, provider, world>>

Unstarted(r) ==
  /\ job[r] = "unstarting" /\ Resume(Start(r))
  /\ Goes(r, "raising")
  /\ UNCHANGED <<answer, canceled, left, lock, process, temporary, provider, world>>

InterruptedAgain(r) ==
  /\ job[r] = "unstarting" /\ r \in canceled
  /\ canceled' = canceled \ {r} /\ left' = left \cup {r}
  /\ Fail(r)
  /\ UNCHANGED <<answer, process, temporary, provider, world>>

LeftEnds(r) ==
  /\ r \in left /\ Resume(Start(r))
  /\ left' = left \ {r}
  /\ UNCHANGED <<job, answer, canceled, lock, process, temporary, provider, world>>

\* The failure is raised: the lock is free, whether or not the cleanup succeeded.
Failed(r) ==
  /\ job[r] = "failing" /\ Resume(Owner(r))
  /\ Done(r) /\ canceled' = canceled \ {r}
  /\ UNCHANGED <<answer, left, process, temporary, provider, world>>

NeverRan(r) ==
  /\ job[r] = "created" /\ r \in canceled
  /\ Done(r) /\ canceled' = canceled \ {r}
  /\ UNCHANGED <<answer, left, waits, worker, world>>

Job(r) ==
  /\ \/ Begin(r) \/ Join(r) \/ Joined(r) \/ Check(r) \/ Cleared(r) \/ Spawned(r) \/ Reads(r) \/ Ask(r)
     \/ Breaks(r) \/ Interrupted(r) \/ Unstarted(r) \/ InterruptedAgain(r) \/ LeftEnds(r) \/ Failed(r) \/ NeverRan(r)
  /\ UNCHANGED streams

-----------------------------------------------------------------------------
(* The worker process: run_worker. *)

Ready(p) ==
  /\ ~procs[p].ready
  /\ procs' = [procs EXCEPT ![p].ready = TRUE, ![p].output = Append(@, Frame("ready", NoRequest, FALSE))]

\* An adapter that failed midway may be half loaded.
Answers(p) ==
  /\ procs[p].ready /\ procs[p].input # <<>>
  /\ \E kind \in {"result", "error"} :
       procs' = [procs EXCEPT ![p].input = Tail(@), ![p].broken = @ \/ kind = "error",
                              ![p].output = Append(@, Frame(kind, Head(procs[p].input), procs[p].broken))]

Dies(p) == procs' = [procs EXCEPT ![p].alive = FALSE]

Proc(p) ==
  /\ Alive(p)
  /\ Ready(p) \/ Answers(p) \/ Dies(p)
  /\ UNCHANGED <<streams, tasks, worker, dirs>>

-----------------------------------------------------------------------------
(* SpeechService.events and the application. *)

Accept(r) ==
  /\ service = "up" /\ stage[r] = "sent" /\ Accepted(r)
  /\ stage' = [stage EXCEPT ![r] = "streaming"] /\ Goes(r, "created")
  /\ UNCHANGED <<outcome, gone, service, answer, canceled, left, waits, lock, worker, world>>

Ends(r, how) ==
  /\ stage' = [stage EXCEPT ![r] = "ended"] /\ outcome' = [outcome EXCEPT ![r] = how]
  /\ UNCHANGED <<gone, service, tasks, worker, world>>

Refuse(r) == service = "up" /\ stage[r] = "sent" /\ ~Accepted(r) /\ Ends(r, "refused")

Leave(r) ==
  /\ stage[r] = "streaming" /\ r \notin gone
  /\ gone' = gone \cup {r}
  /\ UNCHANGED <<stage, outcome, service, tasks, worker, world>>

\* abort: only the task knows whether this request owns the worker.
Aborts_stops(r) ==    \* mutant
  canceled' = canceled \cup {r} /\ UNCHANGED waits /\ stopping' = IF stopping = NoStop THEN [NoStop EXCEPT !.at = "new"] ELSE stopping
Aborts(r) == canceled' = canceled \cup {r} /\ UNCHANGED <<waits, stopping>>

\* The client is gone, or the deadline has come.
Due_gone(r) == r \in gone    \* mutant
Due(r) == TRUE
Poll(r) ==
  /\ stage[r] = "streaming" /\ job[r] # "done" /\ Due(r)
  /\ stage' = [stage EXCEPT ![r] = "aborting"]
  /\ Aborts(r)
  /\ UNCHANGED <<outcome, gone, service, job, answer, left, lock, process, temporary, provider, world>>

\* The scope of a response whose client left cancels again and again; it matters only
\* to an owner that waits for the cleanup of its start.
CancelAgain(r) ==
  /\ stage[r] = "aborting" /\ r \in gone /\ job[r] = "unstarting" /\ r \notin canceled
  /\ canceled' = canceled \cup {r}
  /\ UNCHANGED <<streams, job, answer, left, waits, lock, worker, world>>

Aborted(r) == stage[r] = "aborting" /\ job[r] = "done" /\ Ends(r, "error")

Deliver(r) ==
  /\ stage[r] = "streaming" /\ job[r] = "done"
  /\ Ends(r, IF answer[r] # NoFrame /\ r \notin gone THEN "audio" ELSE "error")

Stream(r) == Poll(r) \/ Aborted(r) \/ Deliver(r)

\* The server ends the lifespan when no response is open.
EndService ==
  /\ service = "up" /\ \A r \in Requests : stage[r] \in {"never", "sent", "ended"}
  /\ service' = "ending" /\ Stop(Ender)
  /\ UNCHANGED <<stage, outcome, gone, job, answer, canceled, left, lock, process, temporary, provider, world>>

Ended ==
  /\ service = "ending" /\ Resume(Ender)
  /\ service' = "ended"
  /\ UNCHANGED <<stage, outcome, gone, job, answer, canceled, left, lock, process, temporary, provider, world>>

-----------------------------------------------------------------------------
Init ==
  /\ \E calls \in Arrivals : stage = [r \in Requests |-> IF r \in calls THEN "sent" ELSE "never"]
  /\ outcome = [r \in Requests |-> "none"]
  /\ gone = {} /\ service = "up"
  /\ job = [r \in Requests |-> "none"] /\ answer = [r \in Requests |-> NoFrame]
  /\ canceled = {} /\ left = {} /\ lock = NoRequest
  /\ waits = [c \in Callers |-> "no"]
  /\ process = NoRequest /\ temporary = NoRequest /\ provider = NoProvider /\ stopping = NoStop
  /\ procs = [r \in Requests |-> NotStarted] /\ dirs = {}

Next ==
  \/ \E r \in Requests : Accept(r) \/ Refuse(r) \/ Leave(r) \/ Stream(r) \/ CancelAgain(r) \/ Job(r) \/ Proc(r)
  \/ Cleanup \/ EndService \/ Ended

Spec == Init /\ [][Next]_vars

\* The event loop runs every task that can run, timers expire, and a killed process
\* may take its time.
Fairness ==
  /\ \A r \in Requests : WF_vars(Job(r)) /\ WF_vars(Stream(r))
  /\ WF_vars(Cleanup)

FairSpec == Spec /\ Fairness

-----------------------------------------------------------------------------
\* No process and no private directory is ever out of reach: whatever is still there
\* after cancellations, time-outs and failed cleanups is held by the worker, so that
\* the next request or the end of the service removes it.
NothingLost ==
  /\ \A p \in Requests : procs[p].alive => p = process
  /\ dirs \subseteq {temporary}

\* The audio a request is given was made for it, also when a canceled or late request
\* had the same id, and never by an adapter that failed before.
AnswerIsOwn == \A r \in Requests : answer[r] # NoFrame => answer[r].for = r /\ ~answer[r].bad

\* While the owner of the worker is being served, nobody else stops its process: not a
\* request that found the worker busy and was then canceled.
OwnerUndisturbed ==
  \A r \in Requests : job[r] \in {"configuring", "started", "asked"} =>
    lock = r /\ stopping = NoStop /\ (process # NoRequest => procs[process].signal = "none")

\* Every accepted request ends, also when its process hangs or cannot be killed.
EveryRequestEnds == \A r \in Requests : stage[r] = "streaming" ~> stage[r] = "ended"
=============================================================================
