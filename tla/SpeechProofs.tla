----------------------------- MODULE SpeechProofs -----------------------------
(***************************************************************************)
(* What SpeechWorker guarantees for every set of requests, every catalog   *)
(* and whatever the processes and the clients do: no process and no        *)
(* directory is lost, an answer belongs to the request that gets it, and   *)
(* nobody stops the process of an owner that is being served.  And what    *)
(* SpeechAssets guarantees for every set of commands, clips and damages:   *)
(* an asset is whole, and what is loaded is what was published.            *)
(***************************************************************************)
EXTENDS SpeechWorker, SpeechAssets, SpeechAdapter, TLAPS

Somebody == Requests \cup {NoRequest}
Served == {"configuring", "started", "asked"}
Active == Starting \cup {"started", "asked", "raising", "unstarting", "failing"}
Places == Active \cup {"none", "created", "done"}
Cleaning == {"new", "terminated", "killed"}
Frames == {Frame(word, r, bad) : word \in {"none", "ready", "result", "error"}, r \in Somebody, bad \in BOOLEAN}
Processes == [alive : BOOLEAN, signal : {"none", "term", "kill"}, ready : BOOLEAN,
              input : Seq(Requests), output : Seq(Frames), broken : BOOLEAN]

StreamTypes ==
  /\ stage \in [Requests -> {"never", "sent", "streaming", "aborting", "ended"}]
  /\ outcome \in [Requests -> {"none", "refused", "audio", "error"}]
  /\ gone \subseteq Requests /\ service \in {"up", "ending", "ended"}

TaskTypes ==
  /\ job \in [Requests -> Places] /\ answer \in [Requests -> Frames]
  /\ canceled \subseteq Requests /\ left \subseteq Requests
  /\ waits \in [Callers -> {"no", "waiting"} \cup Finished]
  /\ lock \in Somebody

WorkerTypes ==
  /\ process \in Somebody /\ temporary \in Somebody /\ provider \in Providers \cup {NoProvider}
  /\ stopping \in [at : {"none"} \cup Cleaning \cup Finished, p : Somebody, t : Somebody]
  /\ procs \in [Requests -> Processes] /\ dirs \subseteq Requests

TypeOK == StreamTypes /\ TaskTypes /\ WorkerTypes

-----------------------------------------------------------------------------
(* The inductive invariant *)

\* Only the task that took the lock does anything, while its response is open; what it
\* asks for is a provider there is.
OneOwner ==
  /\ \A r \in Requests : job[r] \in Active => lock = r
  /\ \A r \in Requests : job[r] \in Active \cup {"created"} =>
       stage[r] \in {"streaming", "aborting"} /\ service = "up"
  /\ \A r \in Requests : job[r] # "none" => Wanted(r) \in Providers

\* Who waits for a cleanup waits for one that runs.
Waiters ==
  /\ stopping.at = "none" => stopping = NoStop
  /\ \A c \in Callers : waits[c] = "waiting" => stopping.at \in Cleaning

\* The cleanup works on the process the worker holds, which nobody uses from its first
\* step on, and a process that was signaled is not used either.
Cleaner ==
  /\ stopping.at \in {"terminated", "killed"} => stopping.p = process /\ stopping.t = temporary
  /\ stopping.at \notin {"none", "new"} => provider = NoProvider
  /\ provider # NoProvider => process # NoRequest /\ procs[process].signal = "none"

\* How far the owner's start has come: nothing is cleaned up behind its back.
StartsClean ==
  \A r \in Requests :
    /\ job[r] = "clearing" /\ waits[Start(r)] \in Finished => stopping.at \notin Cleaning
    /\ job[r] = "clearing" /\ waits[Start(r)] = "cleaned" => process = NoRequest /\ temporary = NoRequest
    /\ job[r] = "spawning" => stopping = NoStop /\ process = NoRequest
    /\ job[r] \in Served => stopping = NoStop /\ provider # NoProvider

\* What was ever started and not cleaned up is what the worker holds.
Held ==
  /\ \A p \in Requests : procs[p] # NotStarted => p = process
  /\ dirs \subseteq {temporary}

\* The pipes of a process in use hold what the protocol has in flight.
Idle(p) == p.ready /\ ~p.broken /\ p.input = <<>> /\ p.output = <<>>
Loading(p) ==
  /\ ~p.broken /\ p.input = <<>>
  /\ \/ ~p.ready /\ p.output = <<>>
     \/ p.ready /\ p.output = <<Frame("ready", NoRequest, FALSE)>>
Asking(p, r) ==
  /\ p.ready
  /\ \/ ~p.broken /\ p.input = <<r>> /\ p.output = <<>>
     \/ ~p.broken /\ p.input = <<>> /\ p.output = <<Frame("result", r, FALSE)>>
     \/ p.input = <<>> /\ p.output = <<Frame("error", r, FALSE)>>

Pipes ==
  provider # NoProvider /\ stopping = NoStop =>
    /\ \/ Idle(procs[process])
       \/ \E r \in Requests : job[r] \in {"configuring", "asked"}
    /\ \A r \in Requests : job[r] = "configuring" => Loading(procs[process])
    /\ \A r \in Requests : job[r] = "asked" => Asking(procs[process], r)

IInv == TypeOK /\ OneOwner /\ Waiters /\ Cleaner /\ StartsClean /\ Held /\ Pipes /\ AnswerIsOwn

-----------------------------------------------------------------------------
(* The callers of stop *)

\* A task, the start that wait_for makes of it, and the end of the service are
\* callers of their own.
LEMMA CallerNames ==
  ASSUME NEW r \in Requests, NEW q \in Requests
  PROVE  /\ Owner(r) \in Callers /\ Start(r) \in Callers /\ Ender \in Callers
         /\ Owner(q) # Start(r) /\ Ender # Start(r)
         /\ Start(q) = Start(r) => q = r
  BY DEF Owner, Start, Ender, Callers

\* Whoever calls stop either gets the result of the cleanup that is over, and takes it
\* away, or waits for one that runs, which may be the one it starts.
LEMMA StopLaws ==
  ASSUME WorkerTypes, TaskTypes, Waiters, NEW c \in Callers, Stop(c)
  PROVE  /\ waits' \in [Callers -> {"no", "waiting"} \cup Finished]
         /\ stopping' \in [at : {"none"} \cup Cleaning \cup Finished, p : Somebody, t : Somebody]
         /\ \A d \in Callers \ {c} : waits'[d] = waits[d]
         /\ Waiters'
         /\ \/ stopping.at \in Finished /\ stopping' = NoStop
            \/ stopping = NoStop /\ stopping'.at = "new"
            \/ stopping.at \in Cleaning /\ stopping' = stopping
  <1>1. NoStop \in [at : {"none"} \cup Cleaning \cup Finished, p : Somebody, t : Somebody]
    BY DEF NoStop, Somebody
  <1>2. CASE stopping.at \in Finished
    <2>1. waits' = [waits EXCEPT ![c] = stopping.at] /\ stopping' = NoStop
      BY <1>2 DEF Stop
    <2>2. \A d \in Callers : waits[d] # "waiting"
      BY <1>2 DEF Waiters, Cleaning, Finished
    <2> QED BY <1>1, <1>2, <2>1, <2>2 DEF TaskTypes, Waiters, Finished
  <1>3. CASE stopping.at \notin Finished
    <2>1. /\ waits' = [waits EXCEPT ![c] = "waiting"]
          /\ stopping' = IF stopping = NoStop THEN [NoStop EXCEPT !.at = "new"] ELSE stopping
      BY <1>3 DEF Stop
    <2>2. CASE stopping = NoStop
      <3>1. stopping' = [NoStop EXCEPT !.at = "new"] /\ stopping'.at = "new"
        BY <2>1, <2>2 DEF NoStop
      <3>2. stopping' \in [at : {"none"} \cup Cleaning \cup Finished, p : Somebody, t : Somebody]
        BY <1>1, <3>1 DEF Cleaning
      <3> QED BY <2>1, <2>2, <3>1, <3>2 DEF TaskTypes, Waiters, Cleaning
    <2>3. CASE stopping # NoStop
      <3>1. stopping.at \in Cleaning /\ stopping' = stopping
        BY <1>3, <2>1, <2>3 DEF Waiters, WorkerTypes
      <3> QED BY <2>1, <3>1 DEF TaskTypes, WorkerTypes, Waiters, Cleaning
    <2> QED BY <2>2, <2>3
  <1> QED BY <1>2, <1>3

\* A caller that goes on leaves a cleanup that runs alone.
LEMMA ResumeLaws ==
  ASSUME WorkerTypes, TaskTypes, Waiters, NEW c \in Callers, Resume(c)
  PROVE  /\ waits[c] \in Finished
         /\ waits' \in [Callers -> {"no", "waiting"} \cup Finished]
         /\ stopping' \in [at : {"none"} \cup Cleaning \cup Finished, p : Somebody, t : Somebody]
         /\ waits'[c] = "no" /\ \A d \in Callers \ {c} : waits'[d] = waits[d]
         /\ Waiters'
         /\ \/ stopping.at \in Finished /\ stopping' = NoStop
            \/ stopping.at \notin Finished /\ stopping' = stopping
  <1>1. NoStop \in [at : {"none"} \cup Cleaning \cup Finished, p : Somebody, t : Somebody]
    BY DEF NoStop, Somebody
  <1>2. waits[c] \in Finished /\ waits' = [waits EXCEPT ![c] = "no"]
    BY DEF Resume
  <1>3. CASE stopping.at \in Finished
    <2>1. stopping' = NoStop
      BY <1>3 DEF Resume
    <2>2. \A d \in Callers : waits[d] # "waiting"
      BY <1>3 DEF Waiters, Cleaning, Finished
    <2> QED BY <1>1, <1>2, <1>3, <2>1, <2>2 DEF TaskTypes, Waiters, Finished
  <1>4. CASE stopping.at \notin Finished
    <2>1. stopping' = stopping
      BY <1>4 DEF Resume
    <2> QED BY <1>2, <1>4, <2>1 DEF TaskTypes, WorkerTypes, Waiters
  <1> QED BY <1>3, <1>4

\* No caller sets a cleanup on its way or undoes one, and a cleanup that was begun has
\* put the process out of use.
LEMMA CallLaws ==
  ASSUME WorkerTypes, TaskTypes, Waiters, Cleaner, NEW c \in Callers, Stop(c) \/ Resume(c)
  PROVE  /\ stopping' = stopping \/ stopping'.at \in {"none", "new"}
         /\ stopping' = stopping \/ stopping' # NoStop \/ provider = NoProvider
  <1>1. NoStop.at = "none"
    BY DEF NoStop
  <1>2. CASE Stop(c)
    BY <1>1, <1>2, StopLaws DEF Cleaner, Finished
  <1>3. CASE Resume(c)
    BY <1>1, <1>3, ResumeLaws DEF Cleaner, Finished
  <1> QED BY <1>2, <1>3

-----------------------------------------------------------------------------
(* The types *)

\* What is read and written on the pipes are frames and requests.
LEMMA FrameTypes ==
  ASSUME NEW r \in Requests
  PROVE  /\ NoFrame \in Frames /\ Frame("ready", NoRequest, FALSE) \in Frames
         /\ \A word \in {"result", "error"}, bad \in BOOLEAN : Frame(word, r, bad) \in Frames
         /\ NotStarted \in Processes
  <1>1. \A word \in {"none", "ready", "result", "error"}, q \in Somebody, bad \in BOOLEAN :
          Frame(word, q, bad) \in Frames
    BY DEF Frames
  <1>2. NoRequest \in Somebody /\ r \in Somebody
    BY DEF Somebody
  <1>3. NotStarted \in Processes
    BY DEF NotStarted, Processes
  <1> QED BY <1>1, <1>2, <1>3 DEF NoFrame

\* A process that reads, answers, dies or is signaled stays a process.
LEMMA ProcessTypes ==
  ASSUME NEW x \in Processes
  PROVE  /\ x.output # <<>> => Head(x.output) \in Frames /\ [x EXCEPT !.output = Tail(@)] \in Processes
         /\ \A f \in Frames : [x EXCEPT !.ready = TRUE, !.output = Append(@, f)] \in Processes
         /\ \A f \in Frames, b \in BOOLEAN : x.input # <<>> =>
              [x EXCEPT !.input = Tail(@), !.broken = @ \/ b, !.output = Append(@, f)] \in Processes
         /\ \A r \in Requests : [x EXCEPT !.input = Append(@, r)] \in Processes
         /\ \A b \in BOOLEAN : [x EXCEPT !.alive = b] \in Processes
         /\ \A g \in {"term", "kill"} : [x EXCEPT !.signal = g] \in Processes
  <1>1. x.output \in Seq(Frames) /\ x.input \in Seq(Requests)
    BY DEF Processes
  <1>2. ASSUME x.output # <<>>
        PROVE  Head(x.output) \in Frames /\ [x EXCEPT !.output = Tail(@)] \in Processes
    <2>1. Head(x.output) \in Frames /\ Tail(x.output) \in Seq(Frames)
      BY <1>1, <1>2
    <2> QED BY <2>1 DEF Processes
  <1>3. ASSUME NEW f \in Frames
        PROVE  [x EXCEPT !.ready = TRUE, !.output = Append(@, f)] \in Processes
    <2>1. Append(x.output, f) \in Seq(Frames)
      BY <1>1
    <2> QED BY <2>1 DEF Processes
  <1>4. ASSUME NEW f \in Frames, NEW b \in BOOLEAN, x.input # <<>>
        PROVE  [x EXCEPT !.input = Tail(@), !.broken = @ \/ b, !.output = Append(@, f)] \in Processes
    <2>1. Append(x.output, f) \in Seq(Frames) /\ Tail(x.input) \in Seq(Requests)
      BY <1>1, <1>4
    <2>2. (x.broken \/ b) \in BOOLEAN
      OBVIOUS
    <2> QED BY <2>1, <2>2 DEF Processes
  <1>5. ASSUME NEW r \in Requests
        PROVE  [x EXCEPT !.input = Append(@, r)] \in Processes
    <2>1. Append(x.input, r) \in Seq(Requests)
      BY <1>1
    <2> QED BY <2>1 DEF Processes
  <1>6. /\ \A b \in BOOLEAN : [x EXCEPT !.alive = b] \in Processes
        /\ \A g \in {"term", "kill"} : [x EXCEPT !.signal = g] \in Processes
    BY DEF Processes
  <1> QED BY <1>2, <1>3, <1>4, <1>5, <1>6

\* No step of the task of a request leaves the types.
LEMMA JobTypes ==
  ASSUME TypeOK, OneOwner, Waiters, NEW r \in Requests, Job(r)
  PROVE  TypeOK'
  <1> USE DEF TypeOK
  <1>1. StreamTypes'
    BY DEF Job, streams, StreamTypes
  <1>2. /\ \A w \in Places : Goes(r, w) => job' \in [Requests -> Places]
        /\ Done(r) => job' \in [Requests -> Places] /\ lock' \in Somebody
    BY DEF Goes, Done, Places, TaskTypes, Somebody
  <1>3. Starting \subseteq Places /\ {"started", "asked", "raising", "unstarting", "failing", "done"} \subseteq Places
    BY DEF Starting, Places, Active
  <1>4. Wanted(r) \in Providers \/ job[r] = "none"
    BY DEF OneOwner
  <1> USE <1>1, <1>2, <1>3, CallerNames, StopLaws, ResumeLaws
  <1>5. CASE Begin(r) \/ Join(r) \/ Joined(r) \/ Check(r) \/ Unstarted(r) \/ LeftEnds(r) \/ Failed(r) \/ NeverRan(r)
    BY <1>5 DEF Begin, Join, Joined, Check, Unstarted, LeftEnds, Failed, NeverRan,
                TaskTypes, WorkerTypes, worker, world, Starting, Somebody
  <1>6. CASE Cleared(r)
    <2>1. TaskTypes'
      BY <1>6 DEF Cleared, TaskTypes, WorkerTypes, Starting
    <2>2. /\ temporary' \in {temporary, r} /\ dirs' \subseteq dirs \cup {r}
          /\ UNCHANGED <<process, provider, procs>> /\ Resume(Start(r))
      BY <1>6 DEF Cleared
    <2>3. WorkerTypes'
      BY <2>2 DEF WorkerTypes, Somebody
    <2> QED BY <2>1, <2>3
  <1>7. CASE Spawned(r)
    BY <1>4, <1>7, ProcessTypes DEF Spawned, TaskTypes, WorkerTypes, Starting, Somebody
  <1>8. CASE Reads(r)
    <2>1. process \in Requests /\ procs[process] \in Processes /\ procs[process].output # <<>>
      BY <1>8 DEF Reads, Output, WorkerTypes, Somebody
    <2>2. Head(procs[process].output) \in Frames /\ procs' \in [Requests -> Processes]
      BY <1>8, <2>1, ProcessTypes DEF Reads, WorkerTypes
    <2>3. \/ Goes(r, "started") /\ UNCHANGED <<answer, waits, lock, stopping>>
          \/ /\ answer' = [answer EXCEPT ![r] = Head(procs[process].output)]
             /\ Done(r) /\ UNCHANGED <<waits, stopping>>
          \/ Fail(r) /\ UNCHANGED answer
      BY <1>8, <2>1 DEF Reads, Output, Somebody
    <2>4. UNCHANGED <<canceled, left, process, temporary, provider, dirs>>
      BY <1>8 DEF Reads
    <2> QED BY <2>2, <2>3, <2>4 DEF Fail, TaskTypes, WorkerTypes
  <1>9. CASE Ask(r)
    BY <1>9, ProcessTypes DEF Ask, Alive, worker, TaskTypes, WorkerTypes, Somebody
  <1>10. CASE Breaks(r) \/ Interrupted(r) \/ InterruptedAgain(r)
    BY <1>10 DEF Breaks, Interrupted, InterruptedAgain, Fail, TaskTypes, WorkerTypes, world
  <1> QED BY <1>5, <1>6, <1>7, <1>8, <1>9, <1>10 DEF Job

\* Nor does a step of a process or of the cleanup.
LEMMA WorldTypes ==
  ASSUME TypeOK, RequestsAssumption, (\E p \in Requests : Proc(p)) \/ Cleanup
  PROVE  TypeOK'
  <1> USE DEF TypeOK
  <1>1. ASSUME NEW p \in Requests, Proc(p)
        PROVE  TypeOK'
    <2>1. procs' \in [Requests -> Processes]
      <3>1. CASE Ready(p)
        BY <3>1, FrameTypes, ProcessTypes DEF Ready, WorkerTypes
      <3>2. CASE Answers(p)
        <4>1. procs[p] \in Processes /\ procs[p].input # <<>>
          BY <3>2 DEF Answers, WorkerTypes
        <4>2. Head(procs[p].input) \in Requests /\ procs[p].broken \in BOOLEAN
          BY <4>1 DEF Processes
        <4>3. PICK word \in {"result", "error"} :
                procs' = [procs EXCEPT ![p].input = Tail(@), ![p].broken = @ \/ word = "error",
                                       ![p].output = Append(@, Frame(word, Head(procs[p].input), procs[p].broken))]
          BY <3>2 DEF Answers
        <4>4. Frame(word, Head(procs[p].input), procs[p].broken) \in Frames
          BY <4>2, FrameTypes
        <4> QED BY <4>1, <4>3, <4>4, ProcessTypes DEF WorkerTypes
      <3>3. CASE Dies(p)
        BY <3>3, ProcessTypes DEF Dies, WorkerTypes
      <3> QED BY <1>1, <3>1, <3>2, <3>3 DEF Proc
    <2> QED BY <1>1, <2>1 DEF Proc, streams, tasks, worker, StreamTypes, TaskTypes, WorkerTypes
  <1>2. CASE Cleanup
    <2>1. StreamTypes'
      BY <1>2 DEF Cleanup, streams, StreamTypes
    <2>2. \A how \in Finished : StopEnds(how) =>
            /\ stopping' \in [at : {"none"} \cup Cleaning \cup Finished, p : Somebody, t : Somebody]
            /\ waits' \in [Callers -> {"no", "waiting"} \cup Finished]
      BY DEF StopEnds, TaskTypes, WorkerTypes
    <2>3. CASE StopBegins
      BY <1>2, <2>1, <2>3, ProcessTypes DEF StopBegins, Cleanup, TaskTypes, WorkerTypes, Cleaning, Somebody
    <2>4. CASE StopKills
      BY <1>2, <2>1, <2>4, ProcessTypes DEF StopKills, Alive, Cleanup, TaskTypes, WorkerTypes, Cleaning, Somebody
    <2>5. CASE StopCleans
      BY <1>2, <2>1, <2>2, <2>5, FrameTypes DEF StopCleans, Cleanup, TaskTypes, WorkerTypes, Finished, Somebody
    <2>6. CASE StopGivesUp
      BY <1>2, <2>1, <2>2, <2>6 DEF StopGivesUp, Kept, world, Cleanup, TaskTypes, WorkerTypes, Finished
    <2> QED BY <1>2, <2>3, <2>4, <2>5, <2>6 DEF Cleanup
  <1> QED BY <1>1, <1>2

-----------------------------------------------------------------------------
(* The streams and the end of the service *)

\* An accepted request asks for a provider there is.
LEMMA AcceptedProvider ==
  ASSUME CatalogAssumption, NEW r \in Requests, Accepted(r)
  PROVE  Wanted(r) \in Providers
  BY DEF CatalogAssumption, PublicProfile, Accepted, Wanted

\* A stream touches neither the worker nor what its task does, until the task is over.
LEMMA StreamInv ==
  ASSUME IInv, CatalogAssumption, NEW r \in Requests,
         Accept(r) \/ Refuse(r) \/ Leave(r) \/ Stream(r) \/ CancelAgain(r)
  PROVE  IInv'
  <1> USE DEF IInv
  <1>1. CASE Refuse(r) \/ Leave(r) \/ Stream(r) \/ CancelAgain(r)
    <2>1. UNCHANGED <<job, answer, left, waits, lock, service, worker, world>>
      BY <1>1 DEF Refuse, Leave, Stream, Poll, Aborts, Aborted, Deliver, Ends, CancelAgain,
                  streams, tasks, worker
    <2>2. TypeOK'
      BY <1>1, <2>1 DEF TypeOK, StreamTypes, TaskTypes, WorkerTypes, worker, world,
                  Refuse, Leave, Stream, Poll, Aborts, Aborted, Deliver, Ends, CancelAgain, streams, tasks
    <2>3. OneOwner'
      BY <1>1, <2>1 DEF OneOwner, Active, Starting, TypeOK, StreamTypes, Wanted,
                  Refuse, Leave, Stream, Poll, Aborted, Deliver, Ends, CancelAgain, streams
    <2>4. (Waiters /\ Cleaner /\ StartsClean /\ Held /\ Pipes /\ AnswerIsOwn)'
      BY <2>1 DEF Waiters, Cleaner, StartsClean, Held, Pipes, AnswerIsOwn, worker, world
    <2> QED BY <2>2, <2>3, <2>4
  <1>2. CASE Accept(r)
    <2>1. /\ UNCHANGED <<answer, waits, lock, worker, world>>
          /\ job' = [job EXCEPT ![r] = "created"] /\ Wanted(r) \in Providers
          /\ job[r] \notin Active
      BY <1>2, AcceptedProvider DEF Accept, Goes, OneOwner
    <2>2. TypeOK'
      BY <1>2, <2>1 DEF Accept, TypeOK, StreamTypes, TaskTypes, WorkerTypes, worker, world, Places
    <2>3. OneOwner'
      BY <1>2, <2>1 DEF Accept, OneOwner, TypeOK, StreamTypes, TaskTypes, Wanted, Active, Starting
    <2>4. (Waiters /\ Cleaner /\ Held /\ AnswerIsOwn)'
      BY <2>1 DEF Waiters, Cleaner, Held, AnswerIsOwn, worker, world
    <2>5. StartsClean'
      BY <2>1 DEF StartsClean, Served, TypeOK, TaskTypes, worker
    <2>6. Pipes'
      BY <2>1 DEF Pipes, Active, Starting, TypeOK, TaskTypes, worker, world
    <2> QED BY <2>2, <2>3, <2>4, <2>5, <2>6
  <1> QED BY <1>1, <1>2

\* The service ends when no task is at work.
LEMMA EndInv ==
  ASSUME IInv, EndService \/ Ended
  PROVE  IInv'
  <1> USE DEF IInv
  <1>1. /\ UNCHANGED <<stage, outcome, gone, job, answer, canceled, left, lock, process, temporary, provider, world>>
        /\ service' \in {"ending", "ended"}
    BY DEF EndService, Ended
  <1>2. \A r \in Requests : job[r] \notin Active \cup {"created"}
    BY DEF EndService, Ended, OneOwner, TypeOK, StreamTypes
  <1>3. Stop(Ender) \/ Resume(Ender)
    BY DEF EndService, Ended
  <1>4. TypeOK' /\ Waiters'
    BY <1>1, <1>3, StopLaws, ResumeLaws DEF TypeOK, StreamTypes, TaskTypes, WorkerTypes, world, Callers
  <1>5. OneOwner' /\ Held' /\ AnswerIsOwn'
    BY <1>1, <1>2 DEF OneOwner, Held, AnswerIsOwn, world, Wanted
  <1>6. /\ stopping' = stopping \/ stopping'.at \in {"none", "new"}
        /\ stopping' = stopping \/ stopping' # NoStop \/ provider = NoProvider
    <2>1. Ender \in Callers
      BY DEF Callers
    <2> QED BY <1>3, <2>1, CallLaws DEF TypeOK
  <1>7. Cleaner'
    BY <1>1, <1>6 DEF Cleaner, world
  <1>8. StartsClean'
    BY <1>1, <1>2 DEF StartsClean, Served, Active, Starting
  <1>9. Pipes'
    BY <1>1, <1>6 DEF Pipes, world
  <1> QED BY <1>4, <1>5, <1>7, <1>8, <1>9

-----------------------------------------------------------------------------
(* The task of a request *)

\* The steps of a task keep the lock with the one that works.
LEMMA JobOwns ==
  ASSUME IInv, RequestsAssumption, NEW r \in Requests, Job(r)
  PROVE  OneOwner'
  <1> USE DEF IInv, OneOwner, TypeOK, TaskTypes, Goes, Done, Active, Starting
  <1>1. UNCHANGED <<stage, service>> /\ \A q \in Requests : Wanted(q)' = Wanted(q)
    BY DEF Job, streams, Wanted
  <1>2. CASE Begin(r)
    BY <1>1, <1>2 DEF Begin, RequestsAssumption
  <1>3. CASE LeftEnds(r) \/ NeverRan(r) \/ Failed(r)
    BY <1>1, <1>3 DEF LeftEnds, NeverRan, Failed
  <1>4. CASE Join(r) \/ Joined(r) \/ Check(r) \/ Cleared(r) \/ Spawned(r) \/ Ask(r) \/ Unstarted(r)
    BY <1>1, <1>4 DEF Join, Joined, Check, Cleared, Spawned, Ask, Unstarted
  <1>5. CASE Reads(r)
    BY <1>1, <1>5 DEF Reads, Fail
  <1>6. CASE Breaks(r) \/ Interrupted(r) \/ InterruptedAgain(r)
    BY <1>1, <1>6 DEF Breaks, Interrupted, InterruptedAgain, Fail
  <1> QED BY <1>2, <1>3, <1>4, <1>5, <1>6 DEF Job

\* A failure takes the owner out of the way of everything the invariant says of its
\* process, and the process out of use.
LEMMA FailInv ==
  ASSUME IInv, NEW r \in Requests, job[r] \in Active, Fail(r),
         UNCHANGED <<answer, process, temporary, provider, dirs>>,
         procs' \in [Requests -> Processes],
         \A p \in Requests : /\ procs'[p].signal = procs[p].signal
                             /\ procs[p] = NotStarted => procs'[p] = NotStarted
  PROVE  (Waiters /\ Cleaner /\ StartsClean /\ Held /\ Pipes /\ AnswerIsOwn)'
  <1> USE DEF IInv, TypeOK
  <1>1. Owner(r) \in Callers /\ Stop(Owner(r)) /\ job' = [job EXCEPT ![r] = "failing"] /\ UNCHANGED lock
    BY CallerNames DEF Fail, Goes
  <1>2. /\ Waiters'
        /\ stopping' = stopping \/ stopping'.at \in {"none", "new"}
        /\ stopping' # NoStop \/ provider = NoProvider
    <2>1. NoStop.at = "none"
      BY DEF NoStop
    <2>2. Waiters'
      BY <1>1, StopLaws
    <2>3. stopping' = stopping \/ stopping'.at \in {"none", "new"}
      BY <1>1, CallLaws
    <2>4. stopping.at \in Finished => provider = NoProvider
      BY DEF Cleaner, Finished
    <2>5. \/ stopping.at \in Finished
          \/ stopping'.at = "new"
          \/ stopping.at \in Cleaning /\ stopping' = stopping
      BY <1>1, StopLaws
    <2> QED BY <2>1, <2>2, <2>3, <2>4, <2>5 DEF Cleaning
  <1>3. Cleaner'
    BY <1>2 DEF Cleaner, WorkerTypes, Somebody
  <1>4. StartsClean'
    BY <1>1 DEF StartsClean, OneOwner, Active, Starting, Served, TaskTypes
  <1>5. Held' /\ AnswerIsOwn'
    BY DEF Held, AnswerIsOwn
  <1>6. Pipes'
    BY <1>2 DEF Pipes
  <1> QED BY <1>2, <1>3, <1>4, <1>5, <1>6

\* While one task has the lock the others are nowhere near the worker.
LEMMA OthersIdle ==
  ASSUME OneOwner, NEW r \in Requests, job[r] \in Active, NEW q \in Requests \ {r}
  PROVE  job[q] \notin Active
  BY DEF OneOwner

\* The steps between two uses of the process: taking and giving back the lock, calling
\* stop, waiting for it and finding the process fit.
LEMMA CallInv ==
  ASSUME IInv, RequestsAssumption, NEW r \in Requests,
         Begin(r) \/ Join(r) \/ Joined(r) \/ Check(r) \/ Unstarted(r) \/ LeftEnds(r) \/ Failed(r) \/ NeverRan(r)
  PROVE  (Waiters /\ Cleaner /\ StartsClean /\ Held /\ Pipes /\ AnswerIsOwn)'
  <1> USE DEF IInv, TypeOK
  <1>1. UNCHANGED <<answer, process, temporary, provider, world>>
    BY DEF Begin, Join, Joined, Check, Unstarted, LeftEnds, Failed, NeverRan, worker
  <1>2. \/ UNCHANGED <<waits, stopping>>
        \/ Stop(Start(r)) \/ Resume(Start(r)) \/ Resume(Owner(r))
    BY DEF Begin, Join, Joined, Check, Unstarted, LeftEnds, Failed, NeverRan, worker
  <1>3. /\ Waiters'
        /\ stopping' = stopping \/ stopping'.at \in {"none", "new"}
        /\ stopping' = stopping \/ stopping' # NoStop \/ provider = NoProvider
    <2>1. CASE UNCHANGED <<waits, stopping>>
      BY <2>1 DEF Waiters
    <2> QED BY <1>2, <2>1, CallerNames, StopLaws, ResumeLaws, CallLaws
  <1>4. Cleaner' /\ Held' /\ AnswerIsOwn'
    BY <1>1, <1>3 DEF Cleaner, Held, AnswerIsOwn, world
  <1>5. /\ \/ job[r] \notin {"configuring", "asked"} /\ job'[r] \notin {"configuring", "asked"}
           \/ job' = job
        /\ \A q \in Requests \ {r} : job'[q] = job[q]
    BY DEF Begin, Join, Joined, Check, Unstarted, LeftEnds, Failed, NeverRan, Goes, Done, TaskTypes
  <1>6. Pipes'
    BY <1>1, <1>3, <1>5 DEF Pipes, world
  <1>7. StartsClean'
    <2>1. CASE Join(r) \/ Joined(r) \/ Unstarted(r) \/ Failed(r)
      <3>1. job[r] \in Active /\ job'[r] \in {"joining", "starting", "raising", "done"}
        BY <2>1 DEF Join, Joined, Unstarted, Failed, Goes, Done, TaskTypes, Active, Starting
      <3>2. \A q \in Requests \ {r} : job'[q] \notin Active
        BY <1>5, <3>1, OthersIdle
      <3> QED BY <3>1, <3>2 DEF StartsClean, Active, Starting, Served
    <2>2. CASE Begin(r) \/ NeverRan(r)
      <3>1. job'[r] \in {"starting", "done"} /\ UNCHANGED <<waits, stopping>>
        BY <2>2 DEF Begin, NeverRan, Goes, Done, TaskTypes, worker
      <3> QED BY <1>1, <1>5, <3>1 DEF StartsClean, Served
    <2>3. CASE Check(r)
      <3>1. /\ job[r] \in Active /\ stopping = NoStop /\ Wanted(r) \in Providers
            /\ \/ job'[r] = "started" /\ provider = Wanted(r) /\ UNCHANGED stopping
               \/ job'[r] = "clearing" /\ Stop(Start(r))
        BY <2>3 DEF Check, Goes, TaskTypes, Active, Starting, OneOwner
      <3>2. \A q \in Requests \ {r} : job'[q] \notin Active
        BY <1>5, <3>1, OthersIdle
      <3>3. CASE job'[r] = "started" /\ provider = Wanted(r) /\ UNCHANGED stopping
        <4>1. provider # NoProvider
          BY <3>1, <3>3 DEF Providers, Irodori, NoProvider
        <4> QED BY <1>1, <3>1, <3>2, <3>3, <4>1 DEF StartsClean, Active, Starting, Served
      <3>4. CASE job'[r] = "clearing" /\ Stop(Start(r))
        <4>1. waits'[Start(r)] = "waiting"
          <5>1. NoStop.at \notin Finished
            BY DEF NoStop, Finished
          <5> QED BY <3>1, <3>4, <5>1, CallerNames DEF Stop, TaskTypes
        <4> QED BY <3>2, <3>4, <4>1 DEF StartsClean, Active, Starting, Served, Finished
      <3> QED BY <3>1, <3>3, <3>4
    <2>4. CASE LeftEnds(r)
      <3>1. job' = job /\ Resume(Start(r))
        BY <2>4 DEF LeftEnds
      <3>2. /\ waits'[Start(r)] = "no"
            /\ \A q \in Requests \ {r} : waits'[Start(q)] = waits[Start(q)]
            /\ \/ stopping.at \in Finished /\ stopping' = NoStop
               \/ stopping' = stopping
        <4>1. Start(r) \in Callers /\ \A q \in Requests \ {r} : Start(q) \in Callers \ {Start(r)}
          BY CallerNames
        <4> QED BY <3>1, <4>1, ResumeLaws
      <3>3. NoStop.at \notin Cleaning \cup Finished
        BY DEF NoStop, Cleaning, Finished
      <3>4. "no" \notin Finished
        BY DEF Finished
      <3> QED BY <1>1, <3>1, <3>2, <3>3, <3>4 DEF StartsClean, Finished
    <2> QED BY <2>1, <2>2, <2>3, <2>4
  <1> QED BY <1>3, <1>4, <1>6, <1>7

\* The start makes its directory, or gives up, when the cleanup it waited for is over.
LEMMA ClearedInv ==
  ASSUME IInv, RequestsAssumption, NEW r \in Requests, Cleared(r)
  PROVE  (Waiters /\ Cleaner /\ StartsClean /\ Held /\ Pipes /\ AnswerIsOwn)'
  <1> USE DEF IInv, TypeOK
  <1>1. /\ job[r] = "clearing" /\ Resume(Start(r))
        /\ UNCHANGED <<answer, process, provider, procs>>
        /\ \/ /\ waits[Start(r)] = "cleaned" /\ job' = [job EXCEPT ![r] = "spawning"]
              /\ temporary' = r /\ dirs' = dirs \cup {r}
           \/ job' = [job EXCEPT ![r] = "raising"] /\ UNCHANGED <<temporary, dirs>>
    BY DEF Cleared, Goes
  <1>2. waits[Start(r)] \in Finished /\ Waiters' /\ stopping' \in {stopping, NoStop}
        /\ (stopping.at \in Finished => stopping' = NoStop)
    BY <1>1, CallerNames, ResumeLaws
  <1>3. stopping' = NoStop
    BY <1>1, <1>2 DEF StartsClean, Waiters, WorkerTypes
  <1>4. NoStop.at = "none"
    BY DEF NoStop
  <1>5. \A q \in Requests \ {r} : job'[q] \notin Active
    BY <1>1, OthersIdle DEF Active, Starting, TaskTypes
  <1>6. stopping # NoStop => provider = NoProvider
    BY <1>1, <1>2 DEF StartsClean, Cleaner, Waiters, Cleaning, WorkerTypes
  <1>7. Cleaner'
    BY <1>1, <1>3, <1>4 DEF Cleaner
  <1>8. CASE waits[Start(r)] = "cleaned" /\ job' = [job EXCEPT ![r] = "spawning"]
             /\ temporary' = r /\ dirs' = dirs \cup {r}
    <2>1. process = NoRequest /\ temporary = NoRequest
      BY <1>1, <1>8 DEF StartsClean
    <2>2. dirs = {} /\ provider = NoProvider
      BY <2>1 DEF Held, WorkerTypes, RequestsAssumption, Cleaner
    <2>3. job'[r] = "spawning"
      BY <1>8 DEF TaskTypes
    <2>4. StartsClean'
      BY <1>1, <1>3, <1>5, <2>1, <2>3 DEF StartsClean, Active, Starting, Served
    <2> QED BY <1>1, <1>2, <1>7, <1>8, <2>2, <2>4 DEF Held, Pipes, AnswerIsOwn
  <1>9. CASE job' = [job EXCEPT ![r] = "raising"] /\ UNCHANGED <<temporary, dirs>>
    <2>1. job'[r] = "raising" /\ job[r] \notin {"configuring", "asked"}
          /\ \A q \in Requests \ {r} : job'[q] = job[q]
      BY <1>1, <1>9 DEF TaskTypes
    <2>2. StartsClean'
      BY <1>5, <2>1 DEF StartsClean, Active, Starting, Served
    <2>3. Pipes'
      BY <1>1, <1>6, <2>1 DEF Pipes
    <2> QED BY <1>1, <1>2, <1>7, <1>9, <2>2, <2>3 DEF Held, AnswerIsOwn
  <1> QED BY <1>1, <1>8, <1>9

\* A process that just started has nothing on its pipes.
LEMMA SpawnedInv ==
  ASSUME IInv, RequestsAssumption, NEW r \in Requests, Spawned(r)
  PROVE  (Waiters /\ Cleaner /\ StartsClean /\ Held /\ Pipes /\ AnswerIsOwn)'
  <1> USE DEF IInv, TypeOK
  <1>1. /\ job[r] = "spawning" /\ job' = [job EXCEPT ![r] = "configuring"]
        /\ process' = r /\ provider' = Wanted(r) /\ procs' = [procs EXCEPT ![r].alive = TRUE]
        /\ UNCHANGED <<answer, waits, temporary, stopping, dirs>>
    BY DEF Spawned, Goes
  <1>2. stopping = NoStop /\ process = NoRequest
    BY <1>1 DEF StartsClean
  <1>3. \A p \in Requests : procs[p] = NotStarted
    BY <1>2 DEF Held, RequestsAssumption
  <1>4. procs'[r] = [NotStarted EXCEPT !.alive = TRUE] /\ \A p \in Requests \ {r} : procs'[p] = NotStarted
    BY <1>1, <1>3 DEF WorkerTypes
  <1>5. job'[r] = "configuring" /\ \A q \in Requests \ {r} : job'[q] \notin Active
    BY <1>1, OthersIdle DEF Active, Starting, TaskTypes
  <1>6. Wanted(r) \in Providers /\ Wanted(r) # NoProvider
    BY <1>1 DEF OneOwner, Providers, Irodori, NoProvider
  <1>7. Waiters' /\ AnswerIsOwn'
    BY <1>1 DEF Waiters, AnswerIsOwn
  <1>8. Cleaner'
    <2>1. procs'[r].signal = "none"
      BY <1>4 DEF NotStarted
    <2>2. NoStop.at = "none"
      BY DEF NoStop
    <2> QED BY <1>1, <1>2, <2>1, <2>2 DEF Cleaner, RequestsAssumption
  <1>9. StartsClean'
    BY <1>1, <1>2, <1>5, <1>6 DEF StartsClean, Active, Starting, Served
  <1>10. Held'
    BY <1>1, <1>4 DEF Held
  <1>11. Pipes'
    <2>1. Loading(procs'[r])
      BY <1>4 DEF Loading, NotStarted
    <2> QED BY <1>1, <1>5, <2>1 DEF Pipes, Active
  <1> QED BY <1>7, <1>8, <1>9, <1>10, <1>11

\* The owner asks a process that has nothing else to do.
LEMMA AskInv ==
  ASSUME IInv, RequestsAssumption, NEW r \in Requests, Ask(r)
  PROVE  (Waiters /\ Cleaner /\ StartsClean /\ Held /\ Pipes /\ AnswerIsOwn)'
  <1> USE DEF IInv, TypeOK
  <1>1. /\ job[r] = "started" /\ job' = [job EXCEPT ![r] = "asked"] /\ Alive(process)
        /\ procs' = [procs EXCEPT ![process].input = Append(@, r)]
        /\ UNCHANGED <<answer, waits, worker, dirs>>
    BY DEF Ask, Goes
  <1>2. process \in Requests /\ procs[process] \in Processes
    BY <1>1 DEF Alive, WorkerTypes, Somebody
  <1>3. job'[r] = "asked" /\ \A q \in Requests \ {r} : job'[q] \notin Active
    BY <1>1, OthersIdle DEF Active, TaskTypes
  <1>4. stopping = NoStop /\ provider # NoProvider
    BY <1>1 DEF StartsClean, Served
  <1>5. Idle(procs[process])
    BY <1>1, <1>4, OthersIdle DEF Pipes, Active, Starting
  <1>6. /\ procs'[process] = [procs[process] EXCEPT !.input = <<r>>]
        /\ \A p \in Requests \ {process} : procs'[p] = procs[p]
    BY <1>1, <1>2, <1>5 DEF Idle, WorkerTypes
  <1>7. Asking(procs'[process], r)
    BY <1>2, <1>5, <1>6 DEF Idle, Asking, Processes
  <1>8. procs'[process].signal = procs[process].signal
    BY <1>2, <1>6 DEF Processes
  <1>9. Waiters' /\ AnswerIsOwn' /\ Cleaner'
    BY <1>1, <1>2, <1>6, <1>8 DEF Waiters, AnswerIsOwn, Cleaner, worker
  <1>12. Held'
    BY <1>1, <1>6 DEF Held, worker
  <1>10. StartsClean'
    BY <1>1, <1>3, <1>4 DEF StartsClean, Active, Starting, Served, worker
  <1>11. Pipes'
    BY <1>1, <1>3, <1>7 DEF Pipes, Active, Starting, worker
  <1> QED BY <1>9, <1>10, <1>11, <1>12

\* The one frame an owner reads is the worker's word that it is ready, the answer to its
\* own request, or an error.
LEMMA ReadsInv ==
  ASSUME IInv, RequestsAssumption, NEW r \in Requests, Reads(r)
  PROVE  (Waiters /\ Cleaner /\ StartsClean /\ Held /\ Pipes /\ AnswerIsOwn)'
  <1> USE DEF IInv, TypeOK
  <1> DEFINE line == Head(procs[process].output)
  <1>1. /\ job[r] \in {"configuring", "asked"} /\ process \in Requests /\ procs[process].output # <<>>
        /\ procs' = [procs EXCEPT ![process].output = Tail(@)]
        /\ UNCHANGED <<process, temporary, provider, dirs>>
        /\ \/ /\ job[r] = "configuring" /\ line.kind = "ready"
              /\ Goes(r, "started") /\ UNCHANGED <<answer, waits, lock, stopping>>
           \/ /\ job[r] = "asked" /\ line.kind = "result" /\ line.id = Asked[r].id
              /\ answer' = [answer EXCEPT ![r] = line]
              /\ Done(r) /\ UNCHANGED <<waits, stopping>>
           \/ Fail(r) /\ UNCHANGED answer
    BY DEF Reads, Output, WorkerTypes, Somebody
  <1>2. job[r] \in Active /\ stopping = NoStop /\ provider # NoProvider
    BY <1>1 DEF Active, Starting, StartsClean, Served
  <1>3. procs[process] \in Processes
    BY <1>1 DEF WorkerTypes
  <1>4. /\ procs' \in [Requests -> Processes]
        /\ procs'[process] = [procs[process] EXCEPT !.output = Tail(procs[process].output)]
        /\ \A p \in Requests \ {process} : procs'[p] = procs[p]
    BY <1>1, <1>3, ProcessTypes DEF WorkerTypes
  <1>5. \A p \in Requests : /\ procs'[p].signal = procs[p].signal
                            /\ procs[p] = NotStarted => procs'[p] = NotStarted
    <2>1. procs[process] # NotStarted
      BY <1>1 DEF NotStarted
    <2>2. procs'[process].signal = procs[process].signal
      BY <1>3, <1>4 DEF Processes
    <2> QED BY <1>4, <2>1, <2>2
  <1>6. Loading(procs[process]) \/ Asking(procs[process], r)
    BY <1>1, <1>2 DEF Pipes
  <1>7. \/ job[r] = "configuring" /\ Loading(procs[process])
        \/ job[r] = "asked" /\ Asking(procs[process], r)
    BY <1>1, <1>2 DEF Pipes
  <1>8. CASE Fail(r) /\ UNCHANGED answer
    BY <1>1, <1>2, <1>4, <1>5, <1>8, FailInv
  <1>9. ASSUME UNCHANGED <<waits, stopping>>, Goes(r, "started") \/ Done(r)
        PROVE  (Waiters /\ Cleaner /\ StartsClean /\ Held)'
    <2>1. job'[r] \in {"started", "done"} /\ \A q \in Requests \ {r} : job'[q] \notin Active
      BY <1>2, <1>9, OthersIdle DEF Goes, Done, TaskTypes
    <2>2. Waiters' /\ Cleaner'
      BY <1>1, <1>5, <1>9 DEF Waiters, Cleaner, WorkerTypes, Somebody
    <2>3. Held'
      BY <1>1, <1>5 DEF Held
    <2>4. StartsClean'
      BY <1>1, <1>2, <1>9, <2>1 DEF StartsClean, Active, Starting, Served
    <2> QED BY <2>2, <2>3, <2>4
  <1>10. ASSUME Goes(r, "started") \/ Done(r), UNCHANGED stopping, Idle(procs'[process])
         PROVE  Pipes'
    <2>1. job'[r] \in {"started", "done"} /\ \A q \in Requests \ {r} : job'[q] \notin Active
      BY <1>2, <1>10, OthersIdle DEF Goes, Done, TaskTypes
    <2> QED BY <1>1, <1>10, <2>1 DEF Pipes, Active, Starting
  <1>11. CASE job[r] = "configuring" /\ Goes(r, "started") /\ UNCHANGED <<answer, waits, lock, stopping>>
    <2>1. procs[process].ready /\ procs[process].output = <<Frame("ready", NoRequest, FALSE)>>
          /\ ~procs[process].broken /\ procs[process].input = <<>>
      BY <1>1, <1>7, <1>11 DEF Loading
    <2>2. Idle(procs'[process])
      BY <1>3, <1>4, <2>1 DEF Idle, Processes
    <2> QED BY <1>9, <1>10, <1>11, <2>2 DEF AnswerIsOwn
  <1>12. CASE /\ job[r] = "asked" /\ line.kind = "result" /\ answer' = [answer EXCEPT ![r] = line]
              /\ Done(r) /\ UNCHANGED <<waits, stopping>>
    <2>1. procs[process].ready /\ procs[process].output = <<Frame("result", r, FALSE)>>
          /\ ~procs[process].broken /\ procs[process].input = <<>>
      <3>1. Frame("error", r, FALSE).kind = "error"
        BY DEF Frame
      <3>2. procs[process].output # <<Frame("error", r, FALSE)>>
        <4>1. SUFFICES ASSUME procs[process].output = <<Frame("error", r, FALSE)>>
                       PROVE  FALSE
          OBVIOUS
        <4>2. line = Frame("error", r, FALSE)
          BY <4>1
        <4>3. line.kind = "error"
          BY <4>2, <3>1
        <4> QED BY <1>12, <4>3
      <3> QED BY <1>1, <1>7, <1>12, <3>2 DEF Asking
    <2>2. Idle(procs'[process])
      <3>1. Tail(procs[process].output) = <<>>
        BY <2>1
      <3> QED BY <1>3, <1>4, <2>1, <3>1 DEF Idle, Processes
    <2>3. line.for = r /\ ~line.bad
      <3>1. line = Frame("result", r, FALSE)
        BY <2>1
      <3>2. Frame("result", r, FALSE).for = r /\ ~Frame("result", r, FALSE).bad
        BY DEF Frame
      <3> QED BY <3>1, <3>2
    <2>4. AnswerIsOwn'
      BY <1>12, <2>3 DEF AnswerIsOwn, TaskTypes
    <2> QED BY <1>9, <1>10, <1>12, <2>2, <2>4
  <1> QED BY <1>1, <1>8, <1>11, <1>12

-----------------------------------------------------------------------------
(* The processes and the cleanup *)

\* A process follows the protocol as long as it is used.
LEMMA ProcInv ==
  ASSUME IInv, RequestsAssumption, NEW p \in Requests, Proc(p)
  PROVE  IInv'
  <1> USE DEF IInv
  <1>1. TypeOK'
    BY WorldTypes
  <1> USE DEF TypeOK
  <1>2. /\ UNCHANGED <<streams, tasks, worker, dirs>> /\ procs[p] \in Processes /\ procs[p].alive
        /\ \A q \in Requests \ {p} : procs'[q] = procs[q]
    <2>1. Ready(p) \/ Answers(p) \/ Dies(p)
      BY DEF Proc
    <2>2. \A q \in Requests \ {p} : procs'[q] = procs[q]
      BY <2>1 DEF WorkerTypes, Ready, Answers, Dies
    <2> QED BY <2>2 DEF Proc, Alive, WorkerTypes
  <1>3. p = process
    BY <1>2 DEF Held, NotStarted
  <1>4. procs'[p].signal = procs[p].signal
    <2>1. CASE Ready(p)
      <3>1. procs'[p] = [procs[p] EXCEPT !.ready = TRUE,
                           !.output = Append(procs[p].output, Frame("ready", NoRequest, FALSE))]
        BY <2>1 DEF Ready, WorkerTypes
      <3> QED BY <1>2, <3>1 DEF Processes
    <2>2. CASE Answers(p)
      <3>1. PICK word \in {"result", "error"} :
              procs'[p] = [procs[p] EXCEPT !.input = Tail(procs[p].input),
                             !.broken = procs[p].broken \/ word = "error",
                             !.output = Append(procs[p].output,
                                               Frame(word, Head(procs[p].input), procs[p].broken))]
        BY <2>2 DEF Answers, WorkerTypes
      <3> QED BY <1>2, <3>1 DEF Processes
    <2>3. CASE Dies(p)
      <3>1. procs'[p] = [procs[p] EXCEPT !.alive = FALSE]
        BY <2>3 DEF Dies, WorkerTypes
      <3> QED BY <1>2, <3>1 DEF Processes
    <2> QED BY <2>1, <2>2, <2>3 DEF Proc
  <1>5. (OneOwner /\ Waiters /\ StartsClean /\ AnswerIsOwn)'
    BY <1>2 DEF OneOwner, Waiters, StartsClean, AnswerIsOwn, streams, tasks, worker, Wanted
  <1>6. Cleaner' /\ Held'
    BY <1>2, <1>3, <1>4 DEF Cleaner, Held, worker
  <1>7. /\ Idle(procs[p]) => Idle(procs'[p])
        /\ Loading(procs[p]) => Loading(procs'[p])
        /\ \A r \in Requests : Asking(procs[p], r) => Asking(procs'[p], r)
    <2>1. CASE Ready(p)
      <3>1. ~procs[p].ready /\ procs'[p] = [procs[p] EXCEPT !.ready = TRUE,
                                 !.output = Append(procs[p].output, Frame("ready", NoRequest, FALSE))]
        BY <2>1 DEF Ready, WorkerTypes
      <3>2. procs[p].output = <<>> => Append(procs[p].output, Frame("ready", NoRequest, FALSE))
                                        = <<Frame("ready", NoRequest, FALSE)>>
        OBVIOUS
      <3> QED BY <1>2, <3>1, <3>2 DEF Idle, Loading, Asking, Processes
    <2>2. CASE Answers(p)
      <3>1. PICK word \in {"result", "error"} :
              procs'[p] = [procs[p] EXCEPT !.input = Tail(procs[p].input),
                             !.broken = procs[p].broken \/ word = "error",
                             !.output = Append(procs[p].output,
                                               Frame(word, Head(procs[p].input), procs[p].broken))]
        BY <2>2 DEF Answers, WorkerTypes
      <3>2. procs[p].input # <<>>
        BY <2>2 DEF Answers
      <3>3. ~Idle(procs[p]) /\ ~Loading(procs[p])
        BY <3>2 DEF Idle, Loading
      <3>4. ASSUME NEW r \in Requests, Asking(procs[p], r)
            PROVE  Asking(procs'[p], r)
        <4>1. ~procs[p].broken /\ procs[p].input = <<r>> /\ procs[p].output = <<>> /\ procs[p].ready
          BY <3>2, <3>4 DEF Asking
        <4>2. /\ procs'[p].input = <<>> /\ procs'[p].output = <<Frame(word, r, FALSE)>> /\ procs'[p].ready
              /\ procs'[p].broken => word = "error"
          <5>1. /\ Head(procs[p].input) = r /\ Tail(procs[p].input) = <<>>
                /\ \A f : Append(procs[p].output, f) = <<f>>
            BY <4>1
          <5>2. procs[p].broken = FALSE
            BY <1>2, <4>1 DEF Processes
          <5>3. procs'[p] = [procs[p] EXCEPT !.input = <<>>, !.broken = FALSE \/ word = "error",
                                             !.output = <<Frame(word, r, FALSE)>>]
            BY <3>1, <5>1, <5>2
          <5>4. /\ procs'[p].input = <<>> /\ procs'[p].output = <<Frame(word, r, FALSE)>>
                /\ procs'[p].ready = procs[p].ready
            BY <1>2, <5>3 DEF Processes
          <5>5. procs'[p].broken = (FALSE \/ word = "error")
            BY <1>2, <5>3 DEF Processes
          <5> QED BY <4>1, <5>4, <5>5
        <4>3. word = "result" \/ word = "error"
          OBVIOUS
        <4> QED BY <4>2, <4>3 DEF Asking
      <3> QED BY <3>3, <3>4
    <2>3. CASE Dies(p)
      <3>1. procs'[p] = [procs[p] EXCEPT !.alive = FALSE]
        BY <2>3 DEF Dies, WorkerTypes
      <3> QED BY <1>2, <3>1 DEF Idle, Loading, Asking, Processes
    <2> QED BY <2>1, <2>2, <2>3 DEF Proc
  <1>8. Pipes'
    BY <1>2, <1>3, <1>7 DEF Pipes, worker, tasks
  <1> QED BY <1>1, <1>5, <1>6, <1>8

\* The cleanup works behind nobody's back: whoever uses the worker has seen it end.
LEMMA CleanupInv ==
  ASSUME IInv, RequestsAssumption, Cleanup
  PROVE  IInv'
  <1> USE DEF IInv
  <1>1. TypeOK'
    BY WorldTypes
  <1> USE DEF TypeOK
  <1>3. stopping.at \in Cleaning
    BY DEF Cleanup, StopBegins, StopKills, StopCleans, StopGivesUp, Removable, Cleaning
  <1>4. stopping' # NoStop /\ stopping'.at \in Cleaning \cup Finished
    <2>1. NoStop.at \notin Cleaning \cup Finished
      BY DEF NoStop, Cleaning, Finished
    <2> QED BY <2>1 DEF Cleanup, StopBegins, StopKills, StopCleans, StopGivesUp, StopEnds, Cleaning, Finished, WorkerTypes
  <1>5. UNCHANGED <<job, answer, stage, service, lock>>
    BY DEF Cleanup, streams
  <1>6. (OneOwner /\ AnswerIsOwn /\ Pipes)'
    BY <1>4, <1>5 DEF OneOwner, AnswerIsOwn, Pipes, Wanted
  <1>7. \A r \in Requests : job[r] \notin Served \cup {"spawning"}
    BY <1>3 DEF StartsClean, NoStop, Cleaning
  <1>8. /\ NoStop.at = "none"
        /\ \A how \in Finished : StopEnds(how) =>
             /\ stopping'.at = how
             /\ \A c \in Callers : waits'[c] = IF waits[c] = "waiting" THEN how ELSE waits[c]
    BY DEF NoStop, StopEnds, WorkerTypes
  <1>9. CASE StopBegins \/ StopKills
    <2>1. UNCHANGED <<waits, process, temporary>> /\ stopping'.at \in {"terminated", "killed"}
          /\ stopping'.p = process /\ stopping'.t = temporary /\ provider' = NoProvider
      BY <1>9 DEF StopBegins, StopKills, WorkerTypes, Cleaner
    <2>2. Waiters' /\ Cleaner'
      BY <1>4, <2>1 DEF Waiters, Cleaner, Cleaning
    <2>3. \A p \in Requests : procs'[p] # procs[p] => p = process
      BY <1>9 DEF StopBegins, StopKills, Cleaner, WorkerTypes
    <2>4. Held'
      BY <1>9, <2>1, <2>3 DEF Held, StopBegins, StopKills
    <2>5. StartsClean'
      BY <1>3, <1>5, <1>7, <2>1 DEF StartsClean
    <2> QED BY <1>1, <1>6, <2>2, <2>4, <2>5
  <1>10. CASE StopCleans
    <2>1. StopEnds("cleaned") /\ process' = NoRequest /\ temporary' = NoRequest /\ provider' = NoProvider
      BY <1>10 DEF StopCleans
    <2>2. Waiters' /\ Cleaner'
      BY <1>4, <1>8, <2>1 DEF Waiters, Cleaner, Finished, Cleaning
    <2>3. dirs' = {}
      BY <1>10 DEF StopCleans, Removable, Held, Cleaner
    <2>4. \A p \in Requests : procs'[p] = NotStarted
      BY <1>10 DEF StopCleans, Held
    <2>5. StartsClean'
      BY <1>5, <1>7, <1>8, <2>1 DEF StartsClean, Finished, Cleaning
    <2> QED BY <1>1, <1>6, <2>2, <2>3, <2>4, <2>5 DEF Held
  <1>11. CASE StopGivesUp
    <2>1. StopEnds("failed") /\ UNCHANGED <<process, temporary, world>> /\ provider' = NoProvider
      BY <1>11 DEF StopGivesUp, Kept
    <2>2. Waiters' /\ Cleaner'
      BY <1>4, <1>8, <2>1 DEF Waiters, Cleaner, Finished, Cleaning
    <2>3. Held'
      BY <2>1 DEF Held, world
    <2>4. StartsClean'
      <3>1. \A r \in Requests : job[r] = "clearing" => waits[Start(r)] # "cleaned"
        BY <1>3 DEF StartsClean, Finished
      <3>2. \A r \in Requests : Start(r) \in Callers
        BY CallerNames
      <3> QED BY <1>5, <1>7, <1>8, <2>1, <3>1, <3>2 DEF StartsClean, Finished, Cleaning
    <2> QED BY <1>1, <1>6, <2>2, <2>3, <2>4
  <1> QED BY <1>9, <1>10, <1>11 DEF Cleanup

\* The task of a request, whatever it is interrupted by.
LEMMA JobInv ==
  ASSUME IInv, RequestsAssumption, NEW r \in Requests, Job(r)
  PROVE  IInv'
  <1>1. TypeOK'
    BY JobTypes DEF IInv
  <1>2. OneOwner'
    BY JobOwns
  <1>3. CASE Begin(r) \/ Join(r) \/ Joined(r) \/ Check(r) \/ Unstarted(r) \/ LeftEnds(r) \/ Failed(r) \/ NeverRan(r)
    BY <1>1, <1>2, <1>3, CallInv DEF IInv
  <1>4. CASE Cleared(r) \/ Spawned(r) \/ Ask(r) \/ Reads(r)
    BY <1>1, <1>2, <1>4, ClearedInv, SpawnedInv, AskInv, ReadsInv DEF IInv
  <1>5. ASSUME UNCHANGED <<answer, process, temporary, provider, world>>, job[r] \in Active, Fail(r)
        PROVE  (Waiters /\ Cleaner /\ StartsClean /\ Held /\ Pipes /\ AnswerIsOwn)'
    <2>1. procs' = procs /\ dirs' = dirs /\ procs \in [Requests -> Processes]
      BY <1>5 DEF world, IInv, TypeOK, WorkerTypes
    <2> QED BY <1>5, <2>1, FailInv
  <1>6. CASE Breaks(r)
    <2>1. UNCHANGED <<answer, process, temporary, provider, world>> /\ job[r] \in Active /\ Fail(r)
      BY <1>6 DEF Breaks, Active, Starting
    <2> QED BY <1>1, <1>2, <1>5, <2>1 DEF IInv
  <1>7. CASE InterruptedAgain(r)
    <2>1. UNCHANGED <<answer, process, temporary, provider, world>> /\ job[r] \in Active /\ Fail(r)
      BY <1>7 DEF InterruptedAgain, Active
    <2> QED BY <1>1, <1>2, <1>5, <2>1 DEF IInv
  <1>8. CASE Interrupted(r)
    <2>1. UNCHANGED <<answer, process, temporary, provider, world>> /\ job[r] \in Active
      BY <1>8 DEF Interrupted, Active
    <2>2. CASE Fail(r)
      BY <1>1, <1>2, <1>5, <2>1, <2>2 DEF IInv
    <2>3. CASE job[r] \in {"joining", "clearing"} /\ Goes(r, "unstarting") /\ UNCHANGED <<waits, lock, stopping>>
      <3>1. /\ job' = [job EXCEPT ![r] = "unstarting"] /\ job'[r] = "unstarting"
            /\ \A q \in Requests \ {r} : job'[q] = job[q] /\ job'[q] \notin Active
        BY <2>1, <2>3, OthersIdle DEF Goes, IInv, TypeOK, TaskTypes
      <3>2. (Waiters /\ Cleaner /\ Held /\ AnswerIsOwn)'
        BY <2>1, <2>3 DEF IInv, Waiters, Cleaner, Held, AnswerIsOwn, world
      <3>3. StartsClean'
        BY <3>1 DEF StartsClean, Active, Starting, Served
      <3>4. Pipes'
        BY <2>1, <2>3, <3>1 DEF IInv, Pipes, world
      <3> QED BY <1>1, <1>2, <3>2, <3>3, <3>4 DEF IInv
    <2> QED BY <1>8, <2>2, <2>3 DEF Interrupted
  <1> QED BY <1>3, <1>4, <1>6, <1>7, <1>8 DEF Job

-----------------------------------------------------------------------------
(* The theorems *)

\* Nothing was sent, started or waited for.
LEMMA InitInv ==
  ASSUME Init
  PROVE  IInv
  <1>1. NoStop.at = "none" /\ NoStop \in [at : {"none"} \cup Cleaning \cup Finished, p : Somebody, t : Somebody]
    BY DEF NoStop, Somebody
  <1>2. NoFrame \in Frames
    <2>1. NoRequest \in Somebody
      BY DEF Somebody
    <2>2. \A word \in {"none", "ready", "result", "error"}, q \in Somebody, bad \in BOOLEAN :
            Frame(word, q, bad) \in Frames
      BY DEF Frames
    <2> QED BY <2>1, <2>2 DEF NoFrame
  <1>3. NotStarted \in Processes
    BY DEF NotStarted, Processes
  <1>4. StreamTypes
    BY DEF Init, StreamTypes
  <1>5. TaskTypes
    BY <1>2 DEF Init, TaskTypes, Places, Somebody
  <1>6. WorkerTypes
    BY <1>1, <1>3 DEF Init, WorkerTypes, Somebody
  <1>7. OneOwner /\ Waiters /\ Cleaner /\ StartsClean /\ Held /\ Pipes /\ AnswerIsOwn
    BY <1>1 DEF Init, OneOwner, Waiters, Cleaner, StartsClean, Held, Pipes, AnswerIsOwn, Active, Starting, Served
  <1> QED BY <1>4, <1>5, <1>6, <1>7 DEF IInv, TypeOK

\* The inductive invariant holds in every state.
LEMMA Invariance ==
  ASSUME RequestsAssumption, CatalogAssumption
  PROVE  Spec => []IInv
  <1>1. Init => IInv
    BY InitInv
  <1>2. ASSUME IInv, [Next]_vars
        PROVE  IInv'
    <2>1. CASE \E r \in Requests : Accept(r) \/ Refuse(r) \/ Leave(r) \/ Stream(r) \/ CancelAgain(r)
      BY <1>2, <2>1, StreamInv
    <2>2. CASE \E r \in Requests : Job(r)
      BY <1>2, <2>2, JobInv
    <2>3. CASE \E r \in Requests : Proc(r)
      BY <1>2, <2>3, ProcInv
    <2>4. CASE Cleanup
      BY <1>2, <2>4, CleanupInv
    <2>5. CASE EndService \/ Ended
      BY <1>2, <2>5, EndInv
    <2>6. CASE UNCHANGED vars
      <3> USE <1>2, <2>6 DEF vars, streams, tasks, worker, world, IInv
      <3>1. TypeOK'
        BY DEF TypeOK, StreamTypes, TaskTypes, WorkerTypes
      <3>2. (OneOwner /\ Waiters /\ Cleaner /\ Held /\ AnswerIsOwn)'
        BY DEF OneOwner, Waiters, Cleaner, Held, AnswerIsOwn, Wanted
      <3>3. StartsClean'
        BY DEF StartsClean
      <3>4. Pipes'
        BY DEF Pipes
      <3> QED BY <3>1, <3>2, <3>3, <3>4
    <2> QED BY <1>2, <2>1, <2>2, <2>3, <2>4, <2>5, <2>6 DEF Next
  <1> QED BY <1>1, <1>2, PTL DEF Spec

\* Every variable has its type.
THEOREM SpeechTypes ==
  ASSUME RequestsAssumption, CatalogAssumption
  PROVE  Spec => []TypeOK
  <1>1. IInv => TypeOK
    BY DEF IInv
  <1> QED BY <1>1, Invariance, PTL

\* However requests are canceled, time out or find a cleanup that failed, a process that
\* is alive and a private directory on disk are the ones the worker holds: the next
\* start or the end of the service removes them.
THEOREM NothingIsLost ==
  ASSUME RequestsAssumption, CatalogAssumption
  PROVE  Spec => []NothingLost
  <1>1. IInv => NothingLost
    BY DEF IInv, Held, NothingLost, NotStarted
  <1> QED BY <1>1, Invariance, PTL

\* The audio a request gets was made for it by an adapter that never failed, also when
\* another request had the same id.
THEOREM AnswersBelong ==
  ASSUME RequestsAssumption, CatalogAssumption
  PROVE  Spec => []AnswerIsOwn
  <1>1. IInv => AnswerIsOwn
    BY DEF IInv
  <1> QED BY <1>1, Invariance, PTL

\* Nobody stops the process of an owner that is being served.
THEOREM OwnersAreServed ==
  ASSUME RequestsAssumption, CatalogAssumption
  PROVE  Spec => []OwnerUndisturbed
  <1>1. IInv => OwnerUndisturbed
    BY DEF IInv, OneOwner, StartsClean, Cleaner, OwnerUndisturbed, Active, Starting, Served
  <1> QED BY <1>1, Invariance, PTL

-----------------------------------------------------------------------------
(* The assets.  A name tells what its files are, so the invariant speaks of  *)
(* names: what is stored under them, and what they were made of.             *)

Categories == {"references", "groups", "prompts"}

\* The files f are those of an asset of this name.
FilesOf(name, f) ==
  /\ name.category \in Categories
  /\ "reference.wav" \in DOMAIN f <=> name.category = "references"
  /\ name.category = "references" => f["reference.wav"] = name.of.audio
  /\ name.category = "prompts" => f["arrays.npz"] = name.of.arrays

\* A reference that was published, as the names in d say.
Reference_in(d, name) == name \in d /\ name.category = "references"

\* A group and a prompt were made of published references.
MadeOf(d, name) ==
  /\ name.category = "groups" =>
       \A i \in DOMAIN name.of.references : Reference_in(d, name.of.references[i].reference)
  /\ name.category = "prompts" => Reference_in(d, name.of.reference.reference)

\* The value v is what a load of this name must return.
ValueOf(name, v) ==
  /\ name.category = "references" => v.audio = name.of.audio
  /\ name.category = "groups" =>
       /\ DOMAIN v = DOMAIN name.of.references
       /\ \A i \in DOMAIN v : v[i].audio = name.of.references[i].reference.of.audio
  /\ name.category = "prompts" =>
       /\ v.arrays = name.of.arrays
       /\ v.voice.audio = name.of.reference.reference.of.audio

StoredAsNamed == \A name \in DOMAIN stored : FilesOf(name, stored[name]) /\ MadeOf(DOMAIN stored, name)
WorkAsNamed ==
  /\ DOMAIN work = Runs
  /\ \A r \in Runs :
       /\ work[r].at = "staging" => FilesOf(work[r].name, work[r].files) /\ MadeOf(DOMAIN stored, work[r].name)
       /\ Made(r) => work[r].name \in DOMAIN stored
LoadedAsNamed == \A name \in DOMAIN loaded : name \in DOMAIN stored /\ ValueOf(name, loaded[name])

AssetsInv == PublishedWhole /\ StoredAsNamed /\ WorkAsNamed /\ LoadedAsNamed

\* A load and the commands meet a reference only where one was published.
LEMMA IntactIsReference ==
  ASSUME PublishedWhole, StoredAsNamed, NEW name \in DOMAIN stored, IntactReference(name)
  PROVE  /\ name.category = "references" /\ name \in DOMAIN disk
         /\ disk[name]["reference.wav"] = name.of.audio
  <1>1. name \in DOMAIN disk /\ "reference.wav" \in DOMAIN disk[name]
        /\ disk[name]["reference.wav"] = name.of.audio
    BY DEF IntactReference, SameAudio
  <1>2. FilesOf(name, stored[name])
    BY DEF StoredAsNamed
  <1>3. name.category # "staging"
    BY <1>2 DEF FilesOf, Categories
  <1>4. "reference.wav" \in DOMAIN stored[name]
    BY <1>1, <1>3 DEF PublishedWhole
  <1> QED BY <1>1, <1>2, <1>4 DEF FilesOf

\* What is made of published references stays so while more is published.
LEMMA MadeOfMore ==
  ASSUME NEW d, NEW e, NEW name, d \subseteq e, MadeOf(d, name)
  PROVE  MadeOf(e, name)
  BY DEF MadeOf, Reference_in

\* A load returns what the name says.
LEMMA ValueAsNamed ==
  ASSUME PublishedWhole, StoredAsNamed, NEW name \in DOMAIN stored, Intact(name)
  PROVE  ValueOf(name, Value(name))
  <1>1. FilesOf(name, stored[name]) /\ MadeOf(DOMAIN stored, name) /\ name.category \in Categories
    BY DEF StoredAsNamed, FilesOf
  <1>2. CASE name.category = "references"
    <2>1. IntactReference(name)
      BY <1>2 DEF Intact
    <2>2. Value(name) = Reference(name)
      BY <1>2 DEF Value
    <2>3. disk[name]["reference.wav"] = name.of.audio
      BY <2>1, IntactIsReference
    <2> QED BY <1>2, <2>2, <2>3 DEF ValueOf, Reference
  <1>3. CASE name.category = "groups"
    <2>1. IntactGroup(name) /\ Value(name) = Group(name)
      BY <1>3 DEF Intact, Value
    <2>2. ASSUME NEW i \in DOMAIN name.of.references
          PROVE  Group(name)[i].audio = name.of.references[i].reference.of.audio
      <3> DEFINE ref == name.of.references[i].reference
      <3>1. IntactReference(ref)
        BY <2>1 DEF IntactGroup
      <3>2. ref \in DOMAIN stored
        BY <1>1, <1>3 DEF MadeOf, Reference_in
      <3>3. disk[ref]["reference.wav"] = ref.of.audio
        BY <3>1, <3>2, IntactIsReference
      <3>4. Group(name)[i] = Reference(ref)
        BY DEF Group
      <3> QED BY <3>3, <3>4 DEF Reference
    <2>3. DOMAIN Group(name) = DOMAIN name.of.references
      BY DEF Group
    <2> QED BY <1>3, <2>1, <2>2, <2>3 DEF ValueOf
  <1>4. CASE name.category = "prompts"
    <2> DEFINE ref == name.of.reference.reference
    <2>1. IntactPrompt(name) /\ Value(name) = Prompt(name)
      BY <1>4 DEF Intact, Value
    <2>2. IntactReference(ref) /\ disk[name]["arrays.npz"] = name.of.arrays
      BY <2>1 DEF IntactPrompt
    <2>3. ref \in DOMAIN stored
      BY <1>1, <1>4 DEF MadeOf, Reference_in
    <2>4. disk[ref]["reference.wav"] = ref.of.audio
      BY <2>2, <2>3, IntactIsReference
    <2>5. Prompt(name).arrays = name.of.arrays /\ Prompt(name).voice = Reference(ref)
      BY <2>2 DEF Prompt
    <2> QED BY <1>4, <2>1, <2>4, <2>5 DEF ValueOf, Reference
  <1> QED BY <1>1, <1>2, <1>3, <1>4 DEF Categories

LEMMA LoadKeeps ==
  ASSUME AssetsInv, NEW name \in DOMAIN disk, name.category # "staging", Load(name)
  PROVE  AssetsInv'
  <1> USE DEF AssetsInv
  <1>1. UNCHANGED <<disk, work, stored>> /\ loaded' = Extend(loaded, name, Value(name)) /\ Intact(name)
    BY DEF Load
  <1>2. PublishedWhole' /\ StoredAsNamed' /\ WorkAsNamed'
    BY <1>1 DEF PublishedWhole, StoredAsNamed, WorkAsNamed, Made
  <1>3. name \in DOMAIN stored
    BY DEF PublishedWhole
  <1>4. ValueOf(name, Value(name))
    BY <1>1, <1>3, ValueAsNamed
  <1>5. LoadedAsNamed'
    BY <1>1, <1>3, <1>4 DEF LoadedAsNamed, Extend
  <1> QED BY <1>2, <1>5

\* A command begins to stage an asset whose files are those of its name.
LEMMA StagesKeeps ==
  ASSUME AssetsInv, NEW r \in Runs, NEW name, NEW f, Stages(r, name, f), UNCHANGED disk,
         FilesOf(name, f), MadeOf(DOMAIN stored, name)
  PROVE  AssetsInv'
  <1> USE DEF AssetsInv
  <1>1. /\ UNCHANGED <<disk, stored, loaded>>
        /\ work' = [work EXCEPT ![r] = [at |-> "staging", name |-> name, files |-> f]]
    BY DEF Stages
  <1>2. WorkAsNamed'
    <2>1. DOMAIN work' = Runs
      BY <1>1 DEF WorkAsNamed
    <2>2. ASSUME NEW s \in Runs
          PROVE  /\ work'[s].at = "staging" =>
                      FilesOf(work'[s].name, work'[s].files) /\ MadeOf(DOMAIN stored', work'[s].name)
                 /\ Made(s)' => work'[s].name \in DOMAIN stored'
      <3>1. CASE s = r
        <4>1. work'[s] = [at |-> "staging", name |-> name, files |-> f]
          BY <1>1, <3>1 DEF WorkAsNamed
        <4> QED BY <1>1, <4>1 DEF Made
      <3>2. CASE s # r
        <4>1. work'[s] = work[s]
          BY <1>1, <3>2 DEF WorkAsNamed
        <4> QED BY <1>1, <4>1 DEF WorkAsNamed, Made
      <3> QED BY <3>1, <3>2
    <2> QED BY <2>1, <2>2 DEF WorkAsNamed
  <1> QED BY <1>1, <1>2 DEF PublishedWhole, StoredAsNamed, LoadedAsNamed

LEMMA RegisterKeeps ==
  ASSUME AssetsInv, NEW r \in Runs, NEW clip, Register(r, clip)
  PROVE  AssetsInv'
  <1> DEFINE m == [provenance |-> r, audio |-> Cleaned(clip.wav), transcript |-> clip.transcript,
                   consent |-> clip.consent]
             base == Extend(File("manifest.json", m), "reference.wav", m.audio)
             f == IF clip.transcript = "" THEN base ELSE Extend(base, "transcript.txt", [text |-> clip.transcript])
             name == Name("references", m)
  <1>1. Stages(r, name, f) /\ UNCHANGED disk
    BY DEF Register
  <1>2. name.category = "references" /\ name.of = m
    BY DEF Name
  <1>3. "reference.wav" \in DOMAIN base /\ base["reference.wav"] = m.audio
    BY DEF Extend
  <1>4. "reference.wav" \in DOMAIN f /\ f["reference.wav"] = m.audio
    BY <1>3 DEF Extend
  <1> HIDE DEF m, f, name, base
  <1>5. FilesOf(name, f) /\ MadeOf(DOMAIN stored, name)
    BY <1>2, <1>4 DEF FilesOf, MadeOf, Categories
  <1> QED BY <1>1, <1>5, StagesKeeps

LEMMA StoreGroupKeeps ==
  ASSUME AssetsInv, NEW r \in Runs, NEW members \in Seq(Runs), StoreGroup(r, members)
  PROVE  AssetsInv'
  <1> DEFINE refs == [i \in DOMAIN members |-> Identity(work[members[i]].name)]
             m == [provenance |-> refs, references |-> refs]
             f == File("manifest.json", m)
             name == Name("groups", m)
  <1>1. /\ Stages(r, name, f) /\ UNCHANGED disk
        /\ \A i \in DOMAIN members : Made(members[i]) /\ IntactReference(work[members[i]].name)
    BY DEF StoreGroup
  <1>2. name.category = "groups" /\ name.of.references = refs
    BY DEF Name
  <1>3. ASSUME NEW i \in DOMAIN refs
        PROVE  Reference_in(DOMAIN stored, refs[i].reference)
    <2>1. members[i] \in Runs
      OBVIOUS
    <2>2. work[members[i]].name \in DOMAIN stored
      BY <1>1, <2>1 DEF AssetsInv, WorkAsNamed
    <2>3. work[members[i]].name.category = "references"
      BY <1>1, <2>2, IntactIsReference DEF AssetsInv
    <2> QED BY <2>2, <2>3 DEF Identity, Reference_in
  <1>4. "reference.wav" \notin DOMAIN f
    BY DEF File, Extend, NoFiles
  <1> HIDE DEF m, f, name, refs
  <1>5. FilesOf(name, f) /\ MadeOf(DOMAIN stored, name)
    BY <1>2, <1>3, <1>4 DEF FilesOf, MadeOf, Categories
  <1> QED BY <1>1, <1>5, StagesKeeps

LEMMA StorePromptKeeps ==
  ASSUME AssetsInv, NEW r \in Runs, NEW of \in Runs, StorePrompt(r, of)
  PROVE  AssetsInv'
  <1> DEFINE ref == work[of].name
             m == [reference |-> Identity(ref), arrays |-> [codes |-> ref.of.audio], text |-> ref.of.transcript]
             f == Extend(File("manifest.json", m), "arrays.npz", m.arrays)
             name == Name("prompts", m)
  <1>1. Stages(r, name, f) /\ UNCHANGED disk /\ Made(of) /\ IntactReference(ref)
    BY DEF StorePrompt
  <1>2. name.category = "prompts" /\ name.of = m /\ name.of.reference.reference = ref
    BY DEF Name, Identity
  <1>3. ref \in DOMAIN stored
    BY <1>1 DEF AssetsInv, WorkAsNamed
  <1>4. ref.category = "references"
    BY <1>1, <1>3, IntactIsReference DEF AssetsInv
  <1>5. "reference.wav" \notin DOMAIN f /\ f["arrays.npz"] = m.arrays
    BY DEF File, Extend, NoFiles
  <1> HIDE DEF m, f, name, ref
  <1>6. FilesOf(name, f) /\ MadeOf(DOMAIN stored, name)
    BY <1>2, <1>3, <1>4, <1>5 DEF FilesOf, MadeOf, Reference_in, Categories
  <1> QED BY <1>1, <1>6, StagesKeeps

\* A step that leaves alone what is published, and loads and stores nothing.
LEMMA PublishedStay ==
  ASSUME AssetsInv, UNCHANGED <<stored, loaded>>,
         \A name : name.category # "staging" =>
           /\ name \in DOMAIN disk' <=> name \in DOMAIN disk
           /\ name \in DOMAIN disk => DOMAIN disk'[name] = DOMAIN disk[name]
  PROVE  PublishedWhole' /\ StoredAsNamed' /\ LoadedAsNamed'
  BY DEF AssetsInv, PublishedWhole, StoredAsNamed, LoadedAsNamed

LEMMA WriteKeeps ==
  ASSUME AssetsInv, NEW r \in Runs, NEW f, Write(r, f)
  PROVE  AssetsInv'
  <1>1. /\ disk' = Extend(disk, Staging(r, work[r].name), Extend(Staged(r), f, work[r].files[f]))
        /\ UNCHANGED <<work, stored, loaded>>
    BY DEF Write
  <1>2. Staging(r, work[r].name).category = "staging"
    BY DEF Staging, Name
  <1>3. \A name : name.category # "staging" =>
          /\ name \in DOMAIN disk' <=> name \in DOMAIN disk
          /\ name \in DOMAIN disk => DOMAIN disk'[name] = DOMAIN disk[name]
    BY <1>1, <1>2 DEF Extend
  <1>4. WorkAsNamed'
    BY <1>1 DEF AssetsInv, WorkAsNamed, Made
  <1> QED BY <1>1, <1>3, <1>4, PublishedStay DEF AssetsInv

\* What is known of the runs stays true when one of them is over, having published
\* what it has as its name.
LEMMA RunOver ==
  ASSUME AssetsInv, NEW r \in Runs, NEW w, work' = [work EXCEPT ![r] = w], w.at # "staging",
         w.at = "done" /\ w.name # NoAsset => w.name \in DOMAIN stored',
         DOMAIN stored \subseteq DOMAIN stored'
  PROVE  WorkAsNamed'
  <1>1. DOMAIN work' = Runs
    BY DEF AssetsInv, WorkAsNamed
  <1>2. ASSUME NEW s \in Runs
        PROVE  /\ work'[s].at = "staging" =>
                    FilesOf(work'[s].name, work'[s].files) /\ MadeOf(DOMAIN stored', work'[s].name)
               /\ Made(s)' => work'[s].name \in DOMAIN stored'
    <2>1. CASE s = r
      <3>1. work'[s] = w
        BY <2>1 DEF AssetsInv, WorkAsNamed
      <3> QED BY <3>1 DEF Made
    <2>2. CASE s # r
      <3>1. work'[s] = work[s]
        BY <2>2 DEF AssetsInv, WorkAsNamed
      <3>2. work[s].at = "staging" => FilesOf(work[s].name, work[s].files) /\ MadeOf(DOMAIN stored, work[s].name)
        BY DEF AssetsInv, WorkAsNamed
      <3>3. Made(s) => work[s].name \in DOMAIN stored
        BY DEF AssetsInv, WorkAsNamed
      <3> QED BY <3>1, <3>2, <3>3, MadeOfMore DEF Made
    <2> QED BY <2>1, <2>2
  <1> QED BY <1>1, <1>2 DEF WorkAsNamed

LEMMA PublishKeeps ==
  ASSUME AssetsInv, NEW r \in Runs, Publish(r)
  PROVE  AssetsInv'
  <1> DEFINE name == work[r].name
             f == work[r].files
             s == Staging(r, name)
             w == [at |-> "done", name |-> name, files |-> NoFiles]
  <1>1. /\ work[r].at = "staging" /\ DOMAIN Staged(r) = DOMAIN f
        /\ disk' = Extend(Without(disk, s), name, Staged(r))
        /\ stored' = Extend(stored, name, f)
        /\ work' = [work EXCEPT ![r] = w] /\ UNCHANGED loaded
    BY DEF Publish, Finish
  <1>2. FilesOf(name, f) /\ MadeOf(DOMAIN stored, name)
    BY <1>1 DEF AssetsInv, WorkAsNamed
  <1>3. s.category = "staging" /\ w.at = "done" /\ w.name = name
    BY DEF Staging, Name
  <1>4. DOMAIN stored' = DOMAIN stored \cup {name} /\ stored'[name] = f
        /\ \A n \in DOMAIN stored : n # name => stored'[n] = stored[n]
    BY <1>1 DEF Extend
  <1>5. DOMAIN disk' = (DOMAIN disk \ {s}) \cup {name} /\ disk'[name] = Staged(r)
        /\ \A n \in DOMAIN disk : n # s /\ n # name => disk'[n] = disk[n]
    BY <1>1 DEF Extend, Without
  <1> HIDE DEF name, f, s, w
  <1>6. PublishedWhole'
    BY <1>1, <1>3, <1>4, <1>5 DEF AssetsInv, PublishedWhole
  <1>7. StoredAsNamed'
    <2>1. ASSUME NEW n \in DOMAIN stored'
          PROVE  FilesOf(n, stored'[n]) /\ MadeOf(DOMAIN stored', n)
      <3>1. CASE n = name
        BY <1>2, <1>4, <3>1, MadeOfMore
      <3>2. CASE n # name
        <4>1. n \in DOMAIN stored /\ stored'[n] = stored[n]
          BY <1>4, <3>2
        <4>2. FilesOf(n, stored[n]) /\ MadeOf(DOMAIN stored, n)
          BY <4>1 DEF AssetsInv, StoredAsNamed
        <4> QED BY <1>4, <4>1, <4>2, MadeOfMore
      <3> QED BY <3>1, <3>2
    <2> QED BY <2>1 DEF StoredAsNamed
  <1>8. WorkAsNamed'
    BY <1>1, <1>3, <1>4, RunOver
  <1>9. LoadedAsNamed'
    BY <1>1, <1>4 DEF AssetsInv, LoadedAsNamed
  <1> QED BY <1>6, <1>7, <1>8, <1>9 DEF AssetsInv

LEMMA FailsKeeps ==
  ASSUME AssetsInv, NEW r \in Runs, Fails(r) \/ Killed(r)
  PROVE  AssetsInv'
  <1>1. \E w : /\ work' = [work EXCEPT ![r] = w] /\ w.at # "staging"
               /\ w.at = "done" => w.name = NoAsset
    <2>1. CASE Fails(r)
      <3> DEFINE w == [at |-> "done", name |-> NoAsset, files |-> NoFiles]
      <3>1. work' = [work EXCEPT ![r] = w] /\ w.at # "staging" /\ w.name = NoAsset
        BY <2>1 DEF Fails, Finish
      <3> QED BY <3>1
    <2>2. CASE Killed(r)
      <3> DEFINE w == [at |-> "dead", name |-> NoAsset, files |-> NoFiles]
      <3>1. work' = [work EXCEPT ![r] = w] /\ w.at # "staging" /\ w.at # "done"
        BY <2>2 DEF Killed
      <3> QED BY <3>1
    <2> QED BY <2>1, <2>2
  <1>2. UNCHANGED <<stored, loaded>>
    BY DEF Fails, Killed
  <1>3. WorkAsNamed'
    BY <1>1, <1>2, RunOver
  <1>4. Staging(r, work[r].name).category = "staging"
    BY DEF Staging, Name
  <1>5. \A name : name.category # "staging" =>
          /\ name \in DOMAIN disk' <=> name \in DOMAIN disk
          /\ name \in DOMAIN disk => DOMAIN disk'[name] = DOMAIN disk[name]
    BY <1>4 DEF Fails, Killed, Without
  <1> QED BY <1>2, <1>3, <1>5, PublishedStay DEF AssetsInv

LEMMA DamageKeeps ==
  ASSUME AssetsInv, NEW name \in DOMAIN disk, NEW f \in DOMAIN disk[name], Damage(name, f)
  PROVE  AssetsInv'
  <1>1. /\ disk' = [disk EXCEPT ![name] = [disk[name] EXCEPT ![f] = Damaged]]
        /\ UNCHANGED <<work, stored, loaded>>
    BY DEF Damage
  <1>2. \A n : n \in DOMAIN disk' <=> n \in DOMAIN disk
    BY <1>1
  <1>3. \A n \in DOMAIN disk : DOMAIN disk'[n] = DOMAIN disk[n]
    BY <1>1
  <1>4. WorkAsNamed'
    BY <1>1 DEF AssetsInv, WorkAsNamed, Made
  <1> QED BY <1>1, <1>2, <1>3, <1>4, PublishedStay DEF AssetsInv

LEMMA AssetsNextKeeps ==
  ASSUME GroupsAssumption, AssetsInv, [AssetsNext]_assetVars
  PROVE  AssetsInv'
  <1>1. CASE UNCHANGED assetVars
    BY <1>1 DEF assetVars, AssetsInv, PublishedWhole, StoredAsNamed, WorkAsNamed, Made, LoadedAsNamed
  <1>2. ASSUME NEW r \in Runs, NEW clip \in Clips, Register(r, clip)
        PROVE  AssetsInv'
    BY <1>2, RegisterKeeps
  <1>3. ASSUME NEW r \in Runs, NEW members \in Groups, StoreGroup(r, members)
        PROVE  AssetsInv'
    BY <1>3, StoreGroupKeeps DEF GroupsAssumption
  <1>4. ASSUME NEW r \in Runs, NEW of \in Runs, StorePrompt(r, of)
        PROVE  AssetsInv'
    BY <1>4, StorePromptKeeps
  <1>5. ASSUME NEW r \in Runs, NEW f, Write(r, f)
        PROVE  AssetsInv'
    BY <1>5, WriteKeeps
  <1>6. ASSUME NEW r \in Runs, Publish(r)
        PROVE  AssetsInv'
    BY <1>6, PublishKeeps
  <1>7. ASSUME NEW r \in Runs, Fails(r) \/ Killed(r)
        PROVE  AssetsInv'
    BY <1>7, FailsKeeps
  <1>8. ASSUME NEW name \in DOMAIN disk, name.category # "staging", Load(name)
        PROVE  AssetsInv'
    BY <1>8, LoadKeeps
  <1>9. ASSUME NEW name \in DOMAIN disk, NEW f \in DOMAIN disk[name], Damage(name, f)
        PROVE  AssetsInv'
    BY <1>9, DamageKeeps
  <1> QED BY <1>1, <1>2, <1>3, <1>4, <1>5, <1>6, <1>7, <1>8, <1>9 DEF AssetsNext

LEMMA AssetsInitHold ==
  ASSUME AssetsInit
  PROVE  AssetsInv
  <1>1. DOMAIN disk = {} /\ DOMAIN stored = {} /\ DOMAIN loaded = {}
    BY DEF AssetsInit, NoFiles
  <1>2. DOMAIN work = Runs /\ \A r \in Runs : work[r].at = "new"
    BY DEF AssetsInit
  <1> QED BY <1>1, <1>2 DEF AssetsInv, PublishedWhole, StoredAsNamed, WorkAsNamed, LoadedAsNamed, Made

\* store.py: what a load returns is what its name promises, so it is what was
\* published: audio, arrays and every reference of a group.
LEMMA LoadedAsPublished ==
  ASSUME AssetsInv
  PROVE  LoadedAsStored
  <1>1. ASSUME NEW name \in DOMAIN stored, name.category = "references"
        PROVE  stored[name]["reference.wav"] = name.of.audio
    BY <1>1 DEF AssetsInv, StoredAsNamed, FilesOf
  <1>2. ASSUME NEW name \in DOMAIN loaded
        PROVE  /\ name \in DOMAIN stored /\ ValueOf(name, loaded[name])
               /\ FilesOf(name, stored[name]) /\ MadeOf(DOMAIN stored, name)
    BY <1>2 DEF AssetsInv, LoadedAsNamed, StoredAsNamed
  <1>3. ASSUME NEW name \in DOMAIN loaded, name.category = "references"
        PROVE  loaded[name].audio = stored[name]["reference.wav"]
    BY <1>1, <1>2, <1>3 DEF ValueOf
  <1>4. ASSUME NEW name \in DOMAIN loaded, name.category = "groups", NEW i \in DOMAIN loaded[name]
        PROVE  loaded[name][i].audio = stored[name.of.references[i].reference]["reference.wav"]
    <2> DEFINE ref == name.of.references[i].reference
    <2>1. i \in DOMAIN name.of.references /\ loaded[name][i].audio = ref.of.audio
      BY <1>2, <1>4 DEF ValueOf
    <2>2. ref \in DOMAIN stored /\ ref.category = "references"
      BY <1>2, <1>4, <2>1 DEF MadeOf, Reference_in
    <2> QED BY <1>1, <2>1, <2>2
  <1>5. ASSUME NEW name \in DOMAIN loaded, name.category = "prompts"
        PROVE  /\ loaded[name].arrays = stored[name]["arrays.npz"]
               /\ loaded[name].voice.audio = stored[name.of.reference.reference]["reference.wav"]
    <2> DEFINE ref == name.of.reference.reference
    <2>1. ref \in DOMAIN stored /\ ref.category = "references"
      BY <1>2, <1>5 DEF MadeOf, Reference_in
    <2> QED BY <1>1, <1>2, <1>5, <2>1 DEF ValueOf, FilesOf
  <1>6. \A name \in DOMAIN loaded : name.category \in Categories
    BY <1>2 DEF FilesOf
  <1> QED BY <1>3, <1>4, <1>5, <1>6 DEF LoadedAsStored, Categories

\* store.py: _publish and the loads.  A name of an asset is never seen with files
\* missing, and what is loaded under it is what was published and consented, whatever
\* commands run at once, die or fail, and whatever files are damaged.
THEOREM AssetsAreWhole ==
  ASSUME GroupsAssumption
  PROVE  AssetsSpec => []AssetsHold
  <1>1. AssetsInv => AssetsHold
    BY LoadedAsPublished DEF AssetsInv, AssetsHold
  <1> QED BY <1>1, AssetsInitHold, AssetsNextKeeps, PTL DEF AssetsSpec

-----------------------------------------------------------------------------
(* The adapters: the voice of the audio *)

AdapterKinds == {"qwen3-tts", "irodori-tts", "irodori-audiocpp"}
VoiceAt == IF kind = "qwen3-tts" THEN 4 ELSE IF kind = "irodori-tts" THEN 7 ELSE 2
Last == IF kind = "qwen3-tts" THEN 7 ELSE IF kind = "irodori-tts" THEN 11 ELSE 15

CallNames ==
  {"verify", "library", "family", "check", "text", "get_model", "from_pretrained", "generate", "build", "restore",
   "registry", "model", "options", "session", "request", "ready", "voice", "reference", "run", "finish"}

\* The calls of an adapter, one after the other.
LEMMA CallsInOrder ==
  ASSUME kind \in AdapterKinds
  PROVE  \A i \in 1 .. Last :
           /\ Calls[i] = "finish" <=> i = Last
           /\ Calls[i] = "voice" <=> i = VoiceAt
           /\ Calls[i] \in CallNames
  <1>1. CASE kind = "qwen3-tts"
    BY <1>1 DEF Calls, QwenCalls, VoiceAt, Last, CallNames
  <1>2. CASE kind = "irodori-tts"
    BY <1>2 DEF Calls, IrodoriCalls, VoiceAt, Last, CallNames
  <1>3. CASE kind = "irodori-audiocpp"
    BY <1>3 DEF Calls, AudioCppCalls, VoiceAt, Last, CallNames
  <1> QED BY <1>1, <1>2, <1>3 DEF AdapterKinds

\* Loading the model finds no voice, so it is looked for in every request.
LEMMA VoiceNotLoaded ==
  ASSUME kind \in AdapterKinds
  PROVE  "voice" \notin LoadCalls
  BY DEF AdapterKinds, LoadCalls, QwenLoads, IrodoriLoads, AudioCppLoads

\* Since its call "voice" a request has the voice of its own provenance.
AdapterInv ==
  /\ kind \in AdapterKinds /\ at \in Nat
  /\ Working => at < Last
  /\ Working /\ VoiceAt <= at =>
       asked.digest \in DOMAIN cache /\ cache[asked.digest] = asked.provenance

LEMMA StepVoice ==
  ASSUME AdapterInv, Step
  PROVE  AdapterInv'
  <1>1. /\ Working /\ Call # "finish" /\ at' = at + 1 /\ kind' = kind /\ asked' = asked
        /\ Call = "voice" => Found(asked.digest)
        /\ IF Skips THEN UNCHANGED <<model, patched, native, cache, files, misused>> ELSE Works(Call)
    BY DEF Step
  <1>2. at + 1 \in 1 .. Last /\ Last' = Last /\ VoiceAt' = VoiceAt /\ Last \in Nat /\ VoiceAt \in Nat
    BY <1>1 DEF AdapterInv, Last, VoiceAt
  <1>3. at' < Last'
    BY <1>1, <1>2, CallsInOrder DEF AdapterInv, Call
  <1>4. ASSUME VoiceAt' <= at'
        PROVE  asked.digest \in DOMAIN cache' /\ cache'[asked.digest] = asked.provenance
    <2>1. CASE at' = VoiceAt
      <3>1. Call = "voice"
        BY <1>1, <1>2, <2>1, CallsInOrder DEF AdapterInv, Call
      <3>2. Works("voice")
        BY <1>1, <3>1, VoiceNotLoaded DEF Skips, AdapterInv
      <3>3. cache' = [d \in DOMAIN cache \cup {asked.digest} |-> IF d \in DOMAIN cache THEN cache[d] ELSE Assets[d]]
        BY <3>2 DEF Works
      <3> QED BY <1>1, <3>1, <3>3 DEF Found
    <2>2. CASE at' # VoiceAt
      <3>1. Call # "voice" /\ VoiceAt <= at
        BY <1>1, <1>2, <1>4, <2>2, CallsInOrder DEF AdapterInv, Call
      <3>2. Call \in CallNames
        BY <1>2, CallsInOrder DEF AdapterInv, Call
      <3>3. cache' = cache
        <4>1. CASE Skips
          BY <1>1, <4>1
        <4>2. CASE ~Skips
          BY <1>1, <3>1, <3>2, <4>2 DEF Works, CallNames
        <4> QED BY <4>1, <4>2
      <3> QED BY <1>1, <3>1, <3>3 DEF AdapterInv
    <2> QED BY <2>1, <2>2
  <1>5. kind' \in AdapterKinds /\ at' \in Nat
    BY <1>1 DEF AdapterInv
  <1> QED BY <1>1, <1>3, <1>4, <1>5 DEF AdapterInv, Working

LEMMA AdapterKeeps ==
  ASSUME AdapterInv, [AdapterNext]_adapterVars
  PROVE  AdapterInv'
  <1>1. CASE \E u \in Utterances : TakeRequest(u)
    BY <1>1 DEF TakeRequest, AdapterInv, Working, VoiceAt, Last
  <1>2. CASE Step
    BY <1>2, StepVoice
  <1>3. CASE Conclude
    BY <1>3 DEF Conclude, Unwinds, AdapterInv, Working
  <1>4. CASE CallFails
    BY <1>4 DEF CallFails, Unwinds, AdapterInv, Working
  <1>5. CASE ReferenceBreaks
    BY <1>5 DEF ReferenceBreaks, AdapterInv, Working
  <1>6. CASE UNCHANGED adapterVars
    BY <1>6 DEF adapterVars, AdapterInv, Working, VoiceAt, Last
  <1> QED BY <1>1, <1>2, <1>3, <1>4, <1>5, <1>6 DEF AdapterNext

\* qwen.py and irodori.py: _prompt and _group; audiocpp.py; service.py: validate_wav.  For
\* every adapter, whatever requests a process served before and whatever calls of them
\* failed: audio is made with the voice of the profile that was asked for, and the service
\* does not refuse it.
THEOREM VoicesBelong ==
  ASSUME KindsAssumption
  PROVE  AdapterSpec => VoiceIsProfiles
  <1>1. AdapterInit => AdapterInv
    <2>1. AdapterInit => kind \in Kinds /\ at = 0 /\ asked = NoUtterance
      BY Zenon DEF AdapterInit
    <2>2. kind \in Kinds => kind \in AdapterKinds
      BY Zenon DEF KindsAssumption, AdapterKinds
    <2> QED BY <2>1, <2>2 DEF AdapterInv, Working
  <1>2. ASSUME AdapterInv, Conclude
        PROVE  voice' = asked.provenance /\ Playable(sound)
    <2>1. Working /\ Call = "finish" /\ ~CannotDo(Call) /\ voice' = cache[asked.digest]
      BY <1>2 DEF Conclude
    <2>2. at + 1 = Last /\ VoiceAt <= at
      BY <1>2, <2>1, CallsInOrder DEF AdapterInv, Call, Last, VoiceAt, AdapterKinds
    <2>3. Converted
      BY <2>1 DEF CannotDo
    <2>4. QwenRate \in Rates
      BY DEF QwenRate, Rates
    <2>5. Playable(sound)
      <3>1. CASE kind = "qwen3-tts"
        BY <2>3, <2>4, <3>1 DEF Converted, QwenWav, Playable
      <3>2. CASE kind # "qwen3-tts"
        BY <2>3, <3>2 DEF Converted, IrodoriWav, Playable
      <3> QED BY <3>1, <3>2
    <2> QED BY <1>2, <2>1, <2>2, <2>5 DEF AdapterInv
  <1> QED BY <1>1, <1>2, AdapterKeeps, PTL DEF AdapterSpec, VoiceIsProfiles
=============================================================================
