---------------------------- MODULE GatewayProofs ----------------------------
(***************************************************************************)
(* What the gateway guarantees beside speech, search and memory, component *)
(* by component.  ToolExecution, for every set of threads, paths, contents *)
(* and permissions: an approval starts at most one execution, and a write  *)
(* replaces what its approval showed, because the writers exclude each other*)
(* from their last look at the target to its replacement.  Participation, for*)
(* every set of operations and of documents, every budget of tools and every*)
(* number of inference requests and of changes: the gate counts what runs, a*)
(* candidate is spoken once, and what is spoken was read again and quotes  *)
(* nothing that came late.  PreferenceEvaluation with the ModelRegistry in it,*)
(* for every set of commands, calls, reviewers and exports and every dataset:*)
(* what is selected resolves, a session keeps to one model and one adapter, a*)
(* pair has one current vote, and what is exported for training is what a  *)
(* reviewer liked, of a scenario that allows it.  ResidentFeedback, for    *)
(* every set of windows and of what is said in them and every bound: a     *)
(* profile changes only as its window was shown it, and what is taken back *)
(* gives way to what was there before.                                     *)
(***************************************************************************)
EXTENDS ToolExecution, Participation, PreferenceEvaluation, ResidentFeedback, FiniteSetTheorems,
        SequenceTheorems, WellFoundedInduction, TLAPS

-----------------------------------------------------------------------------
(* ToolExecution *)

\* The call of a write is about a write, and it holds the write lock from the
\* temporary file to the replacement.
Writing ==
  \A t \in Threads :
    /\ calls[t].pc \in {"lock", "temporary", "replace"} => Inv(t).tool = "files.write"
    /\ calls[t].pc \in {"temporary", "replace"} => writeLock = t

\* Past the last look the target is what was shown, unless another program has
\* touched it since.
StillShown ==
  \A t \in Threads : calls[t].pc = "replace" /\ ~calls[t].touched => Matches(t)

ToolInv == ToolTypeOK /\ OneExecutionPerApproval /\ Writing /\ StillShown

\* What the code assumes of its callers and of its limits.
Assumptions == ThreadsAssumption /\ OutputAssumption /\ MaxEdits \in Nat

\* The writes among the invocations.
Writes == [tool : {"files.write"}, path : Paths, text : Texts, expected : Hashes]

-----------------------------------------------------------------------------
(* Calls *)

\* An invocation of files.write names a path, a text and what it expects.
LEMMA WriteInvocation ==
  ASSUME NEW i \in Invocations \cup {NoInvocation}, i.tool = "files.write"
  PROVE  i \in Writes /\ i \in Invocations
  BY DEF Invocations, NoInvocation, Writes

\* The step of one thread's call leaves the calls of the others alone.
LEMMA OtherCalls ==
  ASSUME NEW t \in Threads, NEW c, calls \in [Threads -> CallRecords],
         calls' = [calls EXCEPT ![t] = c]
  PROVE  calls'[t] = c /\ \A u \in Threads \ {t} : calls'[u] = calls[u]
  OBVIOUS

\* Nothing is being done.
LEMMA NoCallType ==
  ASSUME Assumptions
  PROVE  /\ NoCall \in CallRecords
         /\ NoCall.pc = "idle" /\ ~NoCall.touched
  BY DEF NoCall, CallRecords, Assumptions, OutputAssumption

\* At the start nothing is approved and nothing is done.
LEMMA ToolInitInv ==
  ASSUME Assumptions, ToolInit
  PROVE  ToolInv
  <1>1. ToolTypeOK
    <2>1. calls \in [Threads -> CallRecords]
      BY NoCallType DEF ToolInit
    <2>2. /\ granted \in Contexts /\ offered \subseteq Invocations
          /\ writeLock \in Threads \cup {NoThread} /\ edits \in 0 .. MaxEdits
      BY DEF ToolInit, Assumptions
    <2>3. files \in [Paths -> Nodes]
      BY DEF ToolInit, Nodes
    <2>4. /\ grants \in [Invocations -> GrantRecords]
          /\ given \in [Invocations -> Nat] /\ started \in [Invocations -> Nat]
      BY DEF ToolInit, GrantRecords
    <2> QED BY <2>1, <2>2, <2>3, <2>4 DEF ToolTypeOK
  <1>2. OneExecutionPerApproval
    BY DEF ToolInit, OneExecutionPerApproval
  <1>3. Writing /\ StillShown
    BY NoCallType DEF ToolInit, Writing, StillShown
  <1> QED BY <1>1, <1>2, <1>3 DEF ToolInv

-----------------------------------------------------------------------------
(* Types *)

\* What a thread reads from a process or finds in a directory, and what it does
\* with it: the call it makes stays one.
LEMMA CallStep ==
  ASSUME Assumptions, ToolTypeOK, NEW t \in Threads, Step(t)
  PROVE  calls' \in [Threads -> CallRecords]
  <1>1. calls \in [Threads -> CallRecords] /\ calls[t] \in CallRecords
    BY DEF ToolTypeOK
  <1>2. ASSUME NEW c \in CallRecords, calls' = [calls EXCEPT ![t] = c]
        PROVE  calls' \in [Threads -> CallRecords]
    BY <1>1, <1>2
  <1>3. CASE Return(t)
    BY <1>2, <1>3, NoCallType DEF Return
  <1>4. ASSUME NEW arguments \in WriteArguments, NEW opened \in BOOLEAN,
               OpenTemporary(t, arguments, opened)
        PROVE  calls' \in [Threads -> CallRecords]
    <2>1. CASE calls' = [calls EXCEPT ![t].pc = "temporary"]
      BY <1>1, <2>1 DEF CallRecords
    <2> QED BY <1>3, <1>4, <2>1 DEF OpenTemporary
  <1>5. CASE CheckAgain(t)
    <2>1. CASE calls' = [calls EXCEPT ![t].pc = "replace"]
      BY <1>1, <2>1 DEF CallRecords
    <2> QED BY <1>3, <1>5, <2>1 DEF CheckAgain
  <1>6. CASE Replace(t) \/ Reap(t) \/ EndOfList(t)
    BY <1>3, <1>6 DEF Replace, Reap, EndOfList
  <1>7. ASSUME NEW arguments \in ProcessArguments, NEW start \in Starts, Launch(t, arguments, start)
        PROVE  calls' \in [Threads -> CallRecords]
    <2>1. CASE calls' = [calls EXCEPT ![t].pc = "run", ![t].todo = {"command", "child"}]
      <3>1. calls' = [calls EXCEPT ![t] = [calls[t] EXCEPT !.pc = "run",
                                                          !.todo = {"command", "child"}]]
        BY <1>1, <2>1
      <3>2. [calls[t] EXCEPT !.pc = "run", !.todo = {"command", "child"}] \in CallRecords
        BY <1>1 DEF CallRecords
      <3> QED BY <1>2, <3>1, <3>2
    <2> QED BY <1>3, <1>7, <2>1 DEF Launch
  <1>8. CASE TimesOut(t)
    BY <1>1, <1>8 DEF TimesOut, CallRecords
  <1>9. CASE Kill(t)
    <2>1. calls' = [calls EXCEPT ![t] = [calls[t] EXCEPT !.pc = "reap", !.todo = {}]]
      BY <1>1, <1>9 DEF Kill
    <2>2. [calls[t] EXCEPT !.pc = "reap", !.todo = {}] \in CallRecords
      BY <1>1 DEF CallRecords
    <2> QED BY <1>2, <2>1, <2>2
  <1>10. ASSUME NEW n \in 1 .. 2, Drain(t, n)
         PROVE  calls' \in [Threads -> CallRecords]
    <2>1. calls[t].out + Accepted(calls[t], n) \in 0 .. MaxOutput
      BY <1>1 DEF Accepted, CallRecords, Assumptions, OutputAssumption
    <2>2. [calls[t] EXCEPT !.out = @ + Accepted(calls[t], n),
                           !.cut = @ \/ Accepted(calls[t], n) < n] \in CallRecords
      BY <1>1, <2>1 DEF CallRecords
    <2>3. calls' = [calls EXCEPT ![t] = [calls[t] EXCEPT !.out = @ + Accepted(calls[t], n),
                                           !.cut = @ \/ Accepted(calls[t], n) < n]]
      BY <1>1, <1>10 DEF Drain
    <2> QED BY <1>2, <2>2, <2>3
  <1>11. ASSUME NEW m \in {"command", "child"}, Exit(t, m)
         PROVE  calls' \in [Threads -> CallRecords]
    <2>1. [calls[t] EXCEPT !.todo = @ \ {m}] \in CallRecords
      BY <1>1 DEF CallRecords
    <2>2. calls' = [calls EXCEPT ![t] = [calls[t] EXCEPT !.todo = @ \ {m}]]
      BY <1>1, <1>11 DEF Exit
    <2> QED BY <1>2, <2>1, <2>2
  <1>12. ASSUME NEW p \in Paths, NEW fits \in BOOLEAN, NextEntry(t, p, fits)
         PROVE  calls' \in [Threads -> CallRecords]
    <2> DEFINE c == calls[t]
               taken == [c EXCEPT !.todo = @ \ {p}]
    <2>1. /\ LeftOut(c) \in CallRecords /\ taken \in CallRecords /\ LeftOut(taken) \in CallRecords
          /\ [taken EXCEPT !.seen = @ \cup {p}] \in CallRecords
      BY <1>1 DEF LeftOut, CallRecords
    <2>2. PICK r \in {LeftOut(c), taken, LeftOut(taken), [taken EXCEPT !.seen = @ \cup {p}]} :
            calls' = [calls EXCEPT ![t] = r]
      BY <1>12 DEF NextEntry
    <2> HIDE DEF c, taken
    <2> QED BY <1>2, <2>1, <2>2
  <1> QED
    BY <1>4, <1>5, <1>6, <1>7, <1>8, <1>9, <1>10, <1>11, <1>12 DEF Step

\* What a step of a call leaves alone.
LEMMA StepFrame ==
  ASSUME NEW t \in Threads, Step(t)
  PROVE  UNCHANGED <<granted, offered, grants, given, started, edits>>
  BY DEF Step, OpenTemporary, CheckAgain, Replace, Launch, TimesOut, Kill, Reap, Drain, Exit,
         NextEntry, EndOfList

\* A step that is not one of a write leaves the files and the lock alone, and
\* neither begins nor ends a stage of a write.
LEMMA OtherStep ==
  ASSUME Assumptions, ToolTypeOK, NEW t \in Threads, Step(t), calls[t].pc \notin {"lock", "temporary", "replace"}
  PROVE  /\ UNCHANGED <<files, writeLock>>
         /\ calls'[t].pc \notin {"lock", "temporary", "replace"}
         /\ \A u \in Threads \ {t} : calls'[u] = calls[u]
  <1>1. calls \in [Threads -> CallRecords] /\ calls[t] \in CallRecords
    BY DEF ToolTypeOK
  <1> USE <1>1
  <1>2. UNCHANGED <<files, writeLock>>
    BY DEF Step, OpenTemporary, CheckAgain, Replace, Launch, TimesOut, Kill, Reap, Drain, Exit,
           NextEntry, EndOfList
  <1>3. CASE Return(t)
    BY <1>2, <1>3, NoCallType DEF Return
  <1>4. ASSUME NEW arguments \in ProcessArguments, NEW start \in Starts, Launch(t, arguments, start)
        PROVE  /\ calls'[t].pc \notin {"lock", "temporary", "replace"}
               /\ \A u \in Threads \ {t} : calls'[u] = calls[u]
    BY <1>3, <1>4 DEF Launch, CallRecords
  <1>5. CASE TimesOut(t) \/ Kill(t)
    BY <1>2, <1>5 DEF TimesOut, Kill, CallRecords
  <1>6. CASE Reap(t) \/ EndOfList(t)
    BY <1>3, <1>6 DEF Reap, EndOfList
  <1>7. ASSUME NEW n \in 1 .. 2, Drain(t, n)
        PROVE  /\ calls'[t].pc \notin {"lock", "temporary", "replace"}
               /\ \A u \in Threads \ {t} : calls'[u] = calls[u]
    BY <1>7 DEF Drain, CallRecords
  <1>8. ASSUME NEW m \in {"command", "child"}, Exit(t, m)
        PROVE  /\ calls'[t].pc \notin {"lock", "temporary", "replace"}
               /\ \A u \in Threads \ {t} : calls'[u] = calls[u]
    BY <1>8 DEF Exit, CallRecords
  <1>9. ASSUME NEW p \in Paths, NEW fits \in BOOLEAN, NextEntry(t, p, fits)
        PROVE  /\ calls'[t].pc \notin {"lock", "temporary", "replace"}
               /\ \A u \in Threads \ {t} : calls'[u] = calls[u]
    BY <1>9 DEF NextEntry, LeftOut, CallRecords
  <1> QED
    BY <1>2, <1>4, <1>5, <1>6, <1>7, <1>8, <1>9
    DEF Step, OpenTemporary, CheckAgain, Replace

\* The stages of a write, one after the other: it takes the lock, looks once
\* more, replaces, and gives the lock back wherever it ends.
WriteMoves(t) ==
  /\ \A u \in Threads \ {t} : calls'[u] = calls[u]
  /\ \/ calls'[t].pc = "idle" /\ writeLock' = NoThread /\ calls[t].pc \in {"temporary", "replace"}
     \/ calls'[t].pc = "idle" /\ writeLock' = writeLock /\ calls[t].pc = "lock"
     \/ /\ calls[t].pc = "lock" /\ calls'[t].pc = "temporary"
        /\ writeLock = NoThread /\ writeLock' = t
     \/ /\ calls[t].pc = "temporary" /\ calls'[t].pc = "replace" /\ writeLock' = writeLock
        /\ Matches(t)
  /\ calls'[t].pc # "idle" => Inv(t)' = Inv(t) /\ calls'[t].touched = calls[t].touched
  /\ calls[t].pc # "replace" => files' = files
  /\ files' # files => files' = [files EXCEPT ![Inv(t).path] = Inv(t).text]

\* A step of a write is one of these.
LEMMA WriteStep ==
  ASSUME Assumptions, ToolTypeOK, NEW t \in Threads, Step(t),
         calls[t].pc \in {"lock", "temporary", "replace"}
  PROVE  WriteMoves(t)
  <1>1. calls \in [Threads -> CallRecords] /\ calls[t] \in CallRecords
    BY DEF ToolTypeOK
  <1>2. NoCall.pc = "idle"
    BY NoCallType
  <1> USE <1>1, <1>2
  <1>3. ASSUME NEW arguments \in WriteArguments, NEW opened \in BOOLEAN,
               OpenTemporary(t, arguments, opened)
        PROVE  WriteMoves(t)
    <2>1. calls[t].pc = "lock" /\ writeLock = NoThread /\ files' = files
      BY <1>3 DEF OpenTemporary
    <2>2. CASE writeLock' = t /\ calls' = [calls EXCEPT ![t].pc = "temporary"]
      <3>1. calls' = [calls EXCEPT ![t] = [calls[t] EXCEPT !.pc = "temporary"]]
        BY <2>2
      <3>2. calls'[t] = [calls[t] EXCEPT !.pc = "temporary"]
        BY <3>1
      <3>3. calls'[t].pc = "temporary" /\ calls'[t].inv = calls[t].inv
            /\ calls'[t].touched = calls[t].touched
        BY <3>2 DEF CallRecords
      <3> QED BY <2>1, <2>2, <3>1, <3>3 DEF WriteMoves, Inv
    <2>3. CASE Return(t) /\ writeLock' = writeLock
      BY <2>1, <2>3 DEF WriteMoves, Return
    <2> QED BY <1>3, <2>2, <2>3 DEF OpenTemporary
  <1>4. CASE CheckAgain(t)
    <2>1. calls[t].pc = "temporary" /\ files' = files
      BY <1>4 DEF CheckAgain
    <2>2. CASE Recheck(t)
      <3>1. /\ calls' = [calls EXCEPT ![t] = [calls[t] EXCEPT !.pc = "replace"]]
            /\ writeLock' = writeLock /\ Matches(t)
        BY <1>4, <2>2 DEF CheckAgain, Recheck
      <3>2. calls'[t] = [calls[t] EXCEPT !.pc = "replace"]
        BY <3>1
      <3>3. calls'[t].pc = "replace" /\ calls'[t].inv = calls[t].inv
            /\ calls'[t].touched = calls[t].touched
        BY <3>2 DEF CallRecords
      <3> QED BY <2>1, <3>1, <3>3 DEF WriteMoves, Inv
    <2>3. CASE ~Recheck(t)
      BY <1>4, <2>1, <2>3 DEF WriteMoves, CheckAgain, Return, Unlock
    <2> QED BY <2>2, <2>3
  <1>5. CASE Replace(t)
    BY <1>5 DEF WriteMoves, Replace, Return, Unlock
  <1>6. \/ \E arguments \in WriteArguments, opened \in BOOLEAN : OpenTemporary(t, arguments, opened)
        \/ CheckAgain(t) \/ Replace(t)
    <2>1. /\ \A arguments \in ProcessArguments, start \in Starts : ~Launch(t, arguments, start)
          /\ ~TimesOut(t) /\ ~Kill(t) /\ ~EndOfList(t)
      BY DEF Launch, TimesOut, Kill, EndOfList
    <2>2. /\ ~Reap(t) /\ \A n \in 1 .. 2 : ~Drain(t, n)
          /\ \A m \in {"command", "child"} : ~Exit(t, m)
      BY DEF Reap, Drain, Exit
    <2>3. \A p \in Paths, fits \in BOOLEAN : ~NextEntry(t, p, fits)
      BY DEF NextEntry
    <2> QED BY <2>1, <2>2, <2>3 DEF Step
  <1> QED BY <1>3, <1>4, <1>5, <1>6
-----------------------------------------------------------------------------
(* The steps beside those of a call *)

\* A call begins: its thread was idle, and the others go on as they were.
LEMMA ExecuteStep ==
  ASSUME Assumptions, ToolTypeOK, NEW t \in Threads, NEW i \in offered, NEW trusted \in Trusted,
         Execute(t, i, trusted)
  PROVE  /\ UNCHANGED <<granted, files, offered, given, writeLock, edits>>
         /\ \/ UNCHANGED <<grants, started, calls>>
            \/ /\ i \in Invocations /\ grants[i] = "live"
               /\ grants' = [grants EXCEPT ![i] = "consumed"]
               /\ started' = [started EXCEPT ![i] = started[i] + 1]
               /\ calls' = [calls EXCEPT ![t] = [NoCall EXCEPT !.pc = FirstStage(i), !.inv = i]]
  <1>1. i \in Invocations
    BY DEF ToolTypeOK
  <1>2. i.tool \in {"files.write", "processes.run"}
    BY <1>1 DEF Invocations
  <1>3. ASSUME Decision(trusted, i.tool, grants[i]) = "allow"
        PROVE  grants[i] = "live"
    BY <1>2, <1>3, Zenon DEF Decision, Always, Readers
  <1> QED BY <1>1, <1>3 DEF Execute, Consume

\* What a call of an executor is when it begins.
LEMMA FirstCall ==
  ASSUME Assumptions, NEW i \in Invocations
  PROVE  LET c == [NoCall EXCEPT !.pc = FirstStage(i), !.inv = i]
         IN  /\ c \in CallRecords /\ c.inv = i /\ c.pc \in {"lock", "launch"}
             /\ c.pc = "lock" => i.tool = "files.write"
  BY NoCallType DEF FirstStage, CallRecords

\* A call that only reads begins.
LEMMA ReadStep ==
  ASSUME Assumptions, ToolTypeOK, NEW t \in Threads, NEW trusted \in Trusted, Read(t, trusted)
  PROVE  /\ calls' \in [Threads -> CallRecords]
         /\ calls'[t].pc = "read"
         /\ \A u \in Threads \ {t} : calls'[u] = calls[u]
         /\ UNCHANGED <<granted, files, offered, grants, given, started, writeLock, edits>>
  <1> DEFINE c == [NoCall EXCEPT !.pc = "read", !.todo = Paths]
  <1>1. c \in CallRecords /\ c.pc = "read"
    BY NoCallType DEF CallRecords
  <1>2. calls \in [Threads -> CallRecords]
    BY DEF ToolTypeOK
  <1>3. calls' = [calls EXCEPT ![t] = c]
    BY DEF Read
  <1> HIDE DEF c
  <1>4. UNCHANGED <<granted, files, offered, grants, given, started, writeLock, edits>>
    BY DEF Read
  <1> QED BY <1>1, <1>2, <1>3, <1>4

\* Another program writes: only the marks of the writers move.
LEMMA EditStep ==
  ASSUME Assumptions, ToolTypeOK, NEW p \in Paths, NEW node \in Nodes, Edit(p, node)
  PROVE  /\ calls' \in [Threads -> CallRecords]
         /\ \A u \in Threads : /\ calls'[u].pc = calls[u].pc /\ calls'[u].inv = calls[u].inv
                               /\ calls[u].pc = "replace" => calls'[u].touched
         /\ files' \in [Paths -> Nodes] /\ edits' \in 0 .. MaxEdits
         /\ UNCHANGED <<granted, offered, grants, given, started, writeLock>>
  <1>1. calls \in [Threads -> CallRecords]
    BY DEF ToolTypeOK
  <1>2. \A u \in Threads : LET c == [calls[u] EXCEPT !.touched = @ \/ calls[u].pc = "replace"]
                           IN  /\ c \in CallRecords /\ c.pc = calls[u].pc /\ c.inv = calls[u].inv
                               /\ calls[u].pc = "replace" => c.touched
    BY <1>1 DEF CallRecords
  <1>3. calls' = [u \in Threads |-> [calls[u] EXCEPT !.touched = @ \/ calls[u].pc = "replace"]]
    BY DEF Edit, Touch
  <1>4. files' \in [Paths -> Nodes] /\ edits' \in 0 .. MaxEdits
    BY DEF Edit, ToolTypeOK, Assumptions
  <1>5. UNCHANGED <<granted, offered, grants, given, started, writeLock>>
    BY DEF Edit
  <1> QED BY <1>2, <1>3, <1>4, <1>5

-----------------------------------------------------------------------------
(* The invariant is inductive *)

\* The types.
LEMMA ToolTypeStep ==
  ASSUME Assumptions, ToolInv, ToolNext
  PROVE  ToolTypeOK'
  <1>1. ToolTypeOK /\ Writing
    BY DEF ToolInv
  <1>2. ASSUME NEW t \in Threads, Step(t)
        PROVE  ToolTypeOK'
    <2>1. UNCHANGED <<granted, offered, grants, given, started, edits>>
      BY <1>2, StepFrame
    <2>2. calls' \in [Threads -> CallRecords]
      BY <1>1, <1>2, CallStep
    <2>3. files' \in [Paths -> Nodes] /\ writeLock' \in Threads \cup {NoThread}
      <3>1. CASE calls[t].pc \in {"lock", "temporary", "replace"}
        <4>1. WriteMoves(t)
          BY <1>1, <1>2, <3>1, WriteStep
        <4>2. Inv(t).tool = "files.write" /\ Inv(t) \in Invocations \cup {NoInvocation}
          BY <1>1, <3>1 DEF Writing, Inv, ToolTypeOK, CallRecords
        <4>3. Inv(t).text \in Nodes
          BY <4>2, WriteInvocation DEF Writes, Nodes
        <4> QED BY <1>1, <4>1, <4>3 DEF WriteMoves, ToolTypeOK
      <3>2. CASE calls[t].pc \notin {"lock", "temporary", "replace"}
        BY <1>1, <1>2, <3>2, OtherStep DEF ToolTypeOK
      <3> QED BY <3>1, <3>2
    <2> QED BY <1>1, <2>1, <2>2, <2>3 DEF ToolTypeOK
  <1>3. ASSUME NEW p \in Paths, Plan(p)
        PROVE  ToolTypeOK'
    <2>1. offered' \subseteq Invocations
      BY <1>1, <1>3 DEF Plan, Preparable, PreparedWrite, PreparedProcess, ToolTypeOK, Invocations
    <2> QED BY <1>1, <1>3, <2>1 DEF Plan, ToolTypeOK
  <1>4. ASSUME NEW i \in offered, Grant(i) \/ Expire(i)
        PROVE  ToolTypeOK'
    <2>1. i \in Invocations /\ given[i] \in Nat
      BY <1>1 DEF ToolTypeOK
    <2>2. grants' \in [Invocations -> GrantRecords] /\ given' \in [Invocations -> Nat]
      BY <1>1, <1>4, <2>1 DEF Grant, Expire, ToolTypeOK, GrantRecords
    <2>3. UNCHANGED <<granted, files, offered, started, writeLock, calls, edits>>
      BY <1>4 DEF Grant, Expire
    <2> QED BY <1>1, <2>2, <2>3 DEF ToolTypeOK
  <1>5. ASSUME NEW t \in Threads, NEW i \in offered, NEW trusted \in Trusted,
               Execute(t, i, trusted)
        PROVE  ToolTypeOK'
    <2>1. CASE UNCHANGED <<grants, started, calls>>
      BY <1>1, <1>5, <2>1, ExecuteStep DEF ToolTypeOK
    <2>2. CASE ~UNCHANGED <<grants, started, calls>>
      <3>1. /\ i \in Invocations
            /\ grants' = [grants EXCEPT ![i] = "consumed"]
            /\ started' = [started EXCEPT ![i] = started[i] + 1]
            /\ calls' = [calls EXCEPT ![t] = [NoCall EXCEPT !.pc = FirstStage(i), !.inv = i]]
            /\ UNCHANGED <<granted, files, offered, given, writeLock, edits>>
        BY <1>1, <1>5, <2>2, ExecuteStep
      <3>2. [NoCall EXCEPT !.pc = FirstStage(i), !.inv = i] \in CallRecords
        BY <3>1, FirstCall
      <3>3. calls' \in [Threads -> CallRecords]
        BY <1>1, <3>1, <3>2 DEF ToolTypeOK
      <3>4. grants' \in [Invocations -> GrantRecords] /\ started' \in [Invocations -> Nat]
        BY <1>1, <3>1 DEF ToolTypeOK, GrantRecords
      <3> QED BY <1>1, <3>1, <3>3, <3>4 DEF ToolTypeOK
    <2> QED BY <2>1, <2>2
  <1>6. ASSUME NEW t \in Threads, NEW trusted \in Trusted, Read(t, trusted)
        PROVE  ToolTypeOK'
    BY <1>1, <1>6, ReadStep DEF ToolTypeOK
  <1>7. ASSUME NEW p \in Paths, NEW node \in Nodes, Edit(p, node)
        PROVE  ToolTypeOK'
    BY <1>1, <1>7, EditStep DEF ToolTypeOK
  <1> QED BY <1>2, <1>3, <1>4, <1>5, <1>6, <1>7 DEF ToolNext

\* The approvals and the executions of an invocation: an execution takes the
\* live approval with it, and only a new approval makes another one.
LEMMA CountsStep ==
  ASSUME Assumptions, ToolInv, ToolNext
  PROVE  OneExecutionPerApproval'
  <1>1. ToolTypeOK /\ OneExecutionPerApproval
    BY DEF ToolInv
  <1>2. /\ grants \in [Invocations -> GrantRecords]
        /\ given \in [Invocations -> Nat] /\ started \in [Invocations -> Nat]
    BY <1>1 DEF ToolTypeOK
  <1>3. ASSUME UNCHANGED <<grants, given, started>>
        PROVE  OneExecutionPerApproval'
    BY <1>1, <1>3 DEF OneExecutionPerApproval
  <1>4. ASSUME NEW t \in Threads, Step(t)
        PROVE  OneExecutionPerApproval'
    BY <1>3, <1>4, StepFrame
  <1>5. ASSUME NEW p \in Paths, Plan(p)
        PROVE  OneExecutionPerApproval'
    BY <1>3, <1>5 DEF Plan
  <1>6. ASSUME NEW i \in offered, Grant(i)
        PROVE  OneExecutionPerApproval'
    BY <1>1, <1>2, <1>6 DEF Grant, OneExecutionPerApproval
  <1>7. ASSUME NEW i \in offered, Expire(i)
        PROVE  OneExecutionPerApproval'
    BY <1>1, <1>2, <1>7 DEF Expire, OneExecutionPerApproval
  <1>8. ASSUME NEW t \in Threads, NEW i \in offered, NEW trusted \in Trusted,
               Execute(t, i, trusted)
        PROVE  OneExecutionPerApproval'
    <2>1. CASE UNCHANGED <<grants, started, calls>>
      BY <1>1, <1>3, <1>8, <2>1, ExecuteStep
    <2>2. CASE ~UNCHANGED <<grants, started, calls>>
      <3>1. /\ i \in Invocations /\ grants[i] = "live" /\ given' = given
            /\ grants' = [grants EXCEPT ![i] = "consumed"]
            /\ started' = [started EXCEPT ![i] = started[i] + 1]
        BY <1>1, <1>8, <2>2, ExecuteStep
      <3> QED BY <1>1, <1>2, <3>1 DEF OneExecutionPerApproval
    <2> QED BY <2>1, <2>2
  <1>9. ASSUME NEW t \in Threads, NEW trusted \in Trusted, Read(t, trusted)
        PROVE  OneExecutionPerApproval'
    BY <1>1, <1>3, <1>9, ReadStep
  <1>10. ASSUME NEW p \in Paths, NEW node \in Nodes, Edit(p, node)
         PROVE  OneExecutionPerApproval'
    BY <1>1, <1>3, <1>10, EditStep
  <1> QED BY <1>4, <1>5, <1>6, <1>7, <1>8, <1>9, <1>10 DEF ToolNext

\* The writers: a thread past its last look holds the lock, so no other one
\* replaces the file it is about to replace.
LEMMA WritersStep ==
  ASSUME Assumptions, ToolInv, ToolNext
  PROVE  Writing' /\ StillShown'
  <1>1. ToolTypeOK /\ Writing /\ StillShown
    BY DEF ToolInv
  <1>2. ASSUME NEW t \in Threads, Step(t), NEW u \in Threads
        PROVE  /\ calls'[u].pc \in {"lock", "temporary", "replace"} => Inv(u)'.tool = "files.write"
               /\ calls'[u].pc \in {"temporary", "replace"} => writeLock' = u
               /\ calls'[u].pc = "replace" /\ ~calls'[u].touched => Matches(u)'
    <2>1. CASE calls[t].pc \notin {"lock", "temporary", "replace"}
      <3>1. /\ UNCHANGED <<files, writeLock>>
            /\ calls'[t].pc \notin {"lock", "temporary", "replace"}
            /\ u # t => calls'[u] = calls[u]
        BY <1>1, <1>2, <2>1, OtherStep
      <3>2. CASE u = t
        BY <3>1, <3>2
      <3>3. CASE u # t
        BY <1>1, <3>1, <3>3 DEF Writing, StillShown, Inv, Matches
      <3> QED BY <3>2, <3>3
    <2>2. CASE calls[t].pc \in {"lock", "temporary", "replace"} /\ u = t
      <3>1. WriteMoves(t)
        BY <1>1, <1>2, <2>2, WriteStep
      <3>2. CASE calls'[t].pc = "idle"
        BY <2>2, <3>2
      <3>3. CASE calls'[t].pc # "idle"
        <4>1. Inv(t)' = Inv(t) /\ Inv(t).tool = "files.write"
          BY <1>1, <2>2, <3>1, <3>3 DEF WriteMoves, Writing
        <4>2. CASE calls[t].pc = "lock"
          BY <2>2, <3>1, <3>3, <4>1, <4>2 DEF WriteMoves
        <4>3. CASE calls[t].pc = "temporary"
          <5>1. /\ calls'[t].pc = "replace" /\ writeLock' = writeLock /\ Matches(t)
                /\ files' = files
            BY <3>1, <3>3, <4>3 DEF WriteMoves
          <5>2. Matches(t)'
            BY <4>1, <5>1 DEF Matches
          <5> QED BY <1>1, <2>2, <4>1, <4>3, <5>1, <5>2 DEF Writing
        <4>4. CASE calls[t].pc = "replace"
          BY <3>1, <3>3, <4>4 DEF WriteMoves
        <4> QED BY <2>2, <4>2, <4>3, <4>4
      <3> QED BY <3>2, <3>3
    <2>3. CASE calls[t].pc \in {"lock", "temporary", "replace"} /\ u # t
      <3>1. WriteMoves(t) /\ calls'[u] = calls[u]
        BY <1>1, <1>2, <2>3, WriteStep DEF WriteMoves
      <3>2. calls[u].pc \in {"lock", "temporary", "replace"} => Inv(u)'.tool = "files.write"
        BY <1>1, <3>1 DEF Writing, Inv
      <3>3. CASE calls[u].pc \in {"temporary", "replace"}
        <4>1. writeLock = u /\ u # NoThread
          BY <1>1, <3>3 DEF Writing, Assumptions, ThreadsAssumption
        <4>2. calls[t].pc = "lock"
          BY <1>1, <2>3, <4>1 DEF Writing
        <4>3. writeLock' = u /\ files' = files
          BY <3>1, <4>1, <4>2 DEF WriteMoves
        <4> QED BY <1>1, <3>1, <3>2, <4>3 DEF StillShown, Matches, Inv
      <3> QED BY <3>1, <3>2, <3>3
    <2> QED BY <2>1, <2>2, <2>3
  <1>3. ASSUME UNCHANGED <<calls, files, writeLock>>
        PROVE  Writing' /\ StillShown'
    BY <1>1, <1>3 DEF Writing, StillShown, Inv, Matches
  <1>4. ASSUME NEW p \in Paths, Plan(p)
        PROVE  Writing' /\ StillShown'
    BY <1>3, <1>4 DEF Plan
  <1>5. ASSUME NEW i \in offered, Grant(i) \/ Expire(i)
        PROVE  Writing' /\ StillShown'
    BY <1>3, <1>5 DEF Grant, Expire
  <1>6. ASSUME NEW t \in Threads, NEW i \in offered, NEW trusted \in Trusted,
               Execute(t, i, trusted)
        PROVE  Writing' /\ StillShown'
    <2>1. UNCHANGED <<files, writeLock>>
      BY <1>1, <1>6, ExecuteStep
    <2>2. CASE calls' = calls
      BY <1>3, <2>1, <2>2
    <2>3. CASE calls' # calls
      <3> DEFINE c == [NoCall EXCEPT !.pc = FirstStage(i), !.inv = i]
      <3>1. i \in Invocations /\ calls' = [calls EXCEPT ![t] = c]
        BY <1>1, <1>6, <2>3, ExecuteStep
      <3>2. c.inv = i /\ c.pc \in {"lock", "launch"} /\ (c.pc = "lock" => i.tool = "files.write")
        BY <3>1, FirstCall
      <3> HIDE DEF c
      <3>3. calls'[t] = c /\ \A u \in Threads \ {t} : calls'[u] = calls[u]
        BY <1>1, <3>1 DEF ToolTypeOK
      <3> QED BY <1>1, <2>1, <3>2, <3>3 DEF Writing, StillShown, Inv, Matches
    <2> QED BY <2>2, <2>3
  <1>7. ASSUME NEW t \in Threads, NEW trusted \in Trusted, Read(t, trusted)
        PROVE  Writing' /\ StillShown'
    <2>1. /\ calls'[t].pc = "read" /\ \A u \in Threads \ {t} : calls'[u] = calls[u]
          /\ UNCHANGED <<files, writeLock>>
      BY <1>1, <1>7, ReadStep
    <2> QED BY <1>1, <2>1 DEF Writing, StillShown, Inv, Matches
  <1>8. ASSUME NEW p \in Paths, NEW node \in Nodes, Edit(p, node)
        PROVE  Writing' /\ StillShown'
    <2>1. /\ writeLock' = writeLock
          /\ \A u \in Threads : /\ calls'[u].pc = calls[u].pc /\ calls'[u].inv = calls[u].inv
                                /\ calls[u].pc = "replace" => calls'[u].touched
      BY <1>1, <1>8, EditStep
    <2> QED BY <1>1, <2>1 DEF Writing, StillShown, Inv
  <1>9. ASSUME NEW t \in Threads, Step(t)
        PROVE  Writing' /\ StillShown'
    BY <1>2, <1>9 DEF Writing, StillShown
  <1> QED BY <1>4, <1>5, <1>6, <1>7, <1>8, <1>9 DEF ToolNext

\* A step keeps the invariant.
LEMMA StepInv ==
  ASSUME Assumptions, ToolInv, [ToolNext]_toolVars
  PROVE  ToolInv'
  <1>1. CASE ToolNext
    BY <1>1, ToolTypeStep, CountsStep, WritersStep DEF ToolInv
  <1>2. CASE UNCHANGED toolVars
    BY <1>2 DEF ToolInv, ToolTypeOK, OneExecutionPerApproval, Writing, StillShown, Inv, Matches,
                toolVars
  <1> QED BY <1>1, <1>2
-----------------------------------------------------------------------------
(* Theorems *)

\* The invariant: the types, the count of approvals and executions, who holds
\* the write lock, and what the writers know of their targets.
THEOREM ToolInvariance ==
  ASSUME Assumptions
  PROVE  ToolSpec => []ToolInv
  <1>1. ToolInit => ToolInv
    BY ToolInitInv
  <1>2. ToolInv /\ [ToolNext]_toolVars => ToolInv'
    BY StepInv
  <1> QED BY <1>1, <1>2, PTL DEF ToolSpec

\* authorize_and_consume: an approval starts at most one execution, whatever
\* threads execute the same invocation at once and however often it is
\* approved again.
THEOREM ApprovalsCount ==
  ASSUME Assumptions
  PROVE  ToolSpec => []OneExecutionPerApproval
  <1>1. ToolInv => OneExecutionPerApproval
    BY DEF ToolInv
  <1> QED BY <1>1, ToolInvariance, PTL

\* _write_file: os.replace meets the content whose hash the approval showed,
\* unless another program wrote in between.
THEOREM WritesAsShown ==
  ASSUME Assumptions
  PROVE  ToolSpec => ReplacesWhatWasShown
  <1>1. ToolInv /\ [ToolNext]_toolVars =>
          [\A t \in Threads :
             calls[t].pc = "replace" /\ calls'[t].pc # "replace" /\ files' # files
               /\ ~calls[t].touched => files[Inv(t).path] = Inv(t).expected]_toolVars
    BY DEF ToolInv, StillShown, Matches
  <1> QED BY <1>1, ToolInvariance, PTL DEF ToolSpec, ReplacesWhatWasShown

-----------------------------------------------------------------------------
(* Participation *)

\* An operation has one place at a time: it has not asked yet, it is the
\* candidate, it holds the ticket, it is being checked, or it was spoken.
OnePlace ==
  \A o \in Ops :
    /\ ready[o] <= 1
    /\ ready[o] = 1 => o \notin left /\ cand.op # o /\ ticket.op # o /\ checking.op # o
    /\ o \in left => cand.op # o /\ ticket.op # o /\ checking.op # o
    /\ cand.op = o => ticket.op # o /\ checking.op # o
    /\ ticket.op = o => checking.op # o

\* A text rests on something, and so do its ticket and its check.
Rests ==
  /\ cand.work = "text" => cand.used # {}
  /\ ticket.op # NoOp => ticket.evidence # {}
  /\ checking.stage = "read" => checking.evidence # {}

\* A check keeps only documents that were not withdrawn when it began.
ReadAgain ==
  /\ checking.gone \subseteq withdrawn
  /\ checking.docs \cap checking.gone = {}

\* Without a candidate nothing is kept of one.
Forgotten == cand.op = NoOp => cand = NoCandidate

IInv == TypeOK /\ GateAccounts /\ OnePlace /\ Rests /\ ReadAgain /\ Forgotten

-----------------------------------------------------------------------------
(* The records *)

\* The records of nothing have their types.
LEMMA NothingType ==
  ASSUME LimitsAssumption
  PROVE  NoCandidate \in Cands /\ NoTicket \in Tickets /\ NoCheck \in Checks
  BY DEF LimitsAssumption, NoCandidate, NoTicket, NoCheck, Cands, Tickets, Checks

\* Canceling a candidate ends its work and leaves the rest of it alone.
LEMMA CancelWorkType ==
  ASSUME NEW c \in Cands
  PROVE  /\ CancelWork(c) \in Cands /\ CancelWork(c).op = c.op
         /\ CancelWork(c).docs = c.docs /\ CancelWork(c).used = c.used
         /\ CancelWork(c).work \in {c.work, "cancelled"}
  BY DEF CancelWork, Cands, Working

\* What follows a tool keeps the candidate's operation and what it has read, and
\* never is a text.
LEMMA NextToolType ==
  ASSUME LimitsAssumption, NEW c \in Cands
  PROVE  /\ NextTool(c) \in Cands /\ NextTool(c).op = c.op /\ NextTool(c).docs = c.docs
         /\ NextTool(c).work # "text"
  <1>1. CASE c.todo # {} /\ c.tools < MaxTools
    <2>1. NextTool(c) = [c EXCEPT !.work = "read", !.tools = c.tools + 1]
      BY <1>1 DEF NextTool, LimitsAssumption, Cands
    <2>2. c.tools + 1 \in 0 .. MaxTools + 1
      BY <1>1 DEF LimitsAssumption, Cands
    <2> QED BY <2>1, <2>2 DEF Cands, Working
  <1>2. CASE c.todo # {} /\ ~(c.tools < MaxTools)
    <2>1. c.tools >= MaxTools
      BY <1>2 DEF LimitsAssumption, Cands
    <2>2. NextTool(c) = [c EXCEPT !.work = "failed"]
      BY <1>2, <2>1 DEF NextTool, LimitsAssumption, Cands
    <2> QED BY <2>2 DEF Cands, Working
  <1>3. CASE c.todo = {} /\ c.docs = {}
    <2>1. NextTool(c) = [c EXCEPT !.work = "empty"]
      BY <1>3 DEF NextTool
    <2> QED BY <2>1 DEF Cands, Working
  <1>4. CASE c.todo = {} /\ c.docs # {}
    <2>1. NextTool(c) = [c EXCEPT !.work = "model"]
      BY <1>4 DEF NextTool
    <2> QED BY <2>1 DEF Cands, Working
  <1> QED BY <1>1, <1>2, <1>3, <1>4

-----------------------------------------------------------------------------
(* The types and the gate *)

\* At the start all operations are left and nothing runs.
LEMMA InitInv ==
  ASSUME OpsAssumption, LimitsAssumption, ParticipationInit
  PROVE  IInv
  <1>1. TypeOK
    <2>1. /\ active \in Nat /\ foreground \in 0 .. MaxForeground
          /\ revision \in 0 .. MaxChanges /\ withdrawn \subseteq Docs /\ left \subseteq Ops
      BY DEF ParticipationInit, LimitsAssumption
    <2>2. token \in BOOLEAN /\ ready \in [Ops -> Nat]
      BY DEF ParticipationInit
    <2>3. cand \in Cands /\ ticket \in Tickets /\ checking \in Checks
      BY NothingType DEF ParticipationInit
    <2> QED BY <2>1, <2>2, <2>3 DEF TypeOK
  <1>2. GateAccounts /\ Rests /\ ReadAgain /\ Forgotten
    BY DEF ParticipationInit, GateAccounts, Running, Rests, ReadAgain, Forgotten,
           NoCandidate, NoTicket, NoCheck
  <1>3. OnePlace
    BY DEF ParticipationInit, OnePlace, NoCandidate, NoTicket, NoCheck, OpsAssumption
  <1> QED BY <1>1, <1>2, <1>3 DEF IInv

\* Every step keeps the types; a count that goes down was above zero.
LEMMA TypeStep ==
  ASSUME LimitsAssumption, IInv, ParticipationNext
  PROVE  TypeOK'
  <1>1. TypeOK /\ active = foreground + Running
    BY DEF IInv, GateAccounts
  <1> USE <1>1 DEF TypeOK, LimitsAssumption
  <1>3. CASE BeginSwitch \/ EndSwitch
    BY <1>3 DEF BeginSwitch, EndSwitch
  <1>4. CASE Enter
    BY <1>4, NothingType, CancelWorkType DEF Enter
  <1>5. CASE LeaveInference
    BY <1>5 DEF LeaveInference, Running
  <1>6. ASSUME NEW o \in Ops, NEW allowed \in Granted, Ask(o, allowed)
        PROVE  TypeOK'
    <2>1. [NoCandidate EXCEPT !.op = o, !.work = "search", !.rev = revision, !.tools = 1] \in Cands
      <3>1. /\ o \in Ops \cup {NoOp} /\ "search" \in Working
            /\ revision \in 0 .. MaxChanges /\ 1 \in 0 .. MaxTools + 1
        BY DEF Working
      <3>2. NoCandidate \in Cands
        BY NothingType
      <3> HIDE DEF TypeOK
      <3> QED BY <3>1, <3>2 DEF Cands
    <2> QED BY <1>6, <2>1, NothingType DEF Ask
  <1>7. ASSUME NEW hits \in SUBSET Docs, SearchAnswers(hits)
        PROVE  TypeOK'
    <2>1. [cand EXCEPT !.todo = hits] \in Cands /\ [cand EXCEPT !.work = "failed"] \in Cands
      BY DEF Cands
    <2> QED BY <1>7, <2>1, NextToolType DEF SearchAnswers
  <1>8. ASSUME NEW d \in Docs, ReadAnswers(d)
        PROVE  TypeOK'
    <2> DEFINE c == [cand EXCEPT !.todo = @ \ {d}]
               read == [c EXCEPT !.docs = IF d \in withdrawn THEN @ ELSE @ \cup {d}]
    <2>1. c \in Cands /\ read \in Cands /\ [cand EXCEPT !.work = "failed"] \in Cands
      BY DEF Cands
    <2>2. cand' \in {NextTool(read), [cand EXCEPT !.work = "failed"]}
      BY <1>8 DEF ReadAnswers
    <2>3. NextTool(read) \in Cands
      BY <2>1, NextToolType
    <2> HIDE DEF c, read
    <2> QED BY <1>8, <2>1, <2>2, <2>3 DEF ReadAnswers
  <1>9. ASSUME NEW d \in Docs, Reread(d)
        PROVE  TypeOK'
    <2>1. [checking EXCEPT !.todo = @ \ {d}, !.docs = IF d \in withdrawn THEN @ ELSE @ \cup {d}]
             \in Checks
      BY DEF Checks
    <2> QED BY <1>9, <2>1, NothingType DEF Reread
  <1>10. ASSUME NEW d \in Docs, Withdraw(d)
         PROVE  TypeOK'
    BY <1>10 DEF Withdraw
  <1>11. ASSUME NEW evidence \in SUBSET Docs, NEW fine \in BOOLEAN, ModelAnswers(evidence, fine)
         PROVE  TypeOK'
    <2>1. cand' \in {[cand EXCEPT !.work = "empty"], [cand EXCEPT !.work = "failed"],
                     [cand EXCEPT !.work = "text", !.used = evidence]}
      BY <1>11 DEF ModelAnswers
    <2> QED BY <1>11, <2>1 DEF ModelAnswers, Cands
  <1>12. CASE WorkFails
    BY <1>12 DEF WorkFails, Cands
  <1>13. CASE Conclude
    <2>1. active - 1 \in Nat
      BY <1>13 DEF Conclude, Running
    <2>2. [op |-> cand.op, rev |-> cand.rev, evidence |-> cand.used, live |-> TRUE] \in Tickets
      BY DEF Cands, Tickets
    <2> QED BY <1>13, <2>1, <2>2, NothingType DEF Conclude, Released
  <1>14. CASE TicketExpires
    BY <1>14 DEF TicketExpires, Tickets, Checks
  <1>15. CASE CheckFails
    BY <1>15, NothingType DEF CheckFails
  <1>16. CASE PolicyChanges
    BY <1>16 DEF PolicyChanges
  <1>17. ASSUME NEW disconnected \in BOOLEAN, Watch(disconnected)
         PROVE  TypeOK'
    <2>1. CancelWork(cand) \in Cands
      BY CancelWorkType
    <2>2. [CancelWork(cand) EXCEPT !.canceled = TRUE] \in Cands
      BY <2>1 DEF Cands
    <2> QED BY <1>17, <2>2 DEF Watch
  <1>18. ASSUME NEW disconnected \in BOOLEAN, Answer(disconnected)
         PROVE  TypeOK'
    <2>1. [ready EXCEPT ![checking.op] = @ + 1] \in [Ops -> Nat]
      <3>1. CASE checking.op \in Ops
        BY <3>1
      <3>2. CASE checking.op \notin Ops
        BY <3>2
      <3> QED BY <3>1, <3>2
    <2> QED BY <1>18, <2>1, NothingType DEF Answer
  <1>19. ASSUME NEW o \in Ops, Cancel(o)
         PROVE  TypeOK'
    BY <1>19, NothingType, CancelWorkType DEF Cancel
  <1>20. ASSUME NEW o \in Ops, Check(o)
         PROVE  TypeOK'
    <2>1. [NoCheck EXCEPT !.op = o, !.rev = ticket.rev, !.evidence = ticket.evidence,
                          !.todo = NeedsReading(ticket.evidence),
                          !.docs = ticket.evidence \ NeedsReading(ticket.evidence),
                          !.stage = "read", !.live = ticket.live, !.gone = withdrawn] \in Checks
      BY DEF NoCheck, NeedsReading, Checks, Tickets
    <2> QED BY <1>20, <2>1, NothingType DEF Check, Taken
  <1> QED
    BY <1>3, <1>4, <1>5, <1>6, <1>7, <1>8, <1>9, <1>10, <1>11, <1>12, <1>13, <1>14, <1>15,
       <1>16, <1>17, <1>18, <1>19, <1>20 DEF ParticipationNext

\* A step of the candidate's own: a tool or the model answers, fails, or is
\* canceled by the one who waits for it.
Work ==
  \/ \E hits \in SUBSET Docs : SearchAnswers(hits)
  \/ \E d \in Docs : ReadAnswers(d)
  \/ \E evidence \in SUBSET Docs, fine \in BOOLEAN : ModelAnswers(evidence, fine)
  \/ WorkFails
  \/ \E disconnected \in BOOLEAN : Watch(disconnected)

\* A step of the check, and one of what surrounds candidate and check.
Checking ==
  \/ \E o \in Ops : Check(o)
  \/ \E d \in Docs : Reread(d)
  \/ \E disconnected \in BOOLEAN : Answer(disconnected)
  \/ CheckFails
Surroundings == TicketExpires \/ PolicyChanges \/ \E d \in Docs : Withdraw(d)

\* The steps, by what they touch.
LEMMA NextParts ==
  ParticipationNext <=>
    \/ BeginSwitch \/ EndSwitch \/ Enter \/ LeaveInference
    \/ \E o \in Ops, allowed \in Granted : Ask(o, allowed)
    \/ Work \/ Conclude
    \/ \E o \in Ops : Cancel(o)
    \/ Checking \/ Surroundings
  BY DEF ParticipationNext, Work, Checking, Surroundings

\* Such a step touches nothing but the candidate that works; it makes a text of
\* evidence only, and reads only while the run is valid.
LEMMA WorkStep ==
  ASSUME LimitsAssumption, TypeOK, Work
  PROVE  /\ UNCHANGED <<active, token, foreground, revision, withdrawn, ticket, checking,
                        left, ready>>
         /\ cand.work \in Working /\ cand'.op = cand.op
         /\ cand'.work = "text" => cand'.used # {}
         /\ cand'.docs # cand.docs => StillValid(cand)
  <1>1. cand \in Cands
    BY DEF TypeOK
  <1> DEFINE failed == [cand EXCEPT !.work = "failed"]
  <1>2. failed \in Cands /\ failed.op = cand.op /\ failed.docs = cand.docs /\ failed.work # "text"
    BY <1>1 DEF Cands
  <1>3. ASSUME NEW hits \in SUBSET Docs, SearchAnswers(hits)
        PROVE  /\ cand'.op = cand.op /\ cand'.docs = cand.docs /\ cand'.work # "text"
    <2> DEFINE found == [cand EXCEPT !.todo = hits]
    <2>1. found \in Cands /\ found.op = cand.op /\ found.docs = cand.docs
      BY <1>1 DEF Cands
    <2>2. cand' \in {NextTool(found), failed}
      BY <1>3 DEF SearchAnswers
    <2> HIDE DEF failed, found
    <2> QED BY <1>2, <2>1, <2>2, NextToolType
  <1>4. ASSUME NEW d \in Docs, ReadAnswers(d)
        PROVE  /\ cand'.op = cand.op /\ cand'.work # "text"
               /\ cand'.docs # cand.docs => StillValid(cand)
    <2> DEFINE c == [cand EXCEPT !.todo = @ \ {d}]
               read == [c EXCEPT !.docs = IF d \in withdrawn THEN @ ELSE @ \cup {d}]
    <2>1. read \in Cands /\ read.op = cand.op
      BY <1>1 DEF Cands
    <2>2. cand' = IF StillValid(cand) THEN NextTool(read) ELSE failed
      BY <1>4 DEF ReadAnswers
    <2> HIDE DEF failed, c, read
    <2> QED BY <1>2, <2>1, <2>2, NextToolType
  <1>5. ASSUME NEW evidence \in SUBSET Docs, NEW fine \in BOOLEAN, ModelAnswers(evidence, fine)
        PROVE  /\ cand'.op = cand.op /\ cand'.docs = cand.docs
               /\ cand'.work = "text" => cand'.used # {}
    <2>1. \/ cand' = [cand EXCEPT !.work = "empty"]
          \/ cand' = failed
          \/ evidence # {} /\ cand' = [cand EXCEPT !.work = "text", !.used = evidence]
      BY <1>5 DEF ModelAnswers
    <2> QED BY <1>1, <2>1 DEF Cands
  <1>6. ASSUME NEW disconnected \in BOOLEAN, Watch(disconnected)
        PROVE  /\ cand'.op = cand.op /\ cand'.docs = cand.docs /\ cand'.work # "text"
    <2>1. cand' = [CancelWork(cand) EXCEPT !.canceled = TRUE] /\ cand.work \in Working
      BY <1>6 DEF Watch
    <2>2. CancelWork(cand) = [cand EXCEPT !.work = "cancelled"]
      BY <2>1 DEF CancelWork
    <2> QED BY <1>1, <2>1, <2>2 DEF Cands
  <1>7. /\ UNCHANGED <<active, token, foreground, revision, withdrawn, ticket, checking,
                       left, ready>>
        /\ cand.work \in Working
    BY DEF Work, SearchAnswers, ReadAnswers, ModelAnswers, WorkFails, Watch, Working
  <1>8. CASE WorkFails
    BY <1>2, <1>7, <1>8 DEF WorkFails
  <1> HIDE DEF failed
  <1> QED BY <1>3, <1>4, <1>5, <1>6, <1>7, <1>8 DEF Work

\* The gate goes up with each request and with the candidate, and down with
\* their end; the token is taken at zero and admits nothing.
LEMMA GateStep ==
  ASSUME OpsAssumption, LimitsAssumption, IInv, ParticipationNext
  PROVE  GateAccounts'
  <1>1. /\ active = foreground + Running /\ (token => active = 0)
        /\ active \in Nat /\ foreground \in Nat /\ NoOp \notin Ops /\ cand \in Cands
    BY DEF IInv, GateAccounts, TypeOK, OpsAssumption
  <1> USE <1>1
  <1>2. ASSUME UNCHANGED <<active, foreground>>, cand'.op = cand.op,
               (token' = token) \/ ~token' \/ active = 0
        PROVE  GateAccounts'
    BY <1>2 DEF GateAccounts, Running
  <1>3. CASE BeginSwitch \/ EndSwitch
    BY <1>2, <1>3 DEF BeginSwitch, EndSwitch
  <1>4. CASE Enter
    BY <1>4, CancelWorkType DEF Enter, Transitioning, GateAccounts, Running
  <1>5. CASE LeaveInference
    BY <1>5 DEF LeaveInference, GateAccounts, Running
  <1>6. ASSUME NEW o \in Ops, NEW allowed \in Granted, Ask(o, allowed)
        PROVE  GateAccounts'
    <2>1. CASE cand.op = NoOp /\ checking.op = NoOp /\ allowed = "granted" /\ Admits
      <3>1. cand'.op = o /\ active' = active + 1 /\ UNCHANGED <<foreground, token>> /\ ~token
        BY <1>6, <2>1 DEF Ask, Admits, Transitioning, NoCandidate
      <3> QED BY <2>1, <3>1 DEF GateAccounts, Running
    <2>2. CASE ~(cand.op = NoOp /\ checking.op = NoOp /\ allowed = "granted" /\ Admits)
      BY <1>2, <1>6, <2>2 DEF Ask
    <2> QED BY <2>1, <2>2
  <1>7. CASE Work
    BY <1>2, <1>7, WorkStep DEF IInv
  <1>8. CASE Conclude
    BY <1>8 DEF Conclude, Released, NoCandidate, GateAccounts, Running
  <1>9. ASSUME NEW o \in Ops, Cancel(o)
        PROVE  GateAccounts'
    BY <1>2, <1>9, CancelWorkType DEF Cancel
  <1>10. ASSUME UNCHANGED <<active, token, foreground, cand>>
         PROVE  GateAccounts'
    BY <1>2, <1>10
  <1>11. CASE Surroundings
    BY <1>10, <1>11 DEF Surroundings, Withdraw, TicketExpires, PolicyChanges
  <1>12. CASE Checking
    BY <1>10, <1>12 DEF Checking, Check, Reread, Answer, CheckFails
  <1> QED
    BY <1>3, <1>4, <1>5, <1>6, <1>7, <1>8, <1>9, <1>11, <1>12, NextParts

\* What is in one place moves to the next one or is dropped.
LEMMA OnePlaceStep ==
  ASSUME OpsAssumption, LimitsAssumption, IInv, ParticipationNext
  PROVE  OnePlace'
  <1>1. /\ TypeOK /\ OnePlace /\ NoOp \notin Ops /\ cand \in Cands /\ ready \in [Ops -> Nat]
        /\ NoCandidate.op = NoOp /\ NoTicket.op = NoOp /\ NoCheck.op = NoOp
    BY DEF IInv, TypeOK, OpsAssumption, NoCandidate, NoTicket, NoCheck
  <1> USE <1>1
  <1>2. ASSUME UNCHANGED <<left, ready>>, cand'.op \in {cand.op, NoOp},
               ticket'.op \in {ticket.op, NoOp}, checking'.op \in {checking.op, NoOp}
        PROVE  OnePlace'
    BY <1>2 DEF OnePlace
  <1>3. CASE BeginSwitch \/ EndSwitch \/ LeaveInference \/ Enter
    BY <1>2, <1>3, CancelWorkType DEF BeginSwitch, EndSwitch, LeaveInference, Enter
  <1>4. ASSUME NEW o \in Ops, NEW allowed \in Granted, Ask(o, allowed)
        PROVE  OnePlace'
    <2>1. /\ o \in left /\ left' = left \ {o} /\ UNCHANGED <<checking, ready>>
          /\ ticket'.op \in {ticket.op, NoOp}
          /\ \/ cand' = cand
             \/ cand'.op = o /\ ticket'.op = NoOp /\ checking.op = NoOp
      BY <1>4 DEF Ask, NoCandidate
    <2> QED BY <2>1 DEF OnePlace
  <1>5. CASE Work
    BY <1>2, <1>5, WorkStep
  <1>6. CASE Conclude
    <2>1. /\ cand' = NoCandidate /\ UNCHANGED <<left, ready, checking>>
          /\ ticket'.op \in {cand.op, ticket.op}
      BY <1>6 DEF Conclude
    <2> QED BY <2>1 DEF OnePlace
  <1>7. ASSUME NEW o \in Ops, Cancel(o)
        PROVE  OnePlace'
    BY <1>2, <1>7, CancelWorkType DEF Cancel
  <1>8. CASE Surroundings
    <2>1. CASE TicketExpires
      BY <1>2, <2>1 DEF TicketExpires, TypeOK, Tickets, Checks
    <2> QED BY <1>2, <1>8, <2>1 DEF Surroundings, Withdraw, PolicyChanges
  <1>9. ASSUME NEW o \in Ops, Check(o)
        PROVE  OnePlace'
    <2>1. /\ ticket.op = o /\ ticket'.op = NoOp /\ checking'.op = o
          /\ UNCHANGED <<cand, left, ready>>
      BY <1>9 DEF Check, Taken, NoCheck
    <2> QED BY <2>1 DEF OnePlace
  <1>10. ASSUME NEW d \in Docs, Reread(d)
         PROVE  OnePlace'
    <2>1. checking'.op \in {checking.op, NoOp}
      BY <1>10 DEF Reread, TypeOK, Checks
    <2> QED BY <1>2, <1>10, <2>1 DEF Reread
  <1>11. ASSUME NEW disconnected \in BOOLEAN, Answer(disconnected)
         PROVE  OnePlace'
    <2>1. CASE ready' = ready
      BY <1>2, <1>11, <2>1 DEF Answer
    <2>2. CASE ready' = [ready EXCEPT ![checking.op] = @ + 1]
      <3>1. \A o \in Ops : ready'[o] = IF o = checking.op THEN ready[o] + 1 ELSE ready[o]
        BY <2>2
      <3>2. \A o \in Ops : ready[o] \in Nat
        OBVIOUS
      <3>3. checking'.op = NoOp /\ UNCHANGED <<cand, ticket, left>>
        BY <1>11 DEF Answer
      <3> QED BY <3>1, <3>2, <3>3 DEF OnePlace
    <2> QED BY <1>11, <2>1, <2>2 DEF Answer
  <1>12. CASE CheckFails
    BY <1>2, <1>12 DEF CheckFails
  <1> QED
    BY <1>3, <1>4, <1>5, <1>6, <1>7, <1>8, <1>9, <1>10, <1>11, <1>12, NextParts DEF Checking

-----------------------------------------------------------------------------
(* What is spoken *)

\* Evidence goes from the text to its ticket and its check, a check forgets
\* nothing that is withdrawn, and nothing is kept without a candidate.
LEMMA KeptStep ==
  ASSUME OpsAssumption, LimitsAssumption, IInv, ParticipationNext
  PROVE  (Rests /\ ReadAgain /\ Forgotten)'
  <1>1. /\ TypeOK /\ Rests /\ ReadAgain /\ Forgotten /\ NoOp \notin Ops
        /\ cand \in Cands /\ ticket \in Tickets /\ checking \in Checks
    BY DEF IInv, TypeOK, OpsAssumption
  <1>2. /\ NoCandidate.op = NoOp /\ NoCandidate.work = "none" /\ NoTicket.op = NoOp
        /\ NoCheck.stage = "none" /\ NoCheck.gone = {} /\ NoCheck.docs = {}
        /\ CancelWork(NoCandidate) = NoCandidate
    BY DEF NoCandidate, NoTicket, NoCheck, CancelWork, Working
  <1>3. CancelWork(cand).work = "text" => CancelWork(cand).used # {}
    BY <1>1, CancelWorkType DEF Rests
  <1> USE <1>1, <1>2
  <1>4. ASSUME UNCHANGED <<cand, ticket, checking, withdrawn>>
        PROVE  (Rests /\ ReadAgain /\ Forgotten)'
    BY <1>4 DEF Rests, ReadAgain, Forgotten
  <1>5. ASSUME cand' \in {cand, CancelWork(cand)}, ticket' \in {ticket, NoTicket},
               checking' \in {checking, NoCheck}, withdrawn' = withdrawn
        PROVE  (Rests /\ ReadAgain /\ Forgotten)'
    BY <1>3, <1>5, CancelWorkType DEF Rests, ReadAgain, Forgotten
  <1>6. CASE BeginSwitch \/ EndSwitch \/ LeaveInference
    BY <1>4, <1>6 DEF BeginSwitch, EndSwitch, LeaveInference
  <1>7. CASE Enter
    BY <1>5, <1>7 DEF Enter
  <1>8. ASSUME NEW o \in Ops, NEW allowed \in Granted, Ask(o, allowed)
        PROVE  (Rests /\ ReadAgain /\ Forgotten)'
    <2>1. /\ UNCHANGED <<checking, withdrawn>> /\ ticket' \in {ticket, NoTicket}
          /\ cand' = cand \/ (cand'.op = o /\ cand'.work = "search")
      BY <1>8 DEF Ask, NoCandidate
    <2> QED BY <2>1 DEF Rests, ReadAgain, Forgotten
  <1>9. CASE Work
    <2>1. cand.op # NoOp
      BY <1>9, WorkStep DEF Forgotten, Working
    <2> QED BY <1>9, <2>1, WorkStep DEF Rests, ReadAgain, Forgotten
  <1>10. CASE Conclude
    <2>1. /\ cand' = NoCandidate /\ UNCHANGED <<checking, withdrawn>>
          /\ ticket' = ticket \/ (cand.work = "text" /\ ticket'.evidence = cand.used)
      BY <1>10 DEF Conclude
    <2> QED BY <2>1 DEF Rests, ReadAgain, Forgotten
  <1>11. ASSUME NEW o \in Ops, Cancel(o)
         PROVE  (Rests /\ ReadAgain /\ Forgotten)'
    BY <1>5, <1>11 DEF Cancel
  <1>12. CASE TicketExpires
    <2>1. /\ UNCHANGED <<cand, withdrawn>>
          /\ ticket'.op = ticket.op /\ ticket'.evidence = ticket.evidence
          /\ checking'.stage = checking.stage /\ checking'.evidence = checking.evidence
          /\ checking'.docs = checking.docs /\ checking'.gone = checking.gone
      BY <1>12 DEF TicketExpires, Tickets, Checks
    <2> QED BY <2>1 DEF Rests, ReadAgain, Forgotten
  <1>13. CASE PolicyChanges
    BY <1>4, <1>13 DEF PolicyChanges
  <1>14. ASSUME NEW d \in Docs, Withdraw(d)
         PROVE  (Rests /\ ReadAgain /\ Forgotten)'
    BY <1>14 DEF Withdraw, Rests, ReadAgain, Forgotten
  <1>15. ASSUME NEW o \in Ops, Check(o)
         PROVE  (Rests /\ ReadAgain /\ Forgotten)'
    <2>1. /\ UNCHANGED <<cand, withdrawn>> /\ ticket.op # NoOp /\ ticket' = NoTicket
          /\ checking'.evidence = ticket.evidence /\ checking'.gone = withdrawn
          /\ checking'.docs = {}
      BY <1>15 DEF Check, Taken, NoCheck, NeedsReading
    <2> QED BY <2>1 DEF Rests, ReadAgain, Forgotten
  <1>16. ASSUME NEW d \in Docs, Reread(d)
         PROVE  (Rests /\ ReadAgain /\ Forgotten)'
    <2>1. CASE checking' = NoCheck
      BY <1>5, <1>16, <2>1 DEF Reread
    <2>2. CASE checking' # NoCheck
      <3>1. /\ UNCHANGED <<cand, ticket, withdrawn>>
            /\ checking'.stage = checking.stage /\ checking'.evidence = checking.evidence
            /\ checking'.gone = checking.gone
            /\ checking'.docs = IF d \in withdrawn THEN checking.docs ELSE checking.docs \cup {d}
        BY <1>16, <2>2 DEF Reread, Checks
      <3> QED BY <3>1 DEF Rests, ReadAgain, Forgotten
    <2> QED BY <2>1, <2>2
  <1>17. ASSUME NEW disconnected \in BOOLEAN, Answer(disconnected)
         PROVE  (Rests /\ ReadAgain /\ Forgotten)'
    BY <1>5, <1>17 DEF Answer
  <1>18. CASE CheckFails
    BY <1>5, <1>18 DEF CheckFails
  <1> QED
    BY <1>6, <1>7, <1>8, <1>9, <1>10, <1>11, <1>12, <1>13, <1>14, <1>15, <1>16, <1>17, <1>18,
       NextParts DEF Checking, Surroundings

-----------------------------------------------------------------------------
(* The theorems *)

\* The invariant holds as long as the specification is followed.
LEMMA Invariance ==
  ASSUME OpsAssumption, LimitsAssumption
  PROVE  ParticipationSpec => []IInv
  <1>1. ParticipationInit => IInv
    BY InitInv
  <1>2. IInv /\ [ParticipationNext]_participationVars => IInv'
    <2> SUFFICES ASSUME IInv, [ParticipationNext]_participationVars PROVE IInv'
      OBVIOUS
    <2>1. CASE ParticipationNext
      BY <2>1, TypeStep, GateStep, OnePlaceStep, KeptStep DEF IInv
    <2>2. CASE UNCHANGED participationVars
      BY <2>2 DEF participationVars, IInv, TypeOK, GateAccounts, Running, OnePlace, Rests, ReadAgain, Forgotten
    <2> QED BY <2>1, <2>2
  <1> QED BY <1>1, <1>2, PTL DEF ParticipationSpec

\* InferenceGate: its count is that of the requests and the candidate which run,
\* whatever way each of them ends, and the token of a switch excludes them all,
\* for any number of requests, operations and documents.
THEOREM GateCounts ==
  ASSUME OpsAssumption, LimitsAssumption
  PROVE  ParticipationSpec => []GateAccounts
  <1>1. IInv => GateAccounts
    BY DEF IInv
  <1> QED BY <1>1, Invariance, PTL

\* ResidentParticipation.check consumes the ticket before it awaits anything: a
\* candidate is spoken at most once, whoever asks again, and when.
THEOREM SpokenOnce ==
  ASSUME OpsAssumption, LimitsAssumption
  PROVE  ParticipationSpec => []OneReadyPerCandidate
  <1>1. IInv => OneReadyPerCandidate
    BY DEF IInv, OnePlace, OneReadyPerCandidate
  <1> QED BY <1>1, Invariance, PTL

\* What the desktop is told to speak rests on evidence, all of which the Karte
\* still had when the check began.
THEOREM SpokenWasReread ==
  ASSUME OpsAssumption, LimitsAssumption
  PROVE  ParticipationSpec => RereadBeforeReady
  <1>1. IInv /\ [ParticipationNext]_participationVars
        => [ready' # ready => checking.evidence # {} /\ checking.evidence \cap checking.gone = {}]_participationVars
    <2> SUFFICES ASSUME IInv, ParticipationNext, ready' # ready
                 PROVE  checking.evidence # {} /\ checking.evidence \cap checking.gone = {}
      BY DEF participationVars
    <2>1. PICK disconnected \in BOOLEAN : Answer(disconnected)
      BY DEF ParticipationNext, BeginSwitch, EndSwitch, Enter, LeaveInference, Ask,
         SearchAnswers, ReadAnswers, Reread, Withdraw, ModelAnswers, WorkFails, Conclude,
         TicketExpires, CheckFails, PolicyChanges, Watch, Cancel, Check
    <2>2. checking.stage = "read" /\ checking.evidence \subseteq checking.docs
      BY <2>1 DEF Answer
    <2> QED BY <2>2 DEF IInv, Rests, ReadAgain
  <1> QED BY <1>1, Invariance, PTL DEF ParticipationSpec, RereadBeforeReady

\* A run takes a document in only while it is valid and not canceled: an answer
\* of the Karte that comes after a change of the policy or a cancel is dropped.
THEOREM LateAnswers ==
  ASSUME OpsAssumption, LimitsAssumption
  PROVE  ParticipationSpec => LateAnswerIgnored
  <1>1. IInv /\ [ParticipationNext]_participationVars
        => [cand'.docs # cand.docs /\ cand'.op # NoOp => revision = cand.rev /\ ~cand.canceled]_participationVars
    <2> SUFFICES ASSUME IInv, ParticipationNext, cand'.docs # cand.docs, cand'.op # NoOp
                 PROVE  StillValid(cand)
      BY DEF participationVars, StillValid, Valid
    <2>1. TypeOK /\ cand \in Cands /\ Forgotten
      BY DEF IInv, TypeOK
    <2>2. CASE Work
      BY <2>1, <2>2, WorkStep
    <2>3. ASSUME NEW o \in Ops, NEW allowed \in Granted, Ask(o, allowed)
          PROVE  FALSE
      BY <2>1, <2>3 DEF Ask, Forgotten, NoCandidate
    <2>4. CASE Enter \/ \E o \in Ops : Cancel(o)
      BY <2>1, <2>4, CancelWorkType DEF Enter, Cancel
    <2>5. CASE Conclude
      BY <2>5 DEF Conclude, NoCandidate
    <2>6. CASE BeginSwitch \/ EndSwitch \/ LeaveInference \/ Checking \/ Surroundings
      BY <2>6 DEF BeginSwitch, EndSwitch, LeaveInference, Checking, Check, Reread, Answer,
         CheckFails, Surroundings, TicketExpires, PolicyChanges, Withdraw
    <2> QED BY <2>2, <2>3, <2>4, <2>5, <2>6, NextParts
  <1> QED BY <1>1, Invariance, PTL DEF ParticipationSpec, LateAnswerIgnored

-----------------------------------------------------------------------------
(* PreferenceEvaluation, and the ModelRegistry in it *)

InBatch == {"batch", "asks"}
Selected == [model |-> selected[Role].model, adapter |-> selected[Role].adapter]
VoteRecords == {v \in [pick : {"a", "b", "neither"}, over : Nat, sft : BOOLEAN, liked : {"a", "b", "neither"}] :
                  v.pick = v.liked}
ExportRecords == [pair : Nat, chosen : {"a", "b"}]

-----------------------------------------------------------------------------
(* The inductive invariant *)

CallTypes ==
  /\ DOMAIN call = Calls
  /\ \A c \in Calls : call[c] \in [pc : {call[c].pc}, service : {call[c].service}, next : Nat, until : {call[c].until},
                                   arts : {call[c].arts}, revision : {call[c].revision}]

\* What is stored: an index has one pair, its votes follow each other, and its status
\* tells whether there are any.
Stored ==
  /\ DOMAIN pairs \subseteq Nat /\ IsFiniteSet(DOMAIN pairs) /\ DOMAIN votes = DOMAIN pairs
  /\ \A i \in DOMAIN pairs :
       /\ pairs[i] \in [model : {pairs[i].model}, adapterA : {pairs[i].adapterA}, adapterB : {pairs[i].adapterB},
                        seedA : {pairs[i].seedA}, seedB : {pairs[i].seedB}, order : {"ab", "ba"},
                        status : {"duplicate_generation", "pending", "reviewed"}]
       /\ votes[i] \in Seq(VoteRecords)
       /\ \A n \in 1 .. Len(votes[i]) : votes[i][n].over = n - 1
       /\ pairs[i].status = "reviewed" <=> votes[i] # <<>>

\* Before there is a session nothing was generated.
Begun ==
  session = NoSession => pairs = <<>> /\ \A c \in Calls : call[c].pc \in {"idle", "done", "failed"}

\* At most one call of this process generates, and it has the lease of the selection.
Leased ==
  /\ \A c \in Calls : call[c].pc \in InBatch => lock = "gateway"
  /\ \A c, d \in Calls : call[c].pc \in InBatch /\ call[d].pc \in InBatch => c = d

\* The call that generates does so with what is selected, which is what the pairs of
\* the session have.
BatchAgrees ==
  \A c \in Calls :
    /\ call[c].pc \in InBatch /\ session.mode = "base_vs_adapter" =>
         Selected.adapter # NoId /\ Consistent(Selected)
    /\ call[c].pc = "asks" => call[c].arts = Selected

\* A reviewer sees the responses of a pair in its display order.
Shown ==
  /\ DOMAIN seen = Reviewers
  /\ \A r \in Reviewers :
       /\ seen[r] \in [pair : Nat \cup {-1}, vote : Nat, left : {"a", "b"}, right : {"a", "b"}]
       /\ seen[r].pair # -1 =>
            /\ seen[r].pair \in DOMAIN pairs
            /\ seen[r].left = IF pairs[seen[r].pair].order = "ab" THEN "a" ELSE "b"
            /\ seen[r].right = IF pairs[seen[r].pair].order = "ab" THEN "b" ELSE "a"

\* A session that compares with an adapter has no scenario for training.
HeldOut == session.mode = "base_vs_adapter" => \A i \in Nat : ScenarioOf(i).split # "train"

\* What an export read, and what was written, is backed by a vote.
Backed(e, format) ==
  /\ e.pair \in DOMAIN votes
  /\ ScenarioOf(e.pair).training /\ ScenarioOf(e.pair).split = "train"
  /\ \E n \in DOMAIN votes[e.pair] :
       votes[e.pair][n].liked = e.chosen /\ (format = "sft" => votes[e.pair][n].sft)

Exported ==
  /\ exporting \in [Exports -> [pc : {"idle", "writing", "failed", "done"}, records : SUBSET ExportRecords]]
  /\ exported \in [format : {"none", "dpo", "sft"}, records : SUBSET ExportRecords]
  /\ \A x \in Exports : exporting[x].pc = "writing" => session # NoSession
  /\ \A x \in Exports : \A e \in exporting[x].records : exporting[x].pc = "writing" => Backed(e, Format[x])
  /\ exported.records # {} => session # NoSession
  /\ \A e \in exported.records : Backed(e, exported.format)

EvaluationInv == /\ DOMAIN selected = Roles
        /\ CallTypes /\ Stored /\ Begun /\ Leased /\ BatchAgrees /\ Shown /\ HeldOut /\ Exported
        /\ SessionKeepsArtifacts

-----------------------------------------------------------------------------
(* The registry *)

\* What a selection stands for is the model and the adapter of that name.
LEMMA ArtifactsSelected ==
  \A a \in Artifacts : a = Selected
  <1> SUFFICES ASSUME NEW a \in Artifacts
               PROVE  a = Selected
    OBVIOUS
  <1>1. PICK q \in M!Resolved(selected[Role]) : a = [model |-> q.model.id, adapter |-> q.adapter.id]
    BY DEF Artifacts
  <1>2. q.model \in M!ModelOf(selected[Role])
        /\ IF selected[Role].adapter = NoId THEN q.adapter = [id |-> NoId]
           ELSE q.adapter \in M!AdapterOf(selected[Role], q.model)
    BY <1>1 DEF M!Resolved
  <1>3. q.model.id = selected[Role].model /\ q.adapter.id = selected[Role].adapter
    BY <1>2 DEF M!ModelOf, M!AdapterOf
  <1> QED BY <1>1, <1>3 DEF Selected

\* The selections change under the lock only, and no step of a command takes it.
LEMMA RegistryStep ==
  ASSUME M!Next
  PROVE  /\ lock' = lock /\ (lock # "free" => selected' = selected)
         /\ DOMAIN selected' = DOMAIN selected
         /\ \A s : M!Resolved(s) # {} => M!Resolved(s)' # {}
  <1>1. CASE \E path \in ModelPaths : M!Replace(path)
    <2>1. UNCHANGED <<registry, selected, lock>>
      BY <1>1 DEF M!Replace
    <2> QED BY <2>1 DEF M!Resolved, M!ModelOf, M!AdapterOf, M!Models, M!Adapters
  <1>2. ASSUME NEW p \in Commands, M!Step(p)
        PROVE  /\ lock' = lock /\ (lock # "free" => selected' = selected)
               /\ DOMAIN selected' = DOMAIN selected /\ registry \subseteq registry'
    <2>1. CASE M!Register(p)
      <3>1. UNCHANGED <<selected, lock>>
        BY <2>1 DEF M!Register
      <3>2. registry \subseteq registry'
        BY <2>1 DEF M!Register, M!Refused, M!Registered
      <3> QED BY <3>1, <3>2
    <2>2. CASE M!Select(p)
      BY <2>2 DEF M!Select
    <2>3. CASE M!ImportModel(p) \/ M!ImportAdapter(p) \/ M!List(p) \/ M!Check(p) \/ M!PlanDownload(p) \/ M!Download(p)
      BY <2>3 DEF M!ImportModel, M!ImportAdapter, M!List, M!Check, M!PlanDownload, M!Download, M!Kept
    <2>4. CASE M!Launch(p)
      BY <2>4 DEF M!Launch
    <2> QED BY <1>2, <2>1, <2>2, <2>3, <2>4 DEF M!Step
  <1>3. ASSUME registry \subseteq registry', NEW s, M!Resolved(s) # {}
        PROVE  M!Resolved(s)' # {}
    <2>1. M!Models \subseteq M!Models' /\ M!Adapters \subseteq M!Adapters'
      BY <1>3 DEF M!Models, M!Adapters
    <2>2. M!ModelOf(s) \subseteq M!ModelOf(s)' /\ \A m : M!AdapterOf(s, m) \subseteq M!AdapterOf(s, m)'
      BY <2>1 DEF M!ModelOf, M!AdapterOf
    <2>3. M!Resolved(s) \subseteq M!Resolved(s)'
      BY <2>1, <2>2 DEF M!Resolved
    <2> QED BY <1>3, <2>3
  <1> QED BY <1>1, <1>2, <1>3 DEF M!Next

\* Beside what is selected, what a command that is about to select has checked resolves.
CheckedResolves ==
  \A p \in Commands : at[p] = "checked" =>
    M!Selection(Jobs[p]) = M!NoSelection \/ M!Resolved(M!Selection(Jobs[p])) # {}

RegistryInv == DOMAIN selected = Roles /\ DOMAIN at = Commands /\ CheckedResolves /\ M!SelectionResolves

LEMMA RegistryInvStep ==
  ASSUME RegistryInv, M!Next
  PROVE  RegistryInv'
  <1> USE DEF RegistryInv
  <1>1. \A s : M!Resolved(s) # {} => M!Resolved(s)' # {}
    BY RegistryStep
  <1>2. CASE \E path \in ModelPaths : M!Replace(path)
    <2>1. UNCHANGED <<selected, at>>
      BY <1>2 DEF M!Replace
    <2> QED BY <1>1, <2>1 DEF CheckedResolves, M!SelectionResolves
  <1>3. ASSUME NEW p \in Commands, M!Step(p)
        PROVE  RegistryInv'
    <2>1. ASSUME UNCHANGED selected, NEW step, NEW what, M!Goes(p, step, what),
                 step = "checked" =>
                   M!Selection(Jobs[p]) = M!NoSelection \/ M!Resolved(M!Selection(Jobs[p])) # {}
          PROVE  RegistryInv'
      <3>1. DOMAIN at' = Commands /\ at'[p] = step /\ \A q \in Commands \ {p} : at'[q] = at[q]
        BY <2>1 DEF M!Goes
      <3> QED BY <1>1, <2>1, <3>1 DEF CheckedResolves, M!SelectionResolves
    <2>2. CASE M!Check(p)
      <3>1. UNCHANGED selected
        BY <2>2 DEF M!Check, M!Kept
      <3> DEFINE s == M!Selection(Jobs[p])
      <3>2. CASE s = M!NoSelection \/ \E pair \in M!Resolved(s) : M!Verified(pair)
        <4>1. \E step : M!Goes(p, step, got[p])
          BY <2>2, <3>2 DEF M!Check
        <4> QED BY <2>1, <3>1, <3>2, <4>1
      <3>3. CASE ~(s = M!NoSelection \/ \E pair \in M!Resolved(s) : M!Verified(pair))
        <4>1. M!Goes(p, "failed", NoId)
          BY <2>2, <3>3 DEF M!Check, M!Fails
        <4> QED BY <2>1, <3>1, <4>1
      <3> QED BY <3>2, <3>3
    <2>3. CASE M!Select(p)
      <3>1. CASE M!Current(p)
        <4>1. /\ selected' = [selected EXCEPT ![Jobs[p].role] = M!Selection(Jobs[p])]
              /\ at[p] = "checked" /\ M!Goes(p, "done", NoId)
          BY <2>3, <3>1 DEF M!Select
        <4>2. DOMAIN at' = Commands /\ at'[p] = "done" /\ \A q \in Commands \ {p} : at'[q] = at[q]
          BY <4>1 DEF M!Goes
        <4>3. M!Selection(Jobs[p]) = M!NoSelection \/ M!Resolved(M!Selection(Jobs[p]))' # {}
          BY <1>1, <4>1 DEF CheckedResolves
        <4>4. DOMAIN selected' = Roles
              /\ \A role \in Roles : selected'[role] \in {selected[role], M!Selection(Jobs[p])}
          BY <4>1
        <4>5. M!SelectionResolves'
          BY <1>1, <4>3, <4>4 DEF M!SelectionResolves
        <4> QED BY <1>1, <4>2, <4>4, <4>5 DEF CheckedResolves
      <3>2. CASE ~M!Current(p)
        <4>1. UNCHANGED selected /\ M!Goes(p, "failed", NoId)
          BY <2>3, <3>2 DEF M!Select, M!Fails
        <4> QED BY <2>1, <4>1
      <3> QED BY <3>1, <3>2
    <2>4. ASSUME UNCHANGED selected, NEW step \in {"failed", "inspected", "done", "listed", "planned", "linked"},
                 NEW what, M!Goes(p, step, what)
          PROVE  RegistryInv'
      BY <2>1, <2>4
    <2>5. CASE M!ImportModel(p) \/ M!ImportAdapter(p) \/ M!List(p) \/ M!PlanDownload(p) \/ M!Download(p)
      <3>1. UNCHANGED selected
        BY <2>5 DEF M!ImportModel, M!ImportAdapter, M!List, M!PlanDownload, M!Download, M!Kept
      <3>2. \E step \in {"failed", "inspected", "done", "listed", "planned", "linked"} : \E what : M!Goes(p, step, what)
        BY <2>5 DEF M!ImportModel, M!ImportAdapter, M!List, M!PlanDownload, M!Download, M!Fails
      <3> QED BY <2>4, <3>1, <3>2
    <2>6. CASE M!Register(p) \/ M!Launch(p)
      <3>1. UNCHANGED selected
        BY <2>6 DEF M!Register, M!Launch
      <3>2. M!Goes(p, "done", NoId) \/ M!Goes(p, "failed", NoId)
        BY <2>6 DEF M!Register, M!Launch, M!Fails
      <3> QED BY <2>4, <3>1, <3>2
    <2> QED BY <1>3, <2>2, <2>3, <2>5, <2>6 DEF M!Step
  <1> QED BY <1>2, <1>3 DEF M!Next

LEMMA RegistryInvKept ==
  ASSUME RegistryInv, UNCHANGED others
  PROVE  RegistryInv'
  BY DEF others, RegistryInv, CheckedResolves, M!SelectionResolves, M!Resolved, M!ModelOf, M!AdapterOf,
         M!Models, M!Adapters

\* What is selected can be resolved at any later time, when it can at first: commands
\* check a selection before they take the lock, and records never change; batches,
\* reviews and reloads of the gateway leave both alone.
THEOREM SelectionsResolve ==
  ASSUME M!ChosenAssumption
  PROVE  Spec /\ SelectionResolves => []SelectionResolves
  <1>1. Init /\ SelectionResolves => RegistryInv
    BY DEF Init, M!Init, RegistryInv, CheckedResolves, M!ChosenAssumption, SelectionResolves
  <1>2. ASSUME RegistryInv, [Next]_vars
        PROVE  RegistryInv'
    <2>1. CASE M!Next
      BY <1>2, <2>1, RegistryInvStep
    <2>2. ASSUME UNCHANGED vars \/ UNCHANGED registryVars
          PROVE  UNCHANGED others
      BY <2>2 DEF vars, registryVars, others
    <2>3. ASSUME NEW c \in Calls, Call(c) \/ Generation(c)
          PROVE  UNCHANGED others
      BY <2>3 DEF Call, Generation, EnterService, TakeLease, StartPair, EndPair, EndBatch, CallKept
    <2>4. ASSUME NEW r \in Reviewers, View(r) \/ Vote(r)
          PROVE  UNCHANGED registryVars
      BY <2>4 DEF View, Vote
    <2>5. ASSUME NEW x \in Exports, ExportRead(x) \/ ExportLink(x)
          PROVE  UNCHANGED registryVars
      BY <2>5 DEF ExportRead, ExportLink
    <2>6. ASSUME CreateSession \/ Reload
          PROVE  UNCHANGED registryVars
      BY <2>6 DEF CreateSession, Reload
    <2>7. ASSUME LeaseElsewhere \/ Crash
          PROVE  UNCHANGED others
      BY <2>7 DEF LeaseElsewhere, Crash
    <2>8. M!Next \/ UNCHANGED others
      BY <1>2, <2>2, <2>3, <2>4, <2>5, <2>6, <2>7 DEF Next
    <2> QED BY <1>2, <2>1, <2>8, RegistryInvKept
  <1>3. RegistryInv => SelectionResolves
    BY DEF RegistryInv, SelectionResolves
  <1> QED BY <1>1, <1>2, <1>3, PTL DEF Spec

-----------------------------------------------------------------------------
(* The store *)

\* Votes that follow each other leave the last one as the current vote.
LEMMA CurrentIsLast ==
  ASSUME NEW i, votes[i] \in Seq(VoteRecords), \A n \in 1 .. Len(votes[i]) : votes[i][n].over = n - 1
  PROVE  /\ CurrentVotes(i) = IF votes[i] = <<>> THEN {} ELSE {Len(votes[i])}
         /\ Latest(i) = Len(votes[i])
  <1> DEFINE log == votes[i]
  <1>1. log \in Seq(VoteRecords) /\ DOMAIN log = 1 .. Len(log) /\ Len(log) \in Nat
    OBVIOUS
  <1>2. log = <<>> <=> Len(log) = 0
    BY <1>1
  <1>3. \A n, m \in DOMAIN log : log[m].over = n <=> m = n + 1
    BY <1>1
  <1>4. CurrentVotes(i) = {n \in 1 .. Len(log) : n + 1 \notin 1 .. Len(log)}
    BY <1>1, <1>3 DEF CurrentVotes, Unsuperseded
  <1>5. CurrentVotes(i) = IF log = <<>> THEN {} ELSE {Len(log)}
    BY <1>1, <1>2, <1>4
  <1>6. Latest(i) = Len(log)
    <2>1. CASE log = <<>>
      BY <1>2, <1>5, <2>1 DEF Latest
    <2>2. CASE log # <<>>
      <3>1. CurrentVotes(i) = {Len(log)}
        BY <1>5, <2>2
      <3>2. \A n \in {Len(log)} : n = Len(log)
        OBVIOUS
      <3>3. (CHOOSE n \in {Len(log)} : \A m \in {Len(log)} : m <= n) = Len(log)
        BY <1>1
      <3> QED BY <3>1, <3>3 DEF Latest
    <2> QED BY <2>1, <2>2
  <1> QED BY <1>5, <1>6

\* Each conjunct is about a few variables.
LEMMA Untouched ==
  ASSUME EvaluationInv
  PROVE  /\ UNCHANGED call => CallTypes'
         /\ UNCHANGED <<pairs, votes>> => Stored'
         /\ UNCHANGED <<session, pairs, call>> => Begun'
         /\ UNCHANGED <<call, lock>> => Leased'
         /\ UNCHANGED <<call, session, pairs, selected>> => BatchAgrees'
         /\ UNCHANGED <<seen, pairs>> => Shown'
         /\ UNCHANGED session => HeldOut'
         /\ UNCHANGED <<exporting, exported, votes, session>> => Exported'
         /\ UNCHANGED <<session, pairs>> => SessionKeepsArtifacts'
  <1>1. UNCHANGED call => CallTypes'
    BY DEF EvaluationInv, CallTypes
  <1>2. UNCHANGED <<pairs, votes>> => Stored'
    BY DEF EvaluationInv, Stored
  <1>3. UNCHANGED <<session, pairs, call>> => Begun'
    BY DEF EvaluationInv, Begun
  <1>4. UNCHANGED <<call, lock>> => Leased'
    BY DEF EvaluationInv, Leased
  <1>5. UNCHANGED <<call, session, pairs, selected>> => BatchAgrees'
    BY DEF EvaluationInv, BatchAgrees, Consistent, Selected
  <1>6. UNCHANGED <<seen, pairs>> => Shown'
    BY DEF EvaluationInv, Shown
  <1>7. UNCHANGED session => HeldOut'
    BY DEF EvaluationInv, HeldOut, ScenarioOf
  <1>8. UNCHANGED <<exporting, exported, votes, session>> => Exported'
    BY DEF EvaluationInv, Exported, Backed, ScenarioOf
  <1>9. UNCHANGED <<session, pairs>> => SessionKeepsArtifacts'
    BY DEF EvaluationInv, SessionKeepsArtifacts
  <1> QED BY <1>1, <1>2, <1>3, <1>4, <1>5, <1>6, <1>7, <1>8, <1>9

-----------------------------------------------------------------------------
(* The steps *)

LEMMA RegistryKeeps ==
  ASSUME EvaluationInv, M!Next, UNCHANGED evalVars
  PROVE  EvaluationInv'
  <1>1. lock' = lock /\ (lock # "free" => selected' = selected) /\ DOMAIN selected' = Roles
    BY RegistryStep DEF EvaluationInv
  <1>2. UNCHANGED <<session, pairs, votes, call, seen, exporting, exported>>
    BY DEF evalVars
  <1>3. BatchAgrees'
    <2>1. CASE lock = "free"
      <3>1. \A c \in Calls : call[c].pc \notin InBatch
        BY <2>1 DEF EvaluationInv, Leased
      <3>2. \A c \in Calls : call'[c].pc \notin InBatch
        BY <1>2, <3>1
      <3> QED BY <3>2 DEF BatchAgrees, InBatch
    <2>2. CASE lock # "free"
      BY <1>1, <1>2, <2>2, Untouched
    <2> QED BY <2>1, <2>2
  <1> QED BY <1>1, <1>2, <1>3, Untouched DEF EvaluationInv

LEMMA CreateSessionKeeps ==
  ASSUME EvaluationAssumption, EvaluationInv, CreateSession
  PROVE  EvaluationInv'
  <1>1. /\ session = NoSession
        /\ UNCHANGED <<registryVars, pairs, votes, call, seen, exporting, exported>>
    BY DEF CreateSession
  <1>2. UNCHANGED <<selected, lock>>
    BY <1>1 DEF registryVars
  <1>3. pairs = <<>> /\ \A c \in Calls : call[c].pc \notin InBatch
    BY <1>1 DEF EvaluationInv, Begun, InBatch
  <1>4. Begun' /\ BatchAgrees' /\ SessionKeepsArtifacts'
    <2>1. pairs' = <<>> /\ \A c \in Calls : call'[c] = call[c]
      BY <1>1, <1>3
    <2>2. Begun'
      BY <1>1, <2>1 DEF EvaluationInv, Begun
    <2>3. BatchAgrees'
      BY <1>3, <2>1 DEF BatchAgrees, InBatch
    <2>4. DOMAIN pairs' = {}
      BY <2>1
    <2> QED BY <2>2, <2>3, <2>4 DEF SessionKeepsArtifacts
  <1>5. HeldOut'
    <2>1. PICK mode \in Modes, d \in Datasets :
            /\ Loads(d) /\ Opens(mode, d.scenarios)
            /\ \E f \in InOrder(Usable(mode, d.scenarios)) :
                 session' = [mode |-> mode, scenarios |-> [k \in DOMAIN f |-> d.scenarios[f[k]]]]
      BY DEF CreateSession
    <2> DEFINE U == Usable(mode, d.scenarios)
    <2>2. PICK f \in InOrder(U) : session' = [mode |-> mode, scenarios |-> [k \in DOMAIN f |-> d.scenarios[f[k]]]]
      BY <2>1
    <2>3. session'.mode = mode /\ session'.scenarios = [k \in DOMAIN f |-> d.scenarios[f[k]]]
      BY <2>2
    <2> SUFFICES ASSUME mode = "base_vs_adapter", NEW i \in Nat
                 PROVE  ScenarioOf(i)'.split # "train"
      BY <2>3 DEF HeldOut
    <2>4. Target <= Cardinality(U) /\ Target \in Nat \ {0}
      BY <2>1 DEF Opens, EvaluationAssumption
    <2>5. IsFiniteSet(U)
      <3>1. d.scenarios \in Seq({d.scenarios[n] : n \in DOMAIN d.scenarios})
        BY DEF EvaluationAssumption
      <3>2. DOMAIN d.scenarios = 1 .. Len(d.scenarios) /\ Len(d.scenarios) \in Nat
        BY <3>1
      <3>3. IsFiniteSet(1 .. Len(d.scenarios))
        BY <3>2, FS_Interval
      <3> QED BY <3>2, <3>3, FS_Subset DEF Usable
    <2>6. Cardinality(U) \in Nat \ {0}
      BY <2>4, <2>5, FS_CardinalityType
    <2>7. f \in [1 .. Cardinality(U) -> U]
      BY DEF InOrder
    <2>8. session'.scenarios = [k \in 1 .. Cardinality(U) |-> d.scenarios[f[k]]]
      BY <2>3, <2>7
    <2> DEFINE n == Cardinality(U)
    <2>9. Len(session'.scenarios) = n
      BY <2>6, <2>8
    <2>10. (i % n) + 1 \in 1 .. n
      <3>1. n \in Nat /\ n > 0 /\ i \in Int
        BY <2>6
      <3>2. i % n \in 0 .. (n - 1)
        <4> HIDE DEF n
        <4> QED BY <3>1
      <3> QED BY <3>1, <3>2
    <2>11. ScenarioOf(i)' = d.scenarios[f[(i % n) + 1]]
      BY <2>8, <2>9, <2>10 DEF ScenarioOf
    <2>12. f[(i % n) + 1] \in U
      BY <2>7, <2>10
    <2> QED BY <2>11, <2>12 DEF Usable
  <1>6. Exported'
    <2>1. exported.records = {} /\ \A x \in Exports : exporting[x].pc # "writing"
      BY <1>1 DEF EvaluationInv, Exported
    <2> QED BY <1>1, <2>1 DEF EvaluationInv, Exported
  <1> QED BY <1>1, <1>2, <1>4, <1>5, <1>6, Untouched DEF EvaluationInv

LEMMA CallKeeps ==
  ASSUME EvaluationInv, NEW c \in Calls, Call(c) \/ EnterService(c)
  PROVE  EvaluationInv'
  <1>1. /\ UNCHANGED <<lock, pairs, votes, selected, session, seen, exporting, exported>>
        /\ session # NoSession
    BY DEF Call, EnterService, CallKept, others, EvaluationInv, Begun
  <1>2. PICK pc \in {"waits", "flock"}, n \in {call[c].service, Len(services)} :
          call' = [call EXCEPT ![c].pc = pc, ![c].service = n]
    <2>1. CASE Call(c)
      BY <2>1 DEF Call
    <2>2. CASE EnterService(c)
      <3>1. call' = [call EXCEPT ![c].pc = "flock"] /\ DOMAIN call = Calls
        BY <2>2 DEF EnterService, EvaluationInv, CallTypes
      <3>2. call[c] \in [pc : {call[c].pc}, service : {call[c].service}, next : Nat, until : {call[c].until},
                         arts : {call[c].arts}, revision : {call[c].revision}]
        BY DEF EvaluationInv, CallTypes
      <3>3. [call EXCEPT ![c].pc = "flock"] = [call EXCEPT ![c].pc = "flock", ![c].service = call[c].service]
        BY <3>1, <3>2
      <3> QED BY <3>1, <3>3
    <2> QED BY <2>1, <2>2
  <1>3. CallTypes' /\ Leased' /\ BatchAgrees'
    <2>1. DOMAIN call = Calls
      BY DEF EvaluationInv, CallTypes
    <2>2. DOMAIN call' = Calls /\ \A d \in Calls \ {c} : call'[d] = call[d]
      BY <1>2, <2>1
    <2>3. call[c] \in [pc : {call[c].pc}, service : {call[c].service}, next : Nat, until : {call[c].until},
                       arts : {call[c].arts}, revision : {call[c].revision}]
      BY DEF EvaluationInv, CallTypes
    <2>4. call'[c] = [call[c] EXCEPT !.pc = pc, !.service = n]
      BY <1>2, <2>1
    <2>5. call'[c].pc = pc
      BY <2>3, <2>4
    <2>6. CallTypes'
      BY <2>1, <2>2, <2>3, <2>4 DEF EvaluationInv, CallTypes
    <2>7. Leased'
      BY <1>1, <2>2, <2>5 DEF EvaluationInv, Leased, InBatch
    <2>8. Selected' = Selected /\ Consistent(Selected)' = Consistent(Selected)
      BY <1>1 DEF Selected, Consistent
    <2>9. BatchAgrees'
      BY <1>1, <2>2, <2>5, <2>8 DEF EvaluationInv, BatchAgrees, InBatch
    <2> QED BY <2>6, <2>7, <2>9
  <1>4. Begun'
    BY <1>1 DEF Begun
  <1> QED BY <1>1, <1>3, <1>4, Untouched DEF EvaluationInv

\* What a call's own record becomes, the others keep theirs.
LEMMA CallBecomes ==
  ASSUME EvaluationInv, NEW c \in Calls, NEW x, call' = [call EXCEPT ![c] = x],
         x \in [pc : {x.pc}, service : {x.service}, next : Nat, until : {x.until},
                arts : {x.arts}, revision : {x.revision}]
  PROVE  CallTypes' /\ call'[c] = x /\ \A d \in Calls \ {c} : call'[d] = call[d]
  BY DEF EvaluationInv, CallTypes

\* A call that ends leaves the lock to others.
LEMMA EndsKeeps ==
  ASSUME EvaluationInv, NEW c \in Calls, NEW pc \in {"done", "failed"}, Ends(c, pc),
         call[c].pc \in InBatch \/ lock = "free",
         session # NoSession,
         UNCHANGED <<others, session, seen, exporting, exported, pairs, votes>>
  PROVE  EvaluationInv'
  <1> DEFINE x == [pc |-> pc, service |-> 0, next |-> 0, until |-> 0, arts |-> NoArtifacts, revision |-> Chosen]
  <1>1. [Idle EXCEPT !.pc = pc] = x
    BY DEF Idle
  <1>2. call' = [call EXCEPT ![c] = x] /\ lock' = "free"
    BY <1>1 DEF Ends
  <1>3. CallTypes' /\ call'[c] = x /\ \A d \in Calls \ {c} : call'[d] = call[d]
    BY <1>2, CallBecomes
  <1>4. \A d \in Calls : call'[d].pc \notin InBatch
    BY <1>3 DEF EvaluationInv, Leased, InBatch
  <1>5. Leased' /\ BatchAgrees'
    BY <1>4 DEF Leased, BatchAgrees, InBatch
  <1>6. Begun' /\ UNCHANGED selected
    BY DEF Begun, others
  <1> QED BY <1>3, <1>5, <1>6, Untouched DEF EvaluationInv

LEMMA TakeLeaseKeeps ==
  ASSUME EvaluationInv, NEW c \in Calls, TakeLease(c)
  PROVE  EvaluationInv'
  <1> DEFINE existing == Cardinality(DOMAIN pairs)
             may == \E arts \in Artifacts \cup {NoArtifacts} :
                      (session.mode = "base_vs_adapter" => arts \in Artifacts) /\ MayGenerate(arts)
             x == [call[c] EXCEPT !.pc = "batch", !.next = existing,
                                  !.until = existing + Quota(c), !.revision = selected]
  <1>1. /\ call[c].pc = "flock" /\ lock = "free"
        /\ UNCHANGED <<others, session, seen, exporting, exported, pairs, votes>>
    BY DEF TakeLease, CallKept
  <1>2. session # NoSession
    BY <1>1 DEF EvaluationInv, Begun
  <1>3. CASE ~may
    BY <1>1, <1>2, <1>3, EndsKeeps DEF TakeLease
  <1>4. CASE may
    <2>1. lock' = "gateway" /\ call' = [call EXCEPT ![c] = x]
      BY <1>4 DEF TakeLease
    <2>2. existing \in Nat
      BY FS_CardinalityType DEF EvaluationInv, Stored
    <2>3. call[c] \in [pc : {call[c].pc}, service : {call[c].service}, next : Nat, until : {call[c].until},
                       arts : {call[c].arts}, revision : {call[c].revision}]
      BY DEF EvaluationInv, CallTypes
    <2>4. x.pc = "batch" /\ x \in [pc : {x.pc}, service : {x.service}, next : Nat, until : {x.until},
                                  arts : {x.arts}, revision : {x.revision}]
      BY <2>2, <2>3
    <2>5. CallTypes' /\ call'[c] = x /\ \A d \in Calls \ {c} : call'[d] = call[d]
      <3> HIDE DEF x
      <3> QED BY <2>1, <2>4, CallBecomes
    <2>6. \A d \in Calls : call[d].pc \notin InBatch
      BY <1>1 DEF EvaluationInv, Leased
    <2>7. Leased'
      BY <2>1, <2>4, <2>5, <2>6 DEF Leased
    <2>8. session.mode = "base_vs_adapter" => Selected.adapter # NoId /\ Consistent(Selected)
      BY <1>4, ArtifactsSelected DEF MayGenerate
    <2>9. Selected' = Selected /\ Consistent(Selected)' = Consistent(Selected) /\ session' = session
      BY <1>1 DEF Selected, Consistent, others
    <2>10. \A d \in Calls : call'[d].pc # "asks"
      BY <2>4, <2>5, <2>6 DEF InBatch
    <2>11. BatchAgrees'
      BY <2>8, <2>9, <2>10 DEF BatchAgrees
    <2>12. Begun' /\ UNCHANGED selected
      BY <1>1, <1>2 DEF Begun, others
    <2> QED BY <1>1, <2>5, <2>7, <2>11, <2>12, Untouched DEF EvaluationInv
  <1> QED BY <1>3, <1>4

LEMMA StartPairKeeps ==
  ASSUME EvaluationInv, NEW c \in Calls, StartPair(c)
  PROVE  EvaluationInv'
  <1>1. /\ call[c].pc = "batch"
        /\ UNCHANGED <<others, session, seen, exporting, exported, pairs, votes>>
    BY DEF StartPair, CallKept
  <1>2. session # NoSession
    BY <1>1 DEF EvaluationInv, Begun
  <1>3. CASE Ends(c, "failed")
    BY <1>1, <1>2, <1>3, EndsKeeps DEF InBatch
  <1>4. CASE UNCHANGED lock /\ \E arts \in Artifacts : call' = [call EXCEPT ![c].pc = "asks", ![c].arts = arts]
    <2>1. PICK arts \in Artifacts : call' = [call EXCEPT ![c].pc = "asks", ![c].arts = arts]
      BY <1>4
    <2> DEFINE x == [call[c] EXCEPT !.pc = "asks", !.arts = arts]
    <2>2. call' = [call EXCEPT ![c] = x]
      BY <2>1 DEF EvaluationInv, CallTypes
    <2>3. call[c] \in [pc : {call[c].pc}, service : {call[c].service}, next : Nat, until : {call[c].until},
                       arts : {call[c].arts}, revision : {call[c].revision}]
      BY DEF EvaluationInv, CallTypes
    <2>4. /\ x.pc = "asks" /\ x.arts = arts
          /\ x \in [pc : {x.pc}, service : {x.service}, next : Nat, until : {x.until},
                    arts : {x.arts}, revision : {x.revision}]
      BY <2>3
    <2>5. CallTypes' /\ call'[c] = x /\ \A d \in Calls \ {c} : call'[d] = call[d]
      <3> HIDE DEF x
      <3> QED BY <2>2, <2>4, CallBecomes
    <2>6. Leased'
      <3> HIDE DEF x
      <3>1. lock = "gateway" /\ \A d \in Calls \ {c} : call[d].pc \notin InBatch
        BY <1>1 DEF EvaluationInv, Leased, InBatch
      <3>2. lock' = "gateway" /\ \A d \in Calls \ {c} : call'[d].pc \notin InBatch
        BY <1>4, <2>5, <3>1
      <3> QED BY <3>2 DEF Leased
    <2>7. Selected' = Selected /\ Consistent(Selected)' = Consistent(Selected) /\ session' = session
      BY <1>1 DEF Selected, Consistent, others
    <2>8. arts = Selected
      BY ArtifactsSelected
    <2>9. BatchAgrees'
      <3> HIDE DEF x
      <3> QED BY <1>1, <2>4, <2>5, <2>7, <2>8 DEF EvaluationInv, BatchAgrees, InBatch
    <2>10. Begun' /\ UNCHANGED selected
      BY <1>1, <1>2 DEF Begun, others
    <2> QED BY <1>1, <2>5, <2>6, <2>9, <2>10, Untouched DEF EvaluationInv
  <1> QED BY <1>3, <1>4 DEF StartPair

LEMMA EndBatchKeeps ==
  ASSUME EvaluationInv, NEW c \in Calls, EndBatch(c)
  PROVE  EvaluationInv'
  <1>1. /\ call[c].pc = "batch"
        /\ UNCHANGED <<others, session, seen, exporting, exported, pairs, votes>>
    BY DEF EndBatch, CallKept
  <1>2. session # NoSession
    BY <1>1 DEF EvaluationInv, Begun
  <1>3. \E pc \in {"done", "failed"} : Ends(c, pc)
    BY DEF EndBatch
  <1> QED BY <1>1, <1>2, <1>3, EndsKeeps DEF InBatch

\* A pair that is added has the artifacts of the batch, and no vote yet.
LEMMA AddPairStores ==
  ASSUME EvaluationAssumption, EvaluationInv, NEW c \in Calls, NEW i \in Nat, i \notin DOMAIN pairs,
         NEW o \in Outcomes, NEW order \in Orders, AddPair(i, NewPair(i, c, o, order))
  PROVE  /\ Stored'
         /\ DOMAIN pairs' = DOMAIN pairs \cup {i}
         /\ \A j \in DOMAIN pairs : pairs'[j] = pairs[j] /\ votes'[j] = votes[j]
         /\ pairs'[i].model = call[c].arts.model /\ pairs'[i].adapterB = call[c].arts.adapter
         /\ session.mode = "base_vs_adapter" => pairs'[i].adapterA = NoId
  <1> DEFINE p == NewPair(i, c, o, order)
  <1>1. pairs' = Extend(pairs, i, p) /\ votes' = Extend(votes, i, <<>>)
    BY DEF AddPair
  <1>2. /\ p \in [model : {p.model}, adapterA : {p.adapterA}, adapterB : {p.adapterB},
                  seedA : {p.seedA}, seedB : {p.seedB}, order : {"ab", "ba"},
                  status : {"duplicate_generation", "pending"}]
        /\ p.model = call[c].arts.model /\ p.adapterB = call[c].arts.adapter
        /\ session.mode = "base_vs_adapter" => p.adapterA = NoId
    <2>1. order \in {"ab", "ba"}
      BY DEF EvaluationAssumption
    <2> DEFINE seeds == Seeds(i, IF o.again THEN LastAttempt ELSE 0)
               status == IF o.same THEN "duplicate_generation" ELSE "pending"
               who == Candidates(call[c].arts)
    <2>2. who.model = call[c].arts.model /\ who.adapterB = call[c].arts.adapter
          /\ (session.mode = "base_vs_adapter" => who.adapterA = NoId)
      BY DEF Candidates
    <2>3. p = [model |-> who.model, adapterA |-> who.adapterA, adapterB |-> who.adapterB,
               seedA |-> seeds.seedA, seedB |-> seeds.seedB, order |-> order, status |-> status]
      BY DEF NewPair
    <2>4. status \in {"duplicate_generation", "pending"}
      OBVIOUS
    <2> HIDE DEF p, seeds, status, who
    <2> QED BY <2>1, <2>2, <2>3, <2>4
  <1>3. /\ DOMAIN pairs' = DOMAIN pairs \cup {i} /\ pairs'[i] = p
        /\ \A j \in DOMAIN pairs : pairs'[j] = pairs[j]
    <2> HIDE DEF p
    <2> QED BY <1>1 DEF Extend
  <1>4. /\ DOMAIN votes' = DOMAIN votes \cup {i} /\ votes'[i] = <<>>
        /\ \A j \in DOMAIN votes : votes'[j] = votes[j]
    BY <1>1 DEF Extend, EvaluationInv, Stored
  <1>5. Stored'
    <2>1. DOMAIN pairs' \subseteq Nat /\ IsFiniteSet(DOMAIN pairs') /\ DOMAIN votes' = DOMAIN pairs'
      BY <1>3, <1>4, FS_AddElement DEF EvaluationInv, Stored
    <2>2. ASSUME NEW j \in DOMAIN pairs'
          PROVE  /\ pairs'[j] \in [model : {pairs'[j].model}, adapterA : {pairs'[j].adapterA},
                                   adapterB : {pairs'[j].adapterB}, seedA : {pairs'[j].seedA},
                                   seedB : {pairs'[j].seedB}, order : {"ab", "ba"},
                                   status : {"duplicate_generation", "pending", "reviewed"}]
                 /\ votes'[j] \in Seq(VoteRecords)
                 /\ \A n \in 1 .. Len(votes'[j]) : votes'[j][n].over = n - 1
                 /\ pairs'[j].status = "reviewed" <=> votes'[j] # <<>>
      <3>1. CASE j = i
        <4>1. pairs'[j] = p /\ votes'[j] = <<>>
          BY <1>3, <1>4, <3>1
        <4>2. p.status \in {"duplicate_generation", "pending"}
          BY <1>2
        <4>3. votes'[j] \in Seq(VoteRecords) /\ \A n \in 1 .. Len(votes'[j]) : votes'[j][n].over = n - 1
          BY <4>1
        <4> HIDE DEF p
        <4> QED BY <1>2, <4>1, <4>2, <4>3
      <3>2. CASE j # i
        <4>1. j \in DOMAIN pairs /\ pairs'[j] = pairs[j] /\ votes'[j] = votes[j]
          BY <1>3, <1>4, <3>2 DEF EvaluationInv, Stored
        <4> QED BY <4>1 DEF EvaluationInv, Stored
      <3> QED BY <3>1, <3>2
    <2> QED BY <2>1, <2>2 DEF Stored
  <1> HIDE DEF p
  <1> QED BY <1>2, <1>3, <1>4, <1>5 DEF EvaluationInv, Stored

LEMMA EndPairKeeps ==
  ASSUME EvaluationAssumption, EvaluationInv, NEW c \in Calls, EndPair(c)
  PROVE  EvaluationInv'
  <1> DEFINE i == call[c].next
  <1>1. /\ call[c].pc = "asks"
        /\ UNCHANGED <<others, session, seen, exporting, exported>>
    BY DEF EndPair, CallKept
  <1>2. session # NoSession
    BY <1>1 DEF EvaluationInv, Begun
  <1>3. CASE Ends(c, "failed") /\ UNCHANGED <<pairs, votes>>
    BY <1>1, <1>2, <1>3, EndsKeeps DEF InBatch
  <1>4. CASE /\ i \notin DOMAIN pairs
             /\ \E o \in Outcomes, order \in Orders : AddPair(i, NewPair(i, c, o, order))
             /\ call' = [call EXCEPT ![c].pc = "batch", ![c].next = i + 1, ![c].arts = NoArtifacts]
             /\ UNCHANGED lock
    <2>1. call[c] \in [pc : {call[c].pc}, service : {call[c].service}, next : Nat, until : {call[c].until},
                       arts : {call[c].arts}, revision : {call[c].revision}]
      BY DEF EvaluationInv, CallTypes
    <2>2. i \in Nat
      BY <2>1
    <2>3. /\ Stored'
          /\ DOMAIN pairs' = DOMAIN pairs \cup {i}
          /\ \A j \in DOMAIN pairs : pairs'[j] = pairs[j] /\ votes'[j] = votes[j]
          /\ pairs'[i].model = call[c].arts.model /\ pairs'[i].adapterB = call[c].arts.adapter
          /\ session.mode = "base_vs_adapter" => pairs'[i].adapterA = NoId
      <3> HIDE DEF i
      <3> QED BY <1>4, <2>2, AddPairStores
    <2> DEFINE x == [call[c] EXCEPT !.pc = "batch", !.next = i + 1, !.arts = NoArtifacts]
    <2>4. call' = [call EXCEPT ![c] = x]
      BY <1>4 DEF EvaluationInv, CallTypes
    <2>5. x.pc = "batch" /\ x \in [pc : {x.pc}, service : {x.service}, next : Nat, until : {x.until},
                                  arts : {x.arts}, revision : {x.revision}]
      <3>1. i + 1 \in Nat
        BY <2>2
      <3> DEFINE k == i + 1
      <3>2. x = [call[c] EXCEPT !.pc = "batch", !.next = k, !.arts = NoArtifacts] /\ k \in Nat
        BY <3>1
      <3> HIDE DEF i, k, x
      <3> QED BY <2>1, <3>2
    <2>6. CallTypes' /\ call'[c] = x /\ \A d \in Calls \ {c} : call'[d] = call[d]
      <3> HIDE DEF x
      <3> QED BY <2>4, <2>5, CallBecomes
    <2> HIDE DEF x, i
    <2>7. Leased'
      <3>1. lock = "gateway" /\ \A d \in Calls \ {c} : call[d].pc \notin InBatch
        BY <1>1 DEF EvaluationInv, Leased, InBatch
      <3>2. lock' = "gateway" /\ \A d \in Calls \ {c} : call'[d].pc \notin InBatch
        BY <1>4, <2>6, <3>1
      <3> QED BY <3>2 DEF Leased
    <2>8. Selected' = Selected /\ session' = session /\ UNCHANGED selected
      BY <1>1 DEF Selected, others
    <2>9. call[c].arts = Selected
      BY <1>1 DEF EvaluationInv, BatchAgrees
    <2>10. session.mode = "base_vs_adapter" => Selected.adapter # NoId /\ Consistent(Selected)'
      <3> SUFFICES ASSUME session.mode = "base_vs_adapter"
                   PROVE  Selected.adapter # NoId /\ Consistent(Selected)'
        OBVIOUS
      <3>1. Selected.adapter # NoId /\ Consistent(Selected)
        BY <1>1 DEF EvaluationInv, BatchAgrees, InBatch
      <3> QED BY <2>3, <2>8, <2>9, <3>1 DEF Consistent
    <2>11. BatchAgrees'
      <3>1. \A d \in Calls : call'[d].pc \in InBatch => d = c
        BY <1>1, <2>6 DEF EvaluationInv, Leased, InBatch
      <3> QED BY <2>5, <2>6, <2>8, <2>10, <3>1 DEF BatchAgrees, InBatch
    <2>12. SessionKeepsArtifacts'
      <3> SUFFICES ASSUME session.mode = "base_vs_adapter", NEW j \in DOMAIN pairs', NEW k \in DOMAIN pairs'
                   PROVE  /\ pairs'[j].model = pairs'[k].model
                          /\ pairs'[j].adapterB = pairs'[k].adapterB /\ pairs'[j].adapterB # NoId
        BY <2>8 DEF SessionKeepsArtifacts
      <3> QED BY <2>8, <2>10 DEF Consistent
    <2>13. Begun'
      BY <1>1, <1>2 DEF Begun
    <2>14. Shown'
      BY <1>1, <2>3 DEF EvaluationInv, Shown
    <2>15. Exported'
      <3>1. \A e, format : Backed(e, format) => Backed(e, format)'
        BY <2>3, <2>8 DEF Backed, EvaluationInv, Stored, ScenarioOf
      <3> QED BY <1>1, <3>1 DEF EvaluationInv, Exported
    <2> QED BY <1>1, <2>3, <2>6, <2>7, <2>8, <2>11, <2>12, <2>13, <2>14, <2>15, Untouched DEF EvaluationInv
  <1> QED BY <1>3, <1>4 DEF EndPair

LEMMA LeaseElsewhereKeeps ==
  ASSUME EvaluationInv, LeaseElsewhere
  PROVE  EvaluationInv'
  <1>1. UNCHANGED <<selected, session, pairs, votes, call, seen, exporting, exported>> /\ lock # "gateway"
    BY DEF LeaseElsewhere, others, evalVars
  <1>2. \A c \in Calls : call'[c].pc \notin InBatch
    BY <1>1 DEF EvaluationInv, Leased
  <1>3. Leased'
    BY <1>2 DEF Leased
  <1> QED BY <1>1, <1>3, Untouched DEF EvaluationInv

LEMMA ViewKeeps ==
  ASSUME EvaluationInv, NEW r \in Reviewers, View(r)
  PROVE  EvaluationInv'
  <1>1. PICK i \in Pending :
          seen' = [seen EXCEPT ![r] =
            [pair |-> i, vote |-> 0, left |-> IF pairs[i].order = "ab" THEN "a" ELSE "b",
             right |-> IF pairs[i].order = "ab" THEN "b" ELSE "a"]]
    BY DEF View
  <1> DEFINE ab == pairs[i].order = "ab"
             x == [pair |-> i, vote |-> 0, left |-> IF ab THEN "a" ELSE "b", right |-> IF ab THEN "b" ELSE "a"]
  <1>2. /\ UNCHANGED <<selected, lock, session, pairs, votes, call, exporting, exported>>
        /\ seen' = [seen EXCEPT ![r] = x]
    BY <1>1 DEF View, registryVars
  <1>3. i \in DOMAIN pairs /\ i \in Nat
    BY DEF Pending, EvaluationInv, Stored
  <1>4. /\ x \in [pair : Nat \cup {-1}, vote : Nat, left : {"a", "b"}, right : {"a", "b"}]
        /\ x.pair = i /\ x.left = IF ab THEN "a" ELSE "b"
        /\ x.right = IF ab THEN "b" ELSE "a"
    BY <1>3
  <1> HIDE DEF x
  <1>5. DOMAIN seen' = Reviewers /\ seen'[r] = x /\ \A q \in Reviewers \ {r} : seen'[q] = seen[q]
    BY <1>2 DEF EvaluationInv, Shown
  <1>6. Shown'
    BY <1>2, <1>3, <1>4, <1>5 DEF EvaluationInv, Shown
  <1> QED BY <1>2, <1>6, Untouched DEF EvaluationInv

LEMMA VoteKeeps ==
  ASSUME EvaluationInv, NEW r \in Reviewers, Vote(r)
  PROVE  EvaluationInv'
  <1> DEFINE i == seen[r].pair
  <1>1. /\ i # -1
        /\ UNCHANGED <<selected, lock, session, call, exporting, exported>>
    BY DEF Vote, registryVars
  <1>2. PICK selection \in {"left", "right", "neither"}, sft \in BOOLEAN :
          IF Accepts(i, seen[r].vote)
          THEN /\ AddVote(i, [pick |-> Canonical(i, selection), over |-> seen[r].vote,
                              sft |-> sft,
                              liked |-> CASE selection = "left" -> seen[r].left
                                          [] selection = "right" -> seen[r].right
                                          [] OTHER -> selection])
               /\ told' = Comparison(pairs', votes')
               /\ \/ seen' = [seen EXCEPT ![r].vote = Len(votes'[i])]
                  \/ seen' = [seen EXCEPT ![r] = NoPair]
          ELSE /\ seen' = [seen EXCEPT ![r] = NoPair]
               /\ UNCHANGED <<votes, pairs, told>>
    BY DEF Vote
  <1>3. /\ DOMAIN seen = Reviewers
        /\ seen[r] \in [pair : Nat \cup {-1}, vote : Nat, left : {"a", "b"}, right : {"a", "b"}]
        /\ i \in DOMAIN pairs
        /\ seen[r].left = IF pairs[i].order = "ab" THEN "a" ELSE "b"
        /\ seen[r].right = IF pairs[i].order = "ab" THEN "b" ELSE "a"
    BY <1>1 DEF EvaluationInv, Shown
  <1>4. ASSUME seen' = [seen EXCEPT ![r] = NoPair], DOMAIN pairs' = DOMAIN pairs,
               \A j \in DOMAIN pairs : pairs'[j].order = pairs[j].order
        PROVE  Shown'
    <2>1. DOMAIN seen' = Reviewers /\ seen'[r] = NoPair /\ \A q \in Reviewers \ {r} : seen'[q] = seen[q]
      BY <1>3, <1>4
    <2>2. NoPair \in [pair : Nat \cup {-1}, vote : Nat, left : {"a", "b"}, right : {"a", "b"}] /\ NoPair.pair = -1
      BY DEF NoPair
    <2> QED BY <1>4, <2>1, <2>2 DEF EvaluationInv, Shown
  <1>5. CASE ~Accepts(i, seen[r].vote)
    <2>1. seen' = [seen EXCEPT ![r] = NoPair] /\ UNCHANGED <<votes, pairs>>
      BY <1>2, <1>5
    <2> QED BY <1>1, <1>4, <2>1, Untouched DEF EvaluationInv
  <1>6. CASE Accepts(i, seen[r].vote)
    <2> DEFINE liked == CASE selection = "left" -> seen[r].left
                          [] selection = "right" -> seen[r].right
                          [] OTHER -> selection
               vote == [pick |-> Canonical(i, selection), over |-> seen[r].vote, sft |-> sft, liked |-> liked]
    <2>1. /\ votes' = [votes EXCEPT ![i] = Append(@, vote)]
          /\ pairs' = [pairs EXCEPT ![i].status = "reviewed"]
          /\ \/ seen' = [seen EXCEPT ![r].vote = Len(votes'[i])]
             \/ seen' = [seen EXCEPT ![r] = NoPair]
      BY <1>2, <1>6 DEF AddVote
    <2>2. /\ DOMAIN votes = DOMAIN pairs /\ votes[i] \in Seq(VoteRecords)
          /\ \A n \in 1 .. Len(votes[i]) : votes[i][n].over = n - 1
          /\ pairs[i] \in [model : {pairs[i].model}, adapterA : {pairs[i].adapterA}, adapterB : {pairs[i].adapterB},
                           seedA : {pairs[i].seedA}, seedB : {pairs[i].seedB}, order : {"ab", "ba"},
                           status : {"duplicate_generation", "pending", "reviewed"}]
      BY <1>3 DEF EvaluationInv, Stored
    <2>3. seen[r].vote = Len(votes[i])
      BY <1>6, <2>2, CurrentIsLast DEF Accepts
    <2>4. Canonical(i, selection) = liked /\ liked \in {"a", "b", "neither"}
      <3>1. CASE selection = "left"
        BY <1>3, <3>1 DEF Canonical
      <3>2. CASE selection = "right"
        BY <1>3, <3>2 DEF Canonical
      <3>3. CASE selection = "neither"
        BY <3>3 DEF Canonical
      <3> QED BY <3>1, <3>2, <3>3
    <2>5. vote \in VoteRecords /\ vote.over = Len(votes[i])
      <3>1. Len(votes[i]) \in Nat
        BY <2>2
      <3> DEFINE k == seen[r].vote
                 y == Canonical(i, selection)
      <3>2. k \in Nat /\ k = Len(votes[i]) /\ y = liked
        BY <2>3, <2>4, <3>1
      <3>3. vote = [pick |-> y, over |-> k, sft |-> sft, liked |-> liked] /\ liked \in {"a", "b", "neither"}
        BY <2>4
      <3> HIDE DEF vote, liked, k, y
      <3> QED BY <3>2, <3>3 DEF VoteRecords
    <2> HIDE DEF vote
    <2>6. /\ votes'[i] = Append(votes[i], vote) /\ DOMAIN votes' = DOMAIN votes
          /\ \A j \in DOMAIN votes \ {i} : votes'[j] = votes[j]
      BY <1>3, <2>1, <2>2
    <2>7. /\ votes'[i] \in Seq(VoteRecords) /\ votes'[i] # <<>>
          /\ Len(votes'[i]) = Len(votes[i]) + 1
          /\ \A n \in 1 .. Len(votes[i]) : votes'[i][n] = votes[i][n]
          /\ votes'[i][Len(votes[i]) + 1] = vote
      <3> DEFINE log == votes[i]
                 new == votes'[i]
      <3>1. log \in Seq(VoteRecords) /\ vote \in VoteRecords /\ new = Append(log, vote)
        BY <2>2, <2>5, <2>6
      <3> HIDE DEF log, new
      <3>2. /\ new \in Seq(VoteRecords) /\ new # <<>> /\ Len(new) = Len(log) + 1
            /\ \A n \in 1 .. Len(log) : new[n] = log[n]
            /\ new[Len(log) + 1] = vote
        BY <3>1, AppendProperties
      <3> QED BY <3>2 DEF log, new
    <2>8. \A n \in 1 .. Len(votes'[i]) : votes'[i][n].over = n - 1
      <3>1. Len(votes[i]) \in Nat
        BY <2>2
      <3> TAKE n \in 1 .. Len(votes'[i])
      <3>2. CASE n = Len(votes[i]) + 1
        BY <2>5, <2>7, <3>1, <3>2
      <3>3. CASE n # Len(votes[i]) + 1
        <4>1. n \in 1 .. Len(votes[i])
          BY <2>7, <3>1, <3>3
        <4> QED BY <2>2, <2>7, <4>1
      <3> QED BY <3>2, <3>3
    <2>9. /\ DOMAIN pairs' = DOMAIN pairs /\ \A j \in DOMAIN pairs \ {i} : pairs'[j] = pairs[j]
          /\ pairs'[i] = [pairs[i] EXCEPT !.status = "reviewed"]
      BY <1>3, <2>1
    <2>10. /\ pairs'[i] \in [model : {pairs[i].model}, adapterA : {pairs[i].adapterA}, adapterB : {pairs[i].adapterB},
                             seedA : {pairs[i].seedA}, seedB : {pairs[i].seedB}, order : {"ab", "ba"},
                             status : {"duplicate_generation", "pending", "reviewed"}]
           /\ pairs'[i].status = "reviewed"
           /\ pairs'[i].model = pairs[i].model /\ pairs'[i].adapterA = pairs[i].adapterA
           /\ pairs'[i].adapterB = pairs[i].adapterB /\ pairs'[i].order = pairs[i].order
      BY <2>2, <2>9
    <2>11. Stored'
      <3>1. ASSUME NEW j \in DOMAIN pairs
            PROVE  /\ pairs'[j] \in [model : {pairs'[j].model}, adapterA : {pairs'[j].adapterA},
                                     adapterB : {pairs'[j].adapterB}, seedA : {pairs'[j].seedA},
                                     seedB : {pairs'[j].seedB}, order : {"ab", "ba"},
                                     status : {"duplicate_generation", "pending", "reviewed"}]
                   /\ votes'[j] \in Seq(VoteRecords)
                   /\ \A n \in 1 .. Len(votes'[j]) : votes'[j][n].over = n - 1
                   /\ pairs'[j].status = "reviewed" <=> votes'[j] # <<>>
        <4>1. CASE j = i
          <5>1. pairs'[j] \in [model : {pairs'[j].model}, adapterA : {pairs'[j].adapterA},
                               adapterB : {pairs'[j].adapterB}, seedA : {pairs'[j].seedA},
                               seedB : {pairs'[j].seedB}, order : {"ab", "ba"},
                               status : {"duplicate_generation", "pending", "reviewed"}]
            BY <2>10, <4>1
          <5> QED BY <2>7, <2>8, <2>10, <4>1, <5>1
        <4>2. CASE j # i
          BY <2>2, <2>6, <2>9, <4>2 DEF EvaluationInv, Stored
        <4> QED BY <4>1, <4>2
      <3> QED BY <2>2, <2>6, <2>9, <3>1 DEF EvaluationInv, Stored
    <2>12. /\ \A j \in DOMAIN pairs : /\ pairs'[j].model = pairs[j].model /\ pairs'[j].adapterA = pairs[j].adapterA
                                     /\ pairs'[j].adapterB = pairs[j].adapterB /\ pairs'[j].order = pairs[j].order
           /\ DOMAIN pairs' = DOMAIN pairs
      BY <2>9, <2>10
    <2>13. Shown'
      <3>1. CASE seen' = [seen EXCEPT ![r] = NoPair]
        BY <1>4, <2>12, <3>1
      <3>2. CASE seen' = [seen EXCEPT ![r].vote = Len(votes'[i])]
        <4>1. Len(votes'[i]) \in Nat
          BY <2>7
        <4>2. /\ DOMAIN seen' = Reviewers /\ \A q \in Reviewers \ {r} : seen'[q] = seen[q]
              /\ seen'[r] = [seen[r] EXCEPT !.vote = Len(votes'[i])]
          BY <1>3, <3>2
        <4> DEFINE k == Len(votes'[i])
        <4>3. /\ seen'[r] \in [pair : Nat \cup {-1}, vote : Nat, left : {"a", "b"}, right : {"a", "b"}]
              /\ seen'[r].pair = i /\ seen'[r].left = seen[r].left /\ seen'[r].right = seen[r].right
          <5>1. k \in Nat /\ seen'[r] = [seen[r] EXCEPT !.vote = k]
            BY <4>1, <4>2
          <5> HIDE DEF k
          <5> QED BY <1>3, <5>1
        <4> HIDE DEF i
        <4> QED BY <1>3, <2>12, <4>2, <4>3 DEF EvaluationInv, Shown
      <3> QED BY <2>1, <3>1, <3>2
    <2>14. Begun'
      <3>1. session # NoSession
        <4>1. DOMAIN pairs # {}
          BY <1>3
        <4> QED BY <4>1 DEF EvaluationInv, Begun
      <3> QED BY <1>1, <3>1 DEF Begun
    <2>15. BatchAgrees'
      <3>1. Selected' = Selected
        BY <1>1 DEF Selected
      <3>2. Consistent(Selected) => Consistent(Selected)'
        BY <2>12, <3>1 DEF Consistent
      <3> QED BY <1>1, <3>1, <3>2 DEF EvaluationInv, BatchAgrees
    <2>16. SessionKeepsArtifacts'
      BY <1>1, <2>12 DEF EvaluationInv, SessionKeepsArtifacts
    <2>17. Exported'
      <3>1. ASSUME NEW e, NEW format, Backed(e, format)
            PROVE  Backed(e, format)'
        <4>1. e.pair \in DOMAIN votes' /\ ScenarioOf(e.pair)' = ScenarioOf(e.pair)
          BY <1>1, <2>6, <3>1 DEF Backed, ScenarioOf
        <4>2. ASSUME NEW n \in DOMAIN votes[e.pair]
              PROVE  n \in DOMAIN votes'[e.pair] /\ votes'[e.pair][n] = votes[e.pair][n]
          <5>1. CASE e.pair = i
            <6>1. n \in 1 .. Len(votes[i]) /\ Len(votes[i]) \in Nat
              BY <2>2, <4>2, <5>1
            <6>2. votes'[i] \in Seq(VoteRecords) /\ Len(votes'[i]) = Len(votes[i]) + 1 /\ votes'[i][n] = votes[i][n]
              BY <2>7, <6>1
            <6>3. DOMAIN votes'[i] = 1 .. Len(votes[i]) + 1
              BY <6>2
            <6> QED BY <5>1, <6>1, <6>2, <6>3
          <5>2. CASE e.pair # i
            BY <2>6, <3>1, <4>2, <5>2 DEF Backed
          <5> QED BY <5>1, <5>2
        <4> QED BY <3>1, <4>1, <4>2 DEF Backed
      <3> QED BY <1>1, <3>1 DEF EvaluationInv, Exported
    <2> QED BY <1>1, <2>11, <2>13, <2>14, <2>15, <2>16, <2>17, Untouched DEF EvaluationInv
  <1> QED BY <1>5, <1>6

\* What is read for an export is backed by the votes it was read from.
LEMMA RecordsBacked ==
  ASSUME EvaluationInv, NEW format, NEW e \in Records(format)
  PROVE  e \in ExportRecords /\ Backed(e, format)
  <1>1. PICK q \in Rows(pairs, votes) :
          /\ Trainable(q.pair) /\ q.vote # 0
          /\ votes[q.pair][q.vote].pick \in {"a", "b"}
          /\ (format = "sft" => votes[q.pair][q.vote].sft)
          /\ e = [pair |-> q.pair, chosen |-> votes[q.pair][q.vote].pick]
    BY DEF Records
  <1>2. PICK i \in DOMAIN pairs : \E n \in IF Unsuperseded(votes[i]) = {} THEN {0} ELSE Unsuperseded(votes[i]) :
                                    q = [pair |-> i, vote |-> n]
    BY DEF Rows
  <1>3. q.pair = i /\ q.vote \in Unsuperseded(votes[i])
    BY <1>1, <1>2
  <1>4. q.vote \in DOMAIN votes[i]
    BY <1>3 DEF Unsuperseded
  <1>5. i \in Nat /\ i \in DOMAIN votes /\ votes[i] \in Seq(VoteRecords)
    BY DEF EvaluationInv, Stored
  <1>6. votes[i][q.vote] \in VoteRecords
    BY <1>4, <1>5
  <1>7. votes[i][q.vote].pick = votes[i][q.vote].liked
    BY <1>6 DEF VoteRecords
  <1>8. e.pair = i /\ e.chosen = votes[i][q.vote].pick /\ e \in ExportRecords
    BY <1>1, <1>3, <1>5 DEF ExportRecords
  <1> QED BY <1>1, <1>3, <1>4, <1>5, <1>7, <1>8 DEF Backed, Trainable

LEMMA ExportKeeps ==
  ASSUME EvaluationAssumption, EvaluationInv, NEW x \in Exports, ExportRead(x) \/ ExportLink(x)
  PROVE  EvaluationInv'
  <1>1. UNCHANGED <<selected, lock, session, pairs, votes, call, seen>>
    BY DEF ExportRead, ExportLink, registryVars
  <1>2. \A e, format : Backed(e, format)' <=> Backed(e, format)
    BY <1>1 DEF Backed, ScenarioOf
  <1>3. /\ exporting \in [Exports -> [pc : {"idle", "writing", "failed", "done"}, records : SUBSET ExportRecords]]
        /\ exported \in [format : {"none", "dpo", "sft"}, records : SUBSET ExportRecords]
        /\ Format[x] \in {"dpo", "sft"}
    BY DEF EvaluationInv, Exported, EvaluationAssumption
  <1>4. CASE ExportRead(x)
    <2> DEFINE y == IF exported = NoExport THEN [pc |-> "writing", records |-> Records(Format[x])]
                    ELSE [pc |-> "failed", records |-> {}]
    <2>1. exporting' = [exporting EXCEPT ![x] = y] /\ UNCHANGED exported /\ session # NoSession
      BY <1>4 DEF ExportRead
    <2>2. /\ y \in [pc : {"idle", "writing", "failed", "done"}, records : SUBSET ExportRecords]
          /\ y.pc = "writing" => \A e \in y.records : Backed(e, Format[x])
      BY RecordsBacked
    <2> HIDE DEF y
    <2>3. exporting'[x] = y /\ \A z \in Exports \ {x} : exporting'[z] = exporting[z]
      BY <1>3, <2>1
    <2>4. exporting' \in [Exports -> [pc : {"idle", "writing", "failed", "done"}, records : SUBSET ExportRecords]]
      BY <1>3, <2>1, <2>2
    <2>5. Exported'
      BY <1>1, <1>2, <2>1, <2>2, <2>3, <2>4 DEF EvaluationInv, Exported
    <2> QED BY <1>1, <2>5, Untouched DEF EvaluationInv
  <1>5. CASE ExportLink(x)
    <2> DEFINE y == [pc |-> "done", records |-> {}]
    <2>1. /\ exporting' = [exporting EXCEPT ![x] = y] /\ exporting[x].pc = "writing"
          /\ exported' = IF exported = NoExport
                         THEN [format |-> Format[x], records |-> exporting[x].records] ELSE exported
      BY <1>5 DEF ExportLink
    <2>2. y \in [pc : {"idle", "writing", "failed", "done"}, records : SUBSET ExportRecords] /\ y.pc = "done"
      OBVIOUS
    <2> HIDE DEF y
    <2>3. exporting'[x] = y /\ \A z \in Exports \ {x} : exporting'[z] = exporting[z]
      BY <1>3, <2>1
    <2>4. exporting' \in [Exports -> [pc : {"idle", "writing", "failed", "done"}, records : SUBSET ExportRecords]]
      BY <1>3, <2>1, <2>2
    <2>5. /\ session # NoSession
          /\ exporting[x].records \in SUBSET ExportRecords
          /\ \A e \in exporting[x].records : Backed(e, Format[x])
      BY <1>3, <2>1 DEF EvaluationInv, Exported
    <2>6. /\ exported' \in [format : {"none", "dpo", "sft"}, records : SUBSET ExportRecords]
          /\ \A e \in exported'.records : Backed(e, exported'.format)
      <3>1. CASE exported = NoExport
        <4>1. exported'.format = Format[x] /\ exported'.records = exporting[x].records
              /\ exported' \in [format : {"none", "dpo", "sft"}, records : SUBSET ExportRecords]
          BY <1>3, <2>1, <2>5, <3>1
        <4> QED BY <2>5, <4>1
      <3>2. CASE exported # NoExport
        BY <2>1, <3>2 DEF EvaluationInv, Exported
      <3> QED BY <3>1, <3>2
    <2>7. Exported'
      BY <1>1, <1>2, <2>2, <2>3, <2>4, <2>5, <2>6 DEF EvaluationInv, Exported
    <2> QED BY <1>1, <2>7, Untouched DEF EvaluationInv
  <1> QED BY <1>4, <1>5

LEMMA ReloadKeeps ==
  ASSUME EvaluationInv, Reload
  PROVE  EvaluationInv'
  <1>1. UNCHANGED <<selected, lock, session, pairs, votes, call, seen, exporting, exported>>
    BY DEF Reload, registryVars
  <1> QED BY <1>1, Untouched DEF EvaluationInv

LEMMA CrashKeeps ==
  ASSUME EvaluationInv, Crash
  PROVE  EvaluationInv'
  <1>1. /\ UNCHANGED <<selected, session, pairs, votes, exporting, exported>>
        /\ call' = [c \in Calls |-> IF call[c].pc \in {"idle", "done", "failed"}
                                    THEN call[c] ELSE [Idle EXCEPT !.pc = "failed"]]
        /\ seen' = [r \in Reviewers |-> NoPair]
    BY DEF Crash, others
  <1> DEFINE x == [pc |-> "failed", service |-> 0, next |-> 0, until |-> 0, arts |-> NoArtifacts, revision |-> Chosen]
  <1>2. [Idle EXCEPT !.pc = "failed"] = x
    BY DEF Idle
  <1>3. DOMAIN call' = Calls /\ \A c \in Calls : call'[c] = x \/ (call[c].pc \in {"idle", "done", "failed"} /\ call'[c] = call[c])
    BY <1>1, <1>2
  <1>4. x.pc = "failed" /\ x \in [pc : {x.pc}, service : {x.service}, next : Nat, until : {x.until},
                                 arts : {x.arts}, revision : {x.revision}]
    OBVIOUS
  <1> HIDE DEF x
  <1>5. CallTypes' /\ \A c \in Calls : call'[c].pc \in {"idle", "done", "failed"}
    BY <1>3, <1>4 DEF EvaluationInv, CallTypes
  <1>6. Leased' /\ BatchAgrees'
    BY <1>5 DEF Leased, BatchAgrees, InBatch
  <1>7. Begun'
    BY <1>1, <1>5 DEF EvaluationInv, Begun
  <1>8. Shown'
    BY <1>1 DEF Shown, NoPair
  <1> QED BY <1>1, <1>5, <1>6, <1>7, <1>8, Untouched DEF EvaluationInv

-----------------------------------------------------------------------------
(* The theorems *)

LEMMA EvaluationInit ==
  ASSUME M!ChosenAssumption, EvaluationAssumption, Init
  PROVE  EvaluationInv
  <1>1. /\ selected = Chosen /\ session = NoSession /\ pairs = <<>> /\ votes = <<>>
        /\ call = [c \in Calls |-> Idle] /\ seen = [r \in Reviewers |-> NoPair]
        /\ exporting = [x \in Exports |-> [pc |-> "idle", records |-> {}]] /\ exported = NoExport
    BY DEF Init, M!Init, EvalInit, EmptyStore
  <1>2. DOMAIN selected = Roles
    BY <1>1 DEF M!ChosenAssumption
  <1>3. CallTypes /\ \A c \in Calls : call[c].pc = "idle"
    BY <1>1 DEF CallTypes, Idle
  <1>4. DOMAIN pairs = {} /\ DOMAIN votes = {}
    BY <1>1
  <1>5. Stored /\ SessionKeepsArtifacts
    BY <1>4, FS_EmptySet DEF Stored, SessionKeepsArtifacts
  <1>6. Begun /\ Leased /\ BatchAgrees
    BY <1>1, <1>3 DEF Begun, Leased, BatchAgrees, InBatch
  <1>7. Shown
    BY <1>1 DEF Shown, NoPair
  <1>8. HeldOut
    BY <1>1 DEF HeldOut, NoSession
  <1>9. Exported
    BY <1>1 DEF Exported, NoExport
  <1> QED BY <1>2, <1>3, <1>5, <1>6, <1>7, <1>8, <1>9 DEF EvaluationInv

LEMMA EvaluationStep ==
  ASSUME EvaluationAssumption, EvaluationInv, [Next]_vars
  PROVE  EvaluationInv'
  <1>1. CASE UNCHANGED vars
    <2>1. UNCHANGED <<selected, lock, session, pairs, votes, call, seen, exporting, exported>>
      BY <1>1 DEF vars, registryVars, evalVars
    <2> QED BY <2>1, Untouched DEF EvaluationInv
  <1>2. CASE M!Next /\ UNCHANGED evalVars
    BY <1>2, RegistryKeeps
  <1>3. CASE \E c \in Calls : Call(c) \/ Generation(c)
    BY <1>3, CallKeeps, TakeLeaseKeeps, StartPairKeeps, EndPairKeeps, EndBatchKeeps DEF Generation
  <1>4. CASE \E r \in Reviewers : View(r) \/ Vote(r)
    BY <1>4, ViewKeeps, VoteKeeps
  <1>5. CASE \E x \in Exports : ExportRead(x) \/ ExportLink(x)
    BY <1>5, ExportKeeps
  <1> QED BY <1>1, <1>2, <1>3, <1>4, <1>5, CreateSessionKeeps, LeaseElsewhereKeeps, ReloadKeeps, CrashKeeps DEF Next

LEMMA Evaluated ==
  ASSUME M!ChosenAssumption, EvaluationAssumption
  PROVE  Spec => []EvaluationInv
  <1>1. Init => EvaluationInv
    BY EvaluationInit
  <1>2. EvaluationInv /\ [Next]_vars => EvaluationInv'
    BY EvaluationStep
  <1> QED BY <1>1, <1>2, PTL DEF Spec

\* The pairs of a session that compares a base with its adapter are all of one model
\* and one adapter: a batch has the lease of the selection from its check of the pairs
\* that are there to its last pair.
THEOREM SessionsKeepArtifacts ==
  ASSUME M!ChosenAssumption, EvaluationAssumption
  PROVE  Spec => []SessionKeepsArtifacts
  <1>1. EvaluationInv => SessionKeepsArtifacts
    BY DEF EvaluationInv
  <1> QED BY <1>1, Evaluated, PTL

\* A pair has at most one current vote, and is reviewed exactly when it has one: a vote
\* is stored only over the one that is current then.
THEOREM VotesFollowEachOther ==
  ASSUME M!ChosenAssumption, EvaluationAssumption
  PROVE  Spec => []OneCurrentVote
  <1>1. EvaluationInv => OneCurrentVote
    <2> SUFFICES ASSUME EvaluationInv, NEW i \in DOMAIN pairs
                 PROVE  /\ Cardinality(CurrentVotes(i)) <= 1
                        /\ pairs[i].status = "reviewed" <=> CurrentVotes(i) # {}
      BY DEF OneCurrentVote
    <2>1. /\ votes[i] \in Seq(VoteRecords) /\ (pairs[i].status = "reviewed" <=> votes[i] # <<>>)
          /\ \A n \in 1 .. Len(votes[i]) : votes[i][n].over = n - 1
      BY DEF EvaluationInv, Stored
    <2>2. CurrentVotes(i) = IF votes[i] = <<>> THEN {} ELSE {Len(votes[i])}
      BY <2>1, CurrentIsLast
    <2>3. Cardinality(CurrentVotes(i)) \in {0, 1}
      BY <2>2, FS_EmptySet, FS_Singleton
    <2> QED BY <2>1, <2>2, <2>3
  <1> QED BY <1>1, Evaluated, PTL

\* What is exported for training is what a reviewer liked on the side it was shown on,
\* from a scenario that allows training, and nothing of a comparison with an adapter.
THEOREM ExportsAreReviewed ==
  ASSUME M!ChosenAssumption, EvaluationAssumption
  PROVE  Spec => []ExportAsReviewed
  <1>1. EvaluationInv => ExportAsReviewed
    <2> SUFFICES ASSUME EvaluationInv, NEW e \in exported.records
                 PROVE  /\ ScenarioOf(e.pair).training /\ ScenarioOf(e.pair).split = "train"
                        /\ session.mode # "base_vs_adapter"
                        /\ \E n \in DOMAIN votes[e.pair] :
                             /\ votes[e.pair][n].liked = e.chosen
                             /\ exported.format = "sft" => votes[e.pair][n].sft
      BY DEF ExportAsReviewed
    <2>1. Backed(e, exported.format) /\ e.pair \in Nat
      BY DEF EvaluationInv, Exported, ExportRecords
    <2>2. session.mode # "base_vs_adapter"
      BY <2>1 DEF EvaluationInv, HeldOut, Backed
    <2> QED BY <2>1, <2>2 DEF Backed
  <1> QED BY <1>1, Evaluated, PTL

-----------------------------------------------------------------------------
(* Resident feedback: numbers and sequences *)

\* A set of numbers that is bounded and not empty has a greatest one.
LEMMA Greatest ==
  ASSUME NEW N \in Nat, NEW S, S \subseteq 0 .. N, S # {}
  PROVE  Max(S) \in S /\ \A y \in S : Max(S) >= y
  <1> DEFINE Below == {ss \in Nat \X Nat : ss[1] < ss[2]}
             T == {N - x : x \in S}
  <1>1. IsWellFoundedOn(Below, Nat)
    BY NatLessThanWellFounded, Zenon DEF OpToRel
  <1>2. T \subseteq Nat /\ T # {}
    <2>1. T \subseteq Nat
      OBVIOUS
    <2>2. PICK w \in S : TRUE
      OBVIOUS
    <2>3. N - w \in T
      BY <2>2
    <2> QED BY <2>1, <2>3
  <1>3. PICK x \in T : \A y \in T : ~ (<<y, x>> \in Below)
    <2> HIDE DEF T, Below
    <2> QED BY <1>1, <1>2, WFMin
  <1>4. N - x \in S /\ \A y \in S : N - x >= y
    <2>1. PICK z \in S : x = N - z
      BY <1>3
    <2>2. \A y \in S : N - y \in T /\ y \in Nat /\ N - y \in Nat /\ y <= N
      OBVIOUS
    <2>3. \A y \in S : ~(N - y < x)
      BY <1>2, <1>3, <2>2
    <2> QED BY <2>1, <2>2, <2>3
  <1> QED BY <1>4, Zenon DEF Max

\* The greatest of a set of places, and 0 of none.
Top(S) == Max({0} \cup S)

LEMMA TopOf ==
  ASSUME NEW N \in Nat, NEW S, S \subseteq 1 .. N
  PROVE  /\ Top(S) \in {0} \cup S /\ Top(S) \in 0 .. N
         /\ \A y \in S : Top(S) >= y
         /\ S # {} => Top(S) \in S
  <1>1. {0} \cup S \subseteq 0 .. N /\ {0} \cup S # {}
    OBVIOUS
  <1>2. Top(S) \in {0} \cup S /\ \A y \in {0} \cup S : Top(S) >= y
    BY <1>1, Greatest DEF Top
  <1>3. S # {} => Top(S) \in S
    <2>1. ASSUME S # {}, Top(S) = 0
          PROVE  FALSE
      <3>1. PICK y \in S : TRUE
        BY <2>1
      <3> QED BY <1>2, <2>1, <3>1
    <2> QED BY <1>2, <2>1
  <1>4. Top(S) \in 0 .. N
    BY <1>1, <1>2
  <1> QED BY <1>2, <1>3, <1>4

IsSeq(s) == \E k \in Nat : DOMAIN s = 1 .. k /\ s = [i \in 1 .. k |-> s[i]]

LEMMA LenOf ==
  ASSUME NEW s, NEW k \in Nat, DOMAIN s = 1 .. k, s = [i \in 1 .. k |-> s[i]]
  PROVE  Len(s) = k /\ IsSeq(s)
  <1> DEFINE T == {s[i] : i \in 1 .. k}
  <1>1. s \in [1 .. k -> T]
    OBVIOUS
  <1>2. s \in Seq(T)
    BY <1>1, SeqDef
  <1>3. Len(s) \in Nat /\ DOMAIN s = 1 .. Len(s)
    BY <1>2
  <1>4. Len(s) = k
    <2>1. \A i \in Nat : i \in 1 .. Len(s) <=> i \in 1 .. k
      BY <1>3
    <2> QED BY <1>3, <2>1
  <1> QED BY <1>4 DEF IsSeq

LEMMA SeqIs ==
  ASSUME NEW s, IsSeq(s)
  PROVE  Len(s) \in Nat /\ DOMAIN s = 1 .. Len(s) /\ s = [i \in 1 .. Len(s) |-> s[i]]
  <1>1. PICK k \in Nat : DOMAIN s = 1 .. k /\ s = [i \in 1 .. k |-> s[i]]
    BY DEF IsSeq
  <1>2. Len(s) = k
    BY <1>1, LenOf
  <1> QED BY <1>1, <1>2

LEMMA Appended ==
  ASSUME NEW s, IsSeq(s), NEW e
  PROVE  /\ IsSeq(Append(s, e)) /\ Len(Append(s, e)) = Len(s) + 1
         /\ DOMAIN Append(s, e) = 1 .. Len(s) + 1
         /\ \A i \in 1 .. Len(s) : Append(s, e)[i] = s[i]
         /\ Append(s, e)[Len(s) + 1] = e
  <1> DEFINE T == {s[i] : i \in 1 .. Len(s)} \cup {e}
  <1>1. Len(s) \in Nat /\ DOMAIN s = 1 .. Len(s) /\ s = [i \in 1 .. Len(s) |-> s[i]]
    BY SeqIs
  <1>2. s \in [1 .. Len(s) -> T] /\ e \in T
    BY <1>1
  <1>3. s \in Seq(T)
    BY <1>1, <1>2, SeqDef
  <1> HIDE DEF T
  <1>4. /\ Append(s, e) \in Seq(T) /\ Len(Append(s, e)) = Len(s) + 1
        /\ \A i \in 1 .. Len(s) : Append(s, e)[i] = s[i]
        /\ Append(s, e)[Len(s) + 1] = e
    BY <1>2, <1>3, AppendProperties
  <1>5. DOMAIN Append(s, e) = 1 .. Len(s) + 1
    BY <1>4
  <1>6. Append(s, e) = [i \in 1 .. Len(s) + 1 |-> Append(s, e)[i]]
    <2>1. Append(s, e) \in [1 .. Len(s) + 1 -> T]
      BY <1>4, LenProperties
    <2> QED BY <2>1
  <1>7. IsSeq(Append(s, e))
    BY <1>1, <1>5, <1>6, LenOf
  <1> QED BY <1>4, <1>5, <1>7

-----------------------------------------------------------------------------
(* Resident feedback: what a window was shown *)

Stable(s, f) ==
  LET owner == Layer("owner", f, s)
      expiring == Layer("expiring", f, s)
      own == Layer("session", f, s)
  IN  IF InForce(own) THEN changes[own].after
      ELSE IF InForce(expiring) THEN changes[expiring].after
      ELSE IF InForce(owner) THEN changes[owner].after ELSE Default[f]

\* What was said in a session that stores nothing comes before every row.
LEMMA PolicyIs ==
  ASSUME NEW s \in Sessions
  PROVE  Policy(s) = [f \in Fields |-> IF volatile[s][f] # NoValue THEN volatile[s][f] ELSE Stable(s, f)]
  <1>1. \A f \in Fields :
          LET owner == Layer("owner", f, s)
              expiring == Layer("expiring", f, s)
              own == Layer("session", f, s)
          IN  (CASE volatile[s][f] # NoValue -> volatile[s][f]
                 [] volatile[s][f] = NoValue /\ InForce(own) -> changes[own].after
                 [] volatile[s][f] = NoValue /\ ~InForce(own) /\ InForce(expiring) ->
                      changes[expiring].after
                 [] OTHER -> IF InForce(owner) THEN changes[owner].after ELSE Default[f])
              = IF volatile[s][f] # NoValue THEN volatile[s][f] ELSE Stable(s, f)
    BY DEF Stable
  <1> QED BY <1>1 DEF Policy

LEMMA PolicyIsAfter ==
  ASSUME NEW s \in Sessions
  PROVE  Policy(s)' = [f \in Fields |-> IF volatile'[s][f] # NoValue THEN volatile'[s][f] ELSE Stable(s, f)']
  <1>1. \A f \in Fields :
          (LET owner == Layer("owner", f, s)
               expiring == Layer("expiring", f, s)
               own == Layer("session", f, s)
           IN  (CASE volatile[s][f] # NoValue -> volatile[s][f]
                 [] volatile[s][f] = NoValue /\ InForce(own) -> changes[own].after
                 [] volatile[s][f] = NoValue /\ ~InForce(own) /\ InForce(expiring) ->
                      changes[expiring].after
                 [] OTHER -> IF InForce(owner) THEN changes[owner].after ELSE Default[f]))'
              = IF volatile'[s][f] # NoValue THEN volatile'[s][f] ELSE Stable(s, f)'
    BY DEF Stable
  <1> QED BY <1>1 DEF Policy

LEMMA StableStays ==
  ASSUME UNCHANGED <<sessions, changes, boot, clock>>
  PROVE  \A s \in Sessions, f \in Fields : Stable(s, f)' = Stable(s, f)
  BY DEF Stable, Layer, Visible, InForce, Default

LEMMA PolicyStays ==
  ASSUME UNCHANGED <<sessions, changes, volatile, boot, clock>>
  PROVE  \A s \in Sessions : Policy(s)' = Policy(s)
  BY DEF Policy, Layer, Visible, InForce, Default

Seen(v, s) ==
  /\ v.revision \in 0 .. latest
  /\ \E b \in 0 .. boot, c \in 0 .. clock, x \in 0 .. switches : v.moment = <<b, c, x>>
  /\ v.revision = latest =>
       v.rows = Len(changes) /\ (v.moment = <<boot, clock, switches>> => v.policy = Policy(s))

\* Seen, after a step.
StillSeen(v, s) ==
  /\ v.revision \in 0 .. latest'
  /\ \E b \in 0 .. boot', c \in 0 .. clock', x \in 0 .. switches' : v.moment = <<b, c, x>>
  /\ v.revision = latest' =>
       v.rows = Len(changes') /\ (v.moment = <<boot', clock', switches'>> => v.policy = Policy(s)')

Typed ==
  /\ latest \in Nat /\ boot \in Nat /\ clock \in Nat /\ switches \in Nat
  /\ IsSeq(changes) /\ IsSeq(feedback)
  /\ view = [w \in Windows |-> view[w]] /\ sent = [w \in Windows |-> sent[w]]
  /\ volatile = [s \in Sessions |-> [f \in Fields |-> volatile[s][f]]]

\* A window that holds the latest revision was shown all rows, and the policy of its
\* session unless a restart, the clock or a selection of the owner has changed it since.
SeenInv ==
  /\ \A w \in Windows : Seen(view[w], SessionOf[w])
  /\ \A w \in Windows : sent[w] # NoRequest =>
       sent[w].window = w /\ sent[w].offer \in Offers /\ Seen(sent[w].view, SessionOf[w])

\* What every step does to the rows, the revision and the policies.
Moves ==
  /\ latest' \in Nat /\ boot' \in Nat /\ clock' \in Nat /\ switches' \in Nat
  /\ latest <= latest' /\ boot <= boot' /\ clock <= clock' /\ switches <= switches'
  /\ IsSeq(changes')
  /\ latest' = latest => Len(changes') = Len(changes)
  /\ latest' = latest /\ boot' = boot /\ clock' = clock /\ switches' = switches =>
       \A s \in Sessions : Policy(s)' = Policy(s)

LEMMA SeenStays ==
  ASSUME Typed, Moves, NEW v, NEW s \in Sessions, Seen(v, s)
  PROVE  StillSeen(v, s)
  <1>1. v.revision \in 0 .. latest'
    BY DEF Typed, Moves, Seen
  <1>2. PICK b \in 0 .. boot, c \in 0 .. clock, x \in 0 .. switches : v.moment = <<b, c, x>>
    BY DEF Seen
  <1>3. b \in 0 .. boot' /\ c \in 0 .. clock' /\ x \in 0 .. switches'
    BY <1>2 DEF Typed, Moves
  <1>4. ASSUME v.revision = latest'
        PROVE  v.rows = Len(changes') /\ (v.moment = <<boot', clock', switches'>> => v.policy = Policy(s)')
    <2>1. latest' = latest /\ v.rows = Len(changes)
      BY <1>4 DEF Typed, Moves, Seen
    <2>2. v.rows = Len(changes')
      BY <2>1 DEF Moves
    <2>3. ASSUME v.moment = <<boot', clock', switches'>>
          PROVE  v.policy = Policy(s)'
      <3>1. boot' = b /\ clock' = c /\ switches' = x
        BY <1>2, <2>3
      <3>2. boot' = boot /\ clock' = clock /\ switches' = switches
        <4>1. /\ boot <= boot' /\ clock <= clock' /\ switches <= switches'
              /\ boot \in Nat /\ clock \in Nat /\ switches \in Nat
          BY Zenon DEF Moves, Typed
        <4> QED BY <1>2, <3>1, <4>1
      <3>3. v.policy = Policy(s)
        BY <1>4, <2>1, <2>3, <3>2 DEF Seen
      <3>4. Policy(s)' = Policy(s)
        BY <2>1, <3>2, Zenon DEF Moves
      <3> QED BY <3>3, <3>4
    <2> QED BY <2>2, <2>3
  <1> QED BY <1>1, <1>2, <1>3, <1>4 DEF StillSeen

LEMMA ShownIsSeen ==
  ASSUME Typed, Moves, NEW w \in Windows, Shows(w), UNCHANGED <<boot, clock>>
  PROVE  /\ view' = [q \in Windows |-> view'[q]]
         /\ \A q \in Windows : q # w => view'[q] = view[q]
         /\ StillSeen(view'[w], SessionOf[w])
  <1>1. view' = [view EXCEPT ![w] =
           [revision |-> latest', rows |-> Len(changes'), moment |-> <<boot, clock, switches'>>,
            policy |-> Policy(SessionOf[w])']]
    BY DEF Shows
  <1>2. /\ view'[w].revision = latest' /\ view'[w].rows = Len(changes')
        /\ view'[w].moment = <<boot', clock', switches'>> /\ view'[w].policy = Policy(SessionOf[w])'
    BY <1>1 DEF Typed
  <1>3. /\ view' = [q \in Windows |-> view'[q]]
        /\ \A q \in Windows : q # w => view'[q] = view[q]
    BY <1>1 DEF Typed
  <1>4. boot' \in 0 .. boot' /\ clock' \in 0 .. clock' /\ switches' \in 0 .. switches' /\ latest' \in 0 .. latest'
    BY DEF Moves
  <1>5. StillSeen(view'[w], SessionOf[w])
    BY <1>2, <1>4 DEF StillSeen
  <1> QED BY <1>3, <1>5

-----------------------------------------------------------------------------
(* Resident feedback: what the calls add *)

LEMMA DroppedLen ==
  ASSUME NEW s, NEW f, NEW rows, IsSeq(rows)
  PROVE  IsSeq(Dropped(s, f, rows)) /\ Len(Dropped(s, f, rows)) \in {Len(rows), Len(rows) + 1}
  BY Appended DEF Dropped

LEMMA ClearedLen ==
  ASSUME NEW s, IsSeq(changes)
  PROVE  IsSeq(Cleared(s)) /\ Len(Cleared(s)) \in Nat /\ Len(Cleared(s)) >= Len(changes)
  <1> DEFINE one == Dropped(s, "response_length", changes)
             two == Dropped(s, "proactive", one)
             three == Dropped(s, "restricted_memory_ids", two)
  <1>1. IsSeq(one) /\ Len(one) \in {Len(changes), Len(changes) + 1}
    BY DroppedLen
  <1>2. IsSeq(two) /\ Len(two) \in {Len(one), Len(one) + 1}
    <2> HIDE DEF one
    <2> QED BY <1>1, DroppedLen
  <1>3. IsSeq(three) /\ Len(three) \in {Len(two), Len(two) + 1}
    <2> HIDE DEF two
    <2> QED BY <1>2, DroppedLen
  <1>4. Cleared(s) = three
    BY DEF Cleared
  <1> HIDE DEF one, two, three
  <1>5. Len(changes) \in Nat /\ Len(one) \in Nat /\ Len(two) \in Nat /\ Len(three) \in Nat
    BY <1>1, <1>2, <1>3, SeqIs
  <1> QED BY <1>1, <1>2, <1>3, <1>4, <1>5

LEMMA Marked ==
  ASSUME NEW s, IsSeq(s), NEW n, NEW x
  PROVE  /\ IsSeq([s EXCEPT ![n].status = x]) /\ Len([s EXCEPT ![n].status = x]) = Len(s)
         /\ DOMAIN [s EXCEPT ![n].status = x] = 1 .. Len(s)
  <1>1. Len(s) \in Nat /\ DOMAIN s = 1 .. Len(s) /\ s = [i \in 1 .. Len(s) |-> s[i]]
    BY SeqIs
  <1> DEFINE t == [s EXCEPT ![n].status = x]
  <1>2. DOMAIN t = 1 .. Len(s) /\ t = [i \in 1 .. Len(s) |-> t[i]]
    BY <1>1
  <1> HIDE DEF t
  <1>3. IsSeq(t) /\ Len(t) = Len(s)
    BY <1>1, <1>2, LenOf
  <1> QED BY <1>2, <1>3 DEF t

LEMMA UndoneLen ==
  ASSUME NEW s, NEW n, NEW source, IsSeq(changes)
  PROVE  IsSeq(Undone(s, n, source)) /\ Len(Undone(s, n, source)) = Len(changes) + 1
  <1>1. PICK row : Undone(s, n, source) = Append([changes EXCEPT ![n].status = "reverted"], row)
    BY DEF Undone
  <1> DEFINE t == [changes EXCEPT ![n].status = "reverted"]
  <1>2. IsSeq(t) /\ Len(t) = Len(changes)
    BY Marked
  <1> HIDE DEF t
  <1>3. IsSeq(Append(t, row)) /\ Len(Append(t, row)) = Len(changes) + 1
    BY <1>2, Appended
  <1> QED BY <1>1, <1>3 DEF t

LEMMA ExpiredLen ==
  ASSUME NEW s, IsSeq(s)
  PROVE  IsSeq(Expired(s)) /\ Len(Expired(s)) = Len(s)
  <1>1. Len(s) \in Nat /\ DOMAIN s = 1 .. Len(s)
    BY SeqIs
  <1>2. DOMAIN Expired(s) = 1 .. Len(s) /\ Expired(s) = [i \in 1 .. Len(s) |-> Expired(s)[i]]
    BY <1>1 DEF Expired
  <1> QED BY <1>1, <1>2, LenOf

LEMMA RevisionMoves ==
  ASSUME Typed, IsSeq(changes'), Len(changes') >= Len(changes), latest' = Bumped(changes')
  PROVE  latest' \in Nat /\ latest <= latest' /\ (latest' = latest => Len(changes') = Len(changes))
  <1>1. Len(changes) \in Nat /\ Len(changes') \in Nat
    BY SeqIs DEF Typed
  <1>2. latest \in Nat
    BY DEF Typed
  <1>3. latest' = latest + (Len(changes') - Len(changes))
    BY Zenon DEF Bumped
  <1> QED BY <1>1, <1>2, <1>3

\* What a call leaves alone.
Unmoved == UNCHANGED <<sessions, boot, clock, switches>>

LEMMA UnsavedMoves ==
  ASSUME OffersAssumption, Typed, NEW s \in Sessions, NEW r, r.offer \in Offers, Unsaved(s, r), Unmoved
  PROVE  /\ Moves /\ feedback' = feedback
         /\ volatile' = [q \in Sessions |-> [f \in Fields |-> volatile'[q][f]]]
  <1> DEFINE change == Classify(r.offer).change
  <1>0. changes' = changes /\ feedback' = feedback
    BY DEF Unsaved
  <1>1. CASE change.scope = "session" /\ FromOwner(s, r) /\ Fresh(r)
    <2>1. /\ volatile' = [volatile EXCEPT ![s][change.field] = change.value]
          /\ latest' = IF Policy(s)[change.field] # change.value THEN latest + 1 ELSE latest
      BY <1>1 DEF Unsaved
    <2>2. change.field \in Fields /\ change.value # NoValue
      <3>1. change # NoChange
        BY <1>1 DEF NoChange
      <3> QED BY <3>1 DEF OffersAssumption
    <2> HIDE DEF change
    <2>3. /\ volatile' = [q \in Sessions |-> [f \in Fields |-> volatile'[q][f]]]
          /\ \A q \in Sessions, f \in Fields :
               volatile'[q][f] = IF q = s /\ f = change.field THEN change.value ELSE volatile[q][f]
      <3> DEFINE own == [volatile[s] EXCEPT ![change.field] = change.value]
      <3>1. volatile' = [volatile EXCEPT ![s] = own]
        BY <2>1, Zenon
      <3>2. volatile = [q \in Sessions |-> [f \in Fields |-> volatile[q][f]]]
        BY DEF Typed
      <3>3. DOMAIN volatile = Sessions
        BY <3>2
      <3>4. \A q \in Sessions : volatile[q] = [f \in Fields |-> volatile[q][f]]
        BY <3>2
      <3>5. own = [f \in Fields |-> own[f]] /\ \A f \in Fields :
              own[f] = IF f = change.field THEN change.value ELSE volatile[s][f]
        BY <2>2, <3>4
      <3> HIDE DEF own
      <3>6. volatile'[s] = own /\ \A q \in Sessions : q # s => volatile'[q] = volatile[q]
        BY <3>1, <3>3
      <3>7. DOMAIN volatile' = Sessions /\ volatile' = [q \in Sessions |-> volatile'[q]]
        BY <3>1, <3>2, <3>3
      <3>8. \A q \in Sessions : volatile'[q] = [f \in Fields |-> volatile'[q][f]]
        BY <3>4, <3>5, <3>6
      <3>9. volatile' = [q \in Sessions |-> [f \in Fields |-> volatile'[q][f]]]
        BY <3>7, <3>8, Zenon
      <3> QED BY <3>5, <3>6, <3>9
    <2>4. ASSUME latest' = latest, NEW q \in Sessions
          PROVE  Policy(q)' = Policy(q)
      <3>1. Policy(s)[change.field] = change.value
        BY <2>1, <2>4 DEF Typed
      <3>2. \A f \in Fields : Stable(q, f)' = Stable(q, f)
        BY <1>0, StableStays DEF Unmoved
      <3>3. Policy(q) = [f \in Fields |-> IF volatile[q][f] # NoValue THEN volatile[q][f] ELSE Stable(q, f)]
        BY PolicyIs
      <3>4. Policy(q)' = [f \in Fields |-> IF volatile'[q][f] # NoValue THEN volatile'[q][f] ELSE Stable(q, f)']
        BY PolicyIsAfter
      <3>5. \A f \in Fields : Policy(q)'[f] = Policy(q)[f]
        BY <2>2, <2>3, <3>1, <3>2, <3>3, <3>4
      <3> QED BY <3>3, <3>4, <3>5
    <2>5. latest' \in Nat /\ latest <= latest'
      BY <2>1 DEF Typed
    <2> QED BY <1>0, <2>3, <2>4, <2>5 DEF Moves, Unmoved, Typed
  <1>2. CASE ~(change.scope = "session" /\ FromOwner(s, r) /\ Fresh(r))
    <2>1. volatile' = volatile /\ latest' = latest
      BY <1>2 DEF Unsaved
    <2>2. \A q \in Sessions : Policy(q)' = Policy(q)
      BY <1>0, <2>1, PolicyStays DEF Unmoved
    <2> QED BY <1>0, <2>1, <2>2 DEF Moves, Unmoved, Typed
  <1> QED BY <1>0, <1>1, <1>2

\* The row a saved submission adds, if it adds one.
LEMMA SavesMoves ==
  ASSUME Typed, NEW s \in Sessions, NEW r, Saves(s, r), Unmoved
  PROVE  /\ Moves /\ volatile' = volatile
         /\ IsSeq(feedback') /\ Len(feedback') = Len(feedback) + 1
         /\ feedback'[Len(feedback')].window = r.window
         /\ feedback'[Len(feedback')].session = SessionOf[r.window]
         /\ feedback'[Len(feedback')].change # 0 => Fresh(r)
  <1> DEFINE intent == Classify(r.offer)
             id == Len(feedback) + 1
             may == FromOwner(s, r) /\ Fresh(r)
             makes == /\ intent.change # NoChange /\ may
                      /\ intent.change.expires = 0 \/ intent.change.expires > clock
                      /\ ~Superfluous(s, intent.change)
             eligible == {n \in DOMAIN changes : changes[n].session = s /\ changes[n].status = "applied"}
             undoes == intent.undo /\ may /\ eligible # {} /\ Undoable(s, Max(eligible))
             made == Append(changes, Row(s, id, intent.change.field, intent.change.scope,
                                         Wanted(s, intent.change), intent.change.expires, 0))
             undone == Undone(s, Max(eligible), id)
  <1>a. changes' = IF makes THEN made ELSE IF undoes THEN undone ELSE changes
    BY Zenon DEF Saves
  <1>b. latest' = Bumped(changes') /\ volatile' = volatile
    BY <1>a, Zenon DEF Saves
  <1>c. \E status : feedback' = Append(Expired(feedback),
                       Event(r, status, IF makes \/ undoes THEN Len(changes') ELSE 0))
    BY <1>a, Zenon DEF Saves
  <1>2. may => Fresh(r)
    OBVIOUS
  <1>3. (makes => may) /\ (undoes => may)
    OBVIOUS
  <1>4. IsSeq(made) /\ Len(made) = Len(changes) + 1 /\ IsSeq(undone) /\ Len(undone) = Len(changes) + 1
    BY Appended, UndoneLen DEF Typed
  <1> HIDE DEF makes, undoes, made, undone, may, id, intent, eligible
  <1>5. Len(changes) \in Nat
    BY SeqIs DEF Typed
  <1>6. IsSeq(changes') /\ Len(changes') >= Len(changes) /\ (Len(changes') = Len(changes) => changes' = changes)
    BY <1>a, <1>4, <1>5 DEF Typed
  <1>7. latest' \in Nat /\ latest <= latest' /\ (latest' = latest => Len(changes') = Len(changes))
    BY <1>b, <1>6, RevisionMoves
  <1>8. ASSUME latest' = latest
        PROVE  \A q \in Sessions : Policy(q)' = Policy(q)
    BY <1>b, <1>6, <1>7, <1>8, PolicyStays DEF Unmoved
  <1>9. Moves
    BY <1>6, <1>7, <1>8 DEF Moves, Unmoved, Typed
  <1>10. PICK status : feedback' = Append(Expired(feedback),
                          Event(r, status, IF makes \/ undoes THEN Len(changes') ELSE 0))
    BY <1>c
  <1>11. IsSeq(Expired(feedback)) /\ Len(Expired(feedback)) = Len(feedback) /\ Len(feedback) \in Nat
    BY ExpiredLen, SeqIs DEF Typed
  <1>12. /\ IsSeq(feedback') /\ Len(feedback') = Len(feedback) + 1
         /\ feedback'[Len(feedback')] = Event(r, status, IF makes \/ undoes THEN Len(changes') ELSE 0)
    BY <1>10, <1>11, Appended
  <1>13. /\ feedback'[Len(feedback')].window = r.window
         /\ feedback'[Len(feedback')].session = SessionOf[r.window]
         /\ feedback'[Len(feedback')].change = IF makes \/ undoes THEN Len(changes') ELSE 0
    BY <1>12 DEF Event
  <1> QED BY <1>b, <1>2, <1>3, <1>9, <1>12, <1>13

LEMMA ReceiveMoves ==
  ASSUME OffersAssumption, Typed, NEW w \in Windows, NEW r, r.window = w, r.offer \in Offers, Receive(w, r)
  PROVE  /\ Moves /\ IsSeq(feedback') /\ Unmoved
         /\ volatile' = [q \in Sessions |-> [f \in Fields |-> volatile'[q][f]]]
         /\ Len(feedback') > Len(feedback) /\ feedback'[Len(feedback')].change # 0 =>
              /\ Fresh(r)
              /\ feedback'[Len(feedback')].window = w /\ feedback'[Len(feedback')].session = SessionOf[w]
  <1> DEFINE s == SessionOf[w]
  <1>1. s \in Sessions /\ Unmoved
    BY DEF Receive, Unmoved, Same, Sessions
  <1>2. volatile = [q \in Sessions |-> [f \in Fields |-> volatile[q][f]]] /\ IsSeq(feedback)
    BY DEF Typed
  <1>3. Len(feedback) \in Nat
    BY <1>2, SeqIs
  <1>4. CASE /\ UNCHANGED <<changes, latest, volatile>>
             /\ feedback' = Expired(feedback) \/ feedback' = feedback
    <2>1. IsSeq(feedback') /\ Len(feedback') = Len(feedback)
      BY <1>2, <1>4, ExpiredLen
    <2>2. \A q \in Sessions : Policy(q)' = Policy(q)
      BY <1>1, <1>4, PolicyStays DEF Unmoved
    <2>3. Moves
      BY <1>1, <1>4, <2>2 DEF Moves, Typed, Unmoved
    <2> QED BY <1>1, <1>2, <1>3, <1>4, <2>1, <2>3
  <1>5. CASE Unsaved(s, r)
    <2>1. /\ Moves /\ feedback' = feedback
          /\ volatile' = [q \in Sessions |-> [f \in Fields |-> volatile'[q][f]]]
      BY <1>1, <1>5, UnsavedMoves
    <2> QED BY <1>1, <1>2, <1>3, <2>1
  <1>6. CASE Saves(s, r)
    BY <1>1, <1>2, <1>6, SavesMoves
  <1> QED BY <1>4, <1>5, <1>6 DEF Receive

\* What a call of w leaves as SeenInv wants it.
Answered(w) ==
  /\ Moves /\ IsSeq(feedback')
  /\ volatile' = [q \in Sessions |-> [f \in Fields |-> volatile'[q][f]]]
  /\ view' = [q \in Windows |-> view'[q]] /\ sent' = [q \in Windows |-> sent'[q]]
  /\ \A q \in Windows : q # w => view'[q] = view[q] /\ sent'[q] = sent[q]
  /\ view'[w] = view[w] \/ StillSeen(view'[w], SessionOf[w])
  /\ \/ sent'[w] = sent[w]
     \/ sent'[w].window = w /\ sent'[w].offer \in Offers /\ sent'[w].view = view[w]

LEMMA AnsweredHolds ==
  ASSUME Typed, SeenInv, NEW w \in Windows, Answered(w)
  PROVE  Typed' /\ SeenInv'
  <1>1. Typed'
    BY DEF Typed, Answered, Moves
  <1>2. Moves
    BY DEF Answered
  <1>3. \A q \in Windows : SessionOf[q] \in Sessions
    BY DEF Sessions
  <1>4. ASSUME NEW q \in Windows
        PROVE  StillSeen(view'[q], SessionOf[q])
    <2>1. Seen(view[q], SessionOf[q])
      BY DEF SeenInv
    <2>2. StillSeen(view[q], SessionOf[q])
      BY <1>2, <1>3, <2>1, SeenStays
    <2> QED BY <2>2 DEF Answered
  <1>5. ASSUME NEW q \in Windows, sent'[q] # NoRequest
        PROVE  sent'[q].window = q /\ sent'[q].offer \in Offers /\ StillSeen(sent'[q].view, SessionOf[q])
    <2>1. CASE sent'[q] = sent[q]
      <3>1. sent[q].window = q /\ sent[q].offer \in Offers /\ Seen(sent[q].view, SessionOf[q])
        BY <1>5, <2>1 DEF SeenInv
      <3>2. StillSeen(sent[q].view, SessionOf[q])
        BY <1>2, <1>3, <3>1, SeenStays
      <3> QED BY <2>1, <3>1, <3>2
    <2>2. CASE sent'[q].window = q /\ sent'[q].offer \in Offers /\ sent'[q].view = view[q]
      <3>1. StillSeen(view[q], SessionOf[q])
        BY <1>2, <1>3, SeenStays DEF SeenInv
      <3> QED BY <2>2, <3>1
    <2> QED BY <2>1, <2>2 DEF Answered
  <1>6. (\A q \in Windows : Seen(view[q], SessionOf[q]))'
    BY <1>4 DEF Seen, StillSeen
  <1>7. (\A q \in Windows : sent[q] # NoRequest =>
           sent[q].window = q /\ sent[q].offer \in Offers /\ Seen(sent[q].view, SessionOf[q]))'
    BY <1>5 DEF Seen, StillSeen, NoRequest
  <1> QED BY <1>1, <1>6, <1>7 DEF SeenInv

LEMMA OpenSessionHolds ==
  ASSUME Typed, NEW w \in Windows, OpenSession(w)
  PROVE  Answered(w) /\ feedback' = feedback
  <1> DEFINE s == SessionOf[w]
  <1>1. /\ switches' = switches + 1 /\ UNCHANGED <<feedback, operations, boot, clock, sent>> /\ Shows(w)
        /\ \/ /\ changes' = Cleared(s) /\ volatile' = [volatile EXCEPT ![s] = Unset]
              /\ latest' = Bumped(Cleared(s))
           \/ UNCHANGED <<changes, volatile, latest>>
    BY DEF OpenSession
  <1>2. s \in Sessions
    BY DEF Sessions
  <1>3. /\ IsSeq(changes') /\ latest' \in Nat /\ latest <= latest'
        /\ latest' = latest => Len(changes') = Len(changes)
    <2>1. CASE changes' = Cleared(s) /\ latest' = Bumped(Cleared(s))
      <3>1. IsSeq(changes') /\ Len(changes') >= Len(changes)
        BY <2>1, ClearedLen DEF Typed
      <3> QED BY <2>1, <3>1, RevisionMoves
    <2>2. CASE UNCHANGED <<changes, latest>>
      BY <2>2 DEF Typed
    <2> QED BY <1>1, <2>1, <2>2
  <1>4. Moves
    BY <1>1, <1>3 DEF Moves, Typed
  <1>5. volatile' = [q \in Sessions |-> [f \in Fields |-> volatile'[q][f]]]
    <2>1. volatile = [q \in Sessions |-> [f \in Fields |-> volatile[q][f]]]
      BY DEF Typed
    <2>2. ASSUME volatile' = [volatile EXCEPT ![s] = Unset]
          PROVE  volatile' = [q \in Sessions |-> [f \in Fields |-> volatile'[q][f]]]
      <3>1. DOMAIN volatile = Sessions /\ \A q \in Sessions : volatile[q] = [f \in Fields |-> volatile[q][f]]
        BY <2>1
      <3>2. Unset = [f \in Fields |-> Unset[f]]
        BY DEF Unset
      <3> HIDE DEF s
      <3>3. volatile'[s] = Unset /\ \A q \in Sessions : q # s => volatile'[q] = volatile[q]
        BY <2>2, <3>1, <1>2
      <3>4. volatile' = [q \in Sessions |-> volatile'[q]]
        BY <2>1, <2>2
      <3>5. \A q \in Sessions : volatile'[q] = [f \in Fields |-> volatile'[q][f]]
        BY <3>1, <3>2, <3>3
      <3> QED BY <3>4, <3>5, Zenon
    <2> QED BY <1>1, <2>1, <2>2
  <1>6. /\ view' = [q \in Windows |-> view'[q]]
        /\ \A q \in Windows : q # w => view'[q] = view[q]
        /\ StillSeen(view'[w], SessionOf[w])
    BY <1>1, <1>4, ShownIsSeen
  <1> QED BY <1>1, <1>4, <1>5, <1>6 DEF Answered, Typed

LEMMA ReadStateHolds ==
  ASSUME Typed, NEW w \in Windows, ReadState(w)
  PROVE  Answered(w) /\ IsSeq(feedback') /\ Len(feedback') = Len(feedback)
  <1>1. /\ feedback' = Expired(feedback) /\ Shows(w)
        /\ UNCHANGED <<sessions, changes, operations, latest, volatile, sent, boot, clock, switches>>
    BY DEF ReadState, Same
  <1>2. IsSeq(feedback') /\ Len(feedback') = Len(feedback)
    BY <1>1, ExpiredLen DEF Typed
  <1>3. \A q \in Sessions : Policy(q)' = Policy(q)
    BY <1>1, PolicyStays
  <1>4. Moves
    BY <1>1, <1>3 DEF Moves, Typed
  <1>5. /\ view' = [q \in Windows |-> view'[q]]
        /\ \A q \in Windows : q # w => view'[q] = view[q]
        /\ StillSeen(view'[w], SessionOf[w])
    BY <1>1, <1>4, ShownIsSeen
  <1> QED BY <1>1, <1>2, <1>4, <1>5 DEF Answered, Typed

LEMMA SubmitHolds ==
  ASSUME OffersAssumption, Typed, NEW w \in Windows, Submit(w)
  PROVE  /\ Answered(w)
         /\ Len(feedback') > Len(feedback) /\ feedback'[Len(feedback')].change # 0 =>
              /\ feedback'[Len(feedback')].window = w /\ feedback'[Len(feedback')].session = SessionOf[w]
              /\ sent'[w].view = view[w] /\ view[w].revision = latest
         /\ Unmoved
  <1>1. PICK o \in Offers :
          LET r == [window |-> w, number |-> sent[w].number + 1, view |-> view[w], offer |-> o]
          IN  sent' = [sent EXCEPT ![w] = r] /\ Receive(w, r) /\ Shows(w)
    BY DEF Submit
  <1> DEFINE r == [window |-> w, number |-> sent[w].number + 1, view |-> view[w], offer |-> o]
  <1>2. sent' = [sent EXCEPT ![w] = r] /\ Receive(w, r) /\ Shows(w)
    BY <1>1
  <1>3. r.window = w /\ r.offer \in Offers /\ r.view = view[w]
    OBVIOUS
  <1> HIDE DEF r
  <1>4. /\ Moves /\ IsSeq(feedback') /\ Unmoved
        /\ volatile' = [q \in Sessions |-> [f \in Fields |-> volatile'[q][f]]]
        /\ Len(feedback') > Len(feedback) /\ feedback'[Len(feedback')].change # 0 =>
             /\ Fresh(r)
             /\ feedback'[Len(feedback')].window = w /\ feedback'[Len(feedback')].session = SessionOf[w]
    BY <1>2, <1>3, ReceiveMoves
  <1>5. /\ view' = [q \in Windows |-> view'[q]]
        /\ \A q \in Windows : q # w => view'[q] = view[q]
        /\ StillSeen(view'[w], SessionOf[w])
    BY <1>2, <1>4, ShownIsSeen DEF Unmoved
  <1>6. /\ sent' = [q \in Windows |-> sent'[q]] /\ sent'[w] = r
        /\ \A q \in Windows : q # w => sent'[q] = sent[q]
    BY <1>2 DEF Typed
  <1>7. Answered(w)
    BY <1>3, <1>4, <1>5, <1>6 DEF Answered
  <1> QED BY <1>3, <1>4, <1>6, <1>7 DEF Fresh

LEMMA ResendHolds ==
  ASSUME OffersAssumption, Typed, SeenInv, NEW w \in Windows, Resend(w)
  PROVE  /\ Answered(w) /\ sent' = sent /\ Unmoved
         /\ Len(feedback') > Len(feedback) /\ feedback'[Len(feedback')].change # 0 =>
              /\ feedback'[Len(feedback')].window = w /\ feedback'[Len(feedback')].session = SessionOf[w]
              /\ Fresh(sent[w])
  <1>1. sent[w] # NoRequest /\ Receive(w, sent[w]) /\ sent' = sent /\ view' = view
    BY DEF Resend
  <1>2. sent[w].window = w /\ sent[w].offer \in Offers
    BY <1>1 DEF SeenInv
  <1>3. /\ Moves /\ IsSeq(feedback') /\ Unmoved
        /\ volatile' = [q \in Sessions |-> [f \in Fields |-> volatile'[q][f]]]
        /\ Len(feedback') > Len(feedback) /\ feedback'[Len(feedback')].change # 0 =>
             /\ Fresh(sent[w])
             /\ feedback'[Len(feedback')].window = w /\ feedback'[Len(feedback')].session = SessionOf[w]
    BY <1>1, <1>2, ReceiveMoves
  <1> QED BY <1>1, <1>3 DEF Answered, Typed

LEMMA OperatesMoves ==
  ASSUME Typed, NEW w \in Windows, NEW action, NEW target, Operates(w, action, target),
         changes' = changes \/ \E s, n, source : changes' = Undone(s, n, source),
         latest' = Bumped(changes')
  PROVE  Moves
  <1>1. UNCHANGED <<sessions, volatile, sent, boot, clock, switches>>
    BY DEF Operates, Same
  <1>2. IsSeq(changes') /\ Len(changes) \in Nat /\ Len(changes') \in {Len(changes), Len(changes) + 1}
    BY UndoneLen, SeqIs DEF Typed
  <1>3. Len(changes') = Len(changes) => changes' = changes
    BY <1>2, UndoneLen DEF Typed
  <1>4. latest' \in Nat /\ latest <= latest' /\ (latest' = latest => Len(changes') = Len(changes))
    BY <1>2, RevisionMoves
  <1>5. latest' = latest => \A q \in Sessions : Policy(q)' = Policy(q)
    BY <1>1, <1>3, <1>4, PolicyStays
  <1> QED BY <1>1, <1>2, <1>4, <1>5 DEF Moves, Typed

LEMMA UndoHolds ==
  ASSUME Typed, NEW w \in Windows, NEW n, Undo(w, n)
  PROVE  Answered(w) /\ feedback' = feedback
  <1>1. /\ Operates(w, "undo", n) /\ changes' = Undone(SessionOf[w], n, 0)
        /\ latest' = Bumped(changes') /\ feedback' = feedback /\ Shows(w)
    BY DEF Undo
  <1>2. Moves
    BY <1>1, OperatesMoves
  <1>3. UNCHANGED <<sessions, volatile, sent, boot, clock, switches>>
    BY <1>1 DEF Operates, Same
  <1>4. /\ view' = [q \in Windows |-> view'[q]]
        /\ \A q \in Windows : q # w => view'[q] = view[q]
        /\ StillSeen(view'[w], SessionOf[w])
    BY <1>1, <1>2, <1>3, ShownIsSeen
  <1> QED BY <1>1, <1>2, <1>3, <1>4 DEF Answered, Typed

LEMMA RetractHolds ==
  ASSUME Typed, NEW w \in Windows, NEW n, Retract(w, n)
  PROVE  Answered(w) /\ Len(feedback') = Len(feedback)
  <1>1. /\ Operates(w, "retract", n) /\ latest' = Bumped(changes') /\ Shows(w)
        /\ changes' = changes \/ \E s, m, source : changes' = Undone(s, m, source)
    BY DEF Retract
  <1>2. Moves
    BY <1>1, OperatesMoves
  <1>3. UNCHANGED <<sessions, volatile, sent, boot, clock, switches>>
    BY <1>1 DEF Operates, Same
  <1>4. /\ view' = [q \in Windows |-> view'[q]]
        /\ \A q \in Windows : q # w => view'[q] = view[q]
        /\ StillSeen(view'[w], SessionOf[w])
    BY <1>1, <1>2, <1>3, ShownIsSeen
  <1>5. IsSeq(feedback') /\ Len(feedback') = Len(feedback)
    <2>1. PICK delete \in BOOLEAN :
            feedback' = [feedback EXCEPT ![n].status = "retracted", ![n].text = ~delete /\ feedback[n].text]
      BY DEF Retract
    <2>2. Len(feedback) \in Nat /\ DOMAIN feedback = 1 .. Len(feedback)
             /\ feedback = [i \in 1 .. Len(feedback) |-> feedback[i]]
      BY SeqIs DEF Typed
    <2>3. DOMAIN feedback' = 1 .. Len(feedback) /\ feedback' = [i \in 1 .. Len(feedback) |-> feedback'[i]]
      BY <2>1, <2>2
    <2> QED BY <2>2, <2>3, LenOf
  <1> QED BY <1>1, <1>2, <1>3, <1>4, <1>5 DEF Answered, Typed

\* A restart and the clock belong to no window.
Passes ==
  /\ Moves /\ IsSeq(feedback')
  /\ volatile' = [q \in Sessions |-> [f \in Fields |-> volatile'[q][f]]]
  /\ UNCHANGED <<feedback, view, sent>>

LEMMA PassesHolds ==
  ASSUME Typed, SeenInv, Passes
  PROVE  Typed' /\ SeenInv'
  <1>1. Typed'
    BY DEF Typed, Passes, Moves
  <1>2. Moves /\ view' = view /\ sent' = sent
    BY DEF Passes
  <1>3. \A q \in Windows : SessionOf[q] \in Sessions
    BY DEF Sessions
  <1>4. \A q \in Windows : StillSeen(view[q], SessionOf[q])
    BY <1>2, <1>3, SeenStays DEF SeenInv
  <1>5. \A q \in Windows : sent[q] # NoRequest => StillSeen(sent[q].view, SessionOf[q])
    BY <1>2, <1>3, SeenStays DEF SeenInv
  <1>6. (\A q \in Windows : Seen(view[q], SessionOf[q]))'
    BY <1>2, <1>4 DEF Seen, StillSeen
  <1>7. (\A q \in Windows : sent[q] # NoRequest =>
           sent[q].window = q /\ sent[q].offer \in Offers /\ Seen(sent[q].view, SessionOf[q]))'
    BY <1>2, <1>5 DEF SeenInv, Seen, StillSeen, NoRequest
  <1> QED BY <1>1, <1>6, <1>7 DEF SeenInv

LEMMA RestartPasses ==
  ASSUME Typed, Restart
  PROVE  Passes
  <1>1. boot' = boot + 1 /\ UNCHANGED <<sessions, changes, feedback, latest, clock, switches, view, sent>>
    BY DEF Restart
  <1>2. volatile' = [q \in Sessions |-> [f \in Fields |-> volatile'[q][f]]]
    BY DEF Restart, Unset
  <1> QED BY <1>1, <1>2 DEF Passes, Moves, Typed

LEMMA TickPasses ==
  ASSUME Typed, Tick
  PROVE  Passes
  BY DEF Tick, Passes, Moves, Typed

LEMMA ResidentStep ==
  ASSUME OffersAssumption, Typed, SeenInv, [ResidentNext]_residentVars
  PROVE  /\ Typed' /\ SeenInv'
         /\ Len(feedback') > Len(feedback) /\ feedback'[Len(feedback')].change # 0 =>
              /\ feedback'[Len(feedback')].window \in Windows
              /\ feedback'[Len(feedback')].session = SessionOf[feedback'[Len(feedback')].window]
              /\ sent'[feedback'[Len(feedback')].window].view.revision = latest
              /\ Seen(sent'[feedback'[Len(feedback')].window].view, feedback'[Len(feedback')].session)
  <1>0. Len(feedback) \in Nat
    BY SeqIs DEF Typed
  <1>1. ASSUME NEW w \in Windows, OpenSession(w) \/ ReadState(w)
        PROVE  Answered(w) /\ Len(feedback') = Len(feedback)
    BY <1>1, OpenSessionHolds, ReadStateHolds
  <1>2. ASSUME NEW w \in Windows, Submit(w)
        PROVE  /\ Answered(w)
               /\ Len(feedback') > Len(feedback) /\ feedback'[Len(feedback')].change # 0 =>
                    /\ feedback'[Len(feedback')].window = w /\ feedback'[Len(feedback')].session = SessionOf[w]
                    /\ sent'[w].view.revision = latest /\ Seen(sent'[w].view, SessionOf[w])
    BY <1>2, SubmitHolds DEF SeenInv
  <1>3. ASSUME NEW w \in Windows, Resend(w)
        PROVE  /\ Answered(w)
               /\ Len(feedback') > Len(feedback) /\ feedback'[Len(feedback')].change # 0 =>
                    /\ feedback'[Len(feedback')].window = w /\ feedback'[Len(feedback')].session = SessionOf[w]
                    /\ sent'[w].view.revision = latest /\ Seen(sent'[w].view, SessionOf[w])
    <2>1. sent[w] # NoRequest
      BY <1>3 DEF Resend
    <2> QED BY <1>3, <2>1, ResendHolds DEF SeenInv, Fresh
  <1>4. ASSUME NEW w \in Windows, NEW n, Undo(w, n) \/ Retract(w, n)
        PROVE  Answered(w) /\ Len(feedback') = Len(feedback)
    BY <1>4, UndoHolds, RetractHolds
  <1>5. ASSUME Restart \/ Tick
        PROVE  Passes
    BY <1>5, RestartPasses, TickPasses
  <1>6. ASSUME UNCHANGED residentVars
        PROVE  Passes
    <2>1. UNCHANGED <<sessions, changes, feedback, operations, latest, volatile, boot, clock, switches, view, sent>>
      BY <1>6 DEF residentVars
    <2>2. \A q \in Sessions : Policy(q)' = Policy(q)
      BY <2>1, PolicyStays
    <2> QED BY <2>1, <2>2 DEF Passes, Moves, Typed
  <1>7. Passes => Len(feedback') = Len(feedback)
    BY DEF Passes
  <1>8. \/ Passes
        \/ \E w \in Windows : Answered(w) /\ Len(feedback') = Len(feedback)
        \/ \E w \in Windows :
             /\ Answered(w)
             /\ Len(feedback') > Len(feedback) /\ feedback'[Len(feedback')].change # 0 =>
                  /\ feedback'[Len(feedback')].window = w /\ feedback'[Len(feedback')].session = SessionOf[w]
                  /\ sent'[w].view.revision = latest /\ Seen(sent'[w].view, SessionOf[w])
    BY <1>1, <1>2, <1>3, <1>4, <1>5, <1>6, Zenon DEF ResidentNext
  <1> QED BY <1>0, <1>7, <1>8, AnsweredHolds, PassesHolds

LEMMA ResidentStarts ==
  ASSUME ResidentInit
  PROVE  Typed /\ SeenInv
  <1>1. changes = <<>> /\ feedback = <<>> /\ IsSeq(changes) /\ IsSeq(feedback) /\ Len(changes) = 0
    <2>1. <<>> \in Seq({}) /\ Len(<<>>) = 0
      OBVIOUS
    <2>2. <<>> \in [1 .. 0 -> {}] /\ DOMAIN <<>> = 1 .. 0
      BY <2>1, LenProperties
    <2>3. <<>> = [i \in 1 .. 0 |-> <<>>[i]]
      BY <2>2
    <2>4. IsSeq(<<>>)
      BY <2>2, <2>3, Zenon DEF IsSeq
    <2> QED BY <2>1, <2>4 DEF ResidentInit
  <1>2. /\ latest = 0 /\ boot = 0 /\ clock = 0 /\ switches = 0
        /\ volatile = [s \in Sessions |-> Unset]
        /\ view = [w \in Windows |-> [revision |-> 0, rows |-> 0, moment |-> <<0, 0, 0>>, policy |-> Default]]
        /\ sent = [w \in Windows |-> NoRequest]
    BY DEF ResidentInit
  <1>3. volatile = [s \in Sessions |-> [f \in Fields |-> volatile[s][f]]]
    BY <1>2 DEF Unset
  <1>4. Typed
    BY <1>1, <1>2, <1>3 DEF Typed
  <1>5. \A s \in Sessions : Policy(s) = Default
    <2>1. DOMAIN changes = {}
      BY <1>1
    <2>2. \A n \in {0} : InForce(n) = FALSE
      BY DEF InForce
    <2>3. \A scope, f, s : Layer(scope, f, s) = 0
      <3>1. Top({}) = 0
        BY TopOf
      <3> QED BY <2>1, <3>1 DEF Layer, Top
    <2>4. \A s \in Sessions, f \in Fields : volatile[s][f] = NoValue
      BY <1>2 DEF Unset
    <2>5. \A s \in Sessions, f \in Fields : Stable(s, f) = Default[f]
      BY <2>2, <2>3 DEF Stable
    <2>6. Default = [f \in Fields |-> Default[f]]
      BY DEF Default, Fields
    <2> HIDE DEF Default
    <2> QED BY <2>4, <2>5, <2>6, PolicyIs
  <1>6. \A w \in Windows : SessionOf[w] \in Sessions
    BY DEF Sessions
  <1>7. \A w \in Windows : Seen(view[w], SessionOf[w])
    BY <1>1, <1>2, <1>5, <1>6 DEF Seen
  <1> QED BY <1>2, <1>4, <1>7 DEF SeenInv

\* Feedback changes a profile only as its window was shown it (resident_service.py:283).
THEOREM FeedbackIsFresh ==
  ASSUME OffersAssumption
  PROVE  ResidentSpec => AppliedOnWhatWasSeen
  <1>1. ResidentInit => Typed /\ SeenInv
    BY ResidentStarts
  <1>2. Typed /\ SeenInv /\ [ResidentNext]_residentVars =>
          /\ (Typed /\ SeenInv)'
          /\ [Len(feedback') > Len(feedback) /\ feedback'[Len(feedback')].change # 0 =>
                LET e == feedback'[Len(feedback')]
                    shown == sent'[e.window].view
                IN  /\ shown.rows = Len(changes)
                    /\ shown.moment = <<boot, clock, switches>> => shown.policy = Policy(e.session)]_residentVars
    BY ResidentStep DEF Seen
  <1> QED BY <1>1, <1>2, PTL DEF ResidentSpec, AppliedOnWhatWasSeen

-----------------------------------------------------------------------------
(* Resident feedback: the rows *)

IsRow(c) ==
  c = [session |-> c.session, source |-> c.source, field |-> c.field, scope |-> c.scope,
       before |-> c.before, beforeExpires |-> c.beforeExpires, after |-> c.after,
       expires |-> c.expires, boot |-> c.boot, undoes |-> c.undoes, status |-> c.status]

\* The first N rows of a layer.
Line(rows, N, c) ==
  {m \in 1 .. N : rows[m].scope = c.scope /\ rows[m].field = c.field
                    /\ (c.scope = "session" => rows[m].session = c.session /\ rows[m].boot = c.boot)}

ValueAt(rows, n) == IF n = 0 THEN NoValue ELSE rows[n].after

\* Every row holds the value that its layer had before it.
RowsHold(rows) ==
  \A n \in 1 .. Len(rows) :
    IsRow(rows[n]) /\ rows[n].before = ValueAt(rows, Top(Line(rows, n - 1, rows[n])))

SameRow(c, d) ==
  /\ c.session = d.session /\ c.field = d.field /\ c.scope = d.scope /\ c.boot = d.boot
  /\ c.before = d.before /\ c.after = d.after

\* Rows that differ in their marks alone.
Agree(rows, copies, N) == \A m \in 1 .. N : SameRow(rows[m], copies[m])

LEMMA LineSame ==
  ASSUME NEW rows, NEW copies, NEW N \in Nat, Agree(rows, copies, N), NEW c, NEW d, SameRow(c, d)
  PROVE  /\ Line(rows, N, c) = Line(copies, N, d) /\ Line(rows, N, c) \subseteq 1 .. N
         /\ ValueAt(rows, Top(Line(rows, N, c))) = ValueAt(copies, Top(Line(copies, N, d)))
  <1>1. Line(rows, N, c) = Line(copies, N, d) /\ Line(rows, N, c) \subseteq 1 .. N
    BY DEF Line, SameRow, Agree
  <1>2. Top(Line(rows, N, c)) \in 0 .. N
    BY <1>1, TopOf
  <1>3. Top(Line(rows, N, c)) = 0 \/ Top(Line(rows, N, c)) \in 1 .. N
    BY <1>2
  <1> QED BY <1>1, <1>3 DEF ValueAt, SameRow, Agree

LEMMA RowsAppend ==
  ASSUME NEW rows, IsSeq(rows), RowsHold(rows), NEW e, IsRow(e),
         e.before = ValueAt(rows, Top(Line(rows, Len(rows), e)))
  PROVE  RowsHold(Append(rows, e))
  <1> DEFINE more == Append(rows, e)
  <1>1. /\ Len(rows) \in Nat /\ Len(more) = Len(rows) + 1
        /\ \A i \in 1 .. Len(rows) : more[i] = rows[i]
        /\ more[Len(rows) + 1] = e
    BY SeqIs, Appended
  <1> HIDE DEF more
  <1> SUFFICES ASSUME NEW n \in 1 .. Len(more)
               PROVE  IsRow(more[n]) /\ more[n].before = ValueAt(more, Top(Line(more, n - 1, more[n])))
    BY DEF RowsHold, more
  <1>2. n - 1 \in Nat /\ n - 1 <= Len(rows) /\ \A m \in 1 .. (n - 1) : m \in 1 .. Len(rows)
    BY <1>1
  <1>3. \A m \in 1 .. (n - 1) : SameRow(more[m], rows[m])
    BY <1>1, <1>2 DEF SameRow
  <1>4. ValueAt(more, Top(Line(more, n - 1, more[n]))) = ValueAt(rows, Top(Line(rows, n - 1, more[n])))
    <2> DEFINE k == n - 1
               c == more[n]
    <2>1. SameRow(c, c) /\ k \in Nat /\ Agree(more, rows, k)
      BY <1>2, <1>3 DEF SameRow, Agree
    <2> HIDE DEF k, c
    <2>2. ValueAt(more, Top(Line(more, k, c))) = ValueAt(rows, Top(Line(rows, k, c)))
      BY <2>1, LineSame
    <2> QED BY <2>2 DEF k, c
  <1>5. CASE n = Len(rows) + 1
    BY <1>1, <1>4, <1>5
  <1>6. CASE n # Len(rows) + 1
    <2>1. n \in 1 .. Len(rows)
      BY <1>1, <1>6
    <2> QED BY <1>1, <1>4, <2>1 DEF RowsHold
  <1> QED BY <1>5, <1>6

AllRows(rows) == \A i \in 1 .. Len(rows) : IsRow(rows[i])

\* A row that is marked is the same row.
Marks(rows, t, n, x) ==
  \A i \in 1 .. Len(rows) :
    /\ IsRow(t[i]) /\ SameRow(t[i], rows[i])
    /\ t[i].expires = rows[i].expires /\ t[i].beforeExpires = rows[i].beforeExpires
    /\ t[i].status = IF i = n THEN x ELSE rows[i].status

LEMMA MarkedRow ==
  ASSUME NEW rows, IsSeq(rows), AllRows(rows), NEW n, NEW x
  PROVE  Marks(rows, [rows EXCEPT ![n].status = x], n, x)
  <1> SUFFICES ASSUME NEW i \in 1 .. Len(rows)
               PROVE  /\ IsRow([rows EXCEPT ![n].status = x][i])
                      /\ SameRow([rows EXCEPT ![n].status = x][i], rows[i])
                      /\ [rows EXCEPT ![n].status = x][i].expires = rows[i].expires
                      /\ [rows EXCEPT ![n].status = x][i].beforeExpires = rows[i].beforeExpires
                      /\ [rows EXCEPT ![n].status = x][i].status = IF i = n THEN x ELSE rows[i].status
    BY DEF Marks
  <1>1. DOMAIN rows = 1 .. Len(rows) /\ IsRow(rows[i])
    BY SeqIs DEF AllRows
  <1>2. [rows EXCEPT ![n].status = x][i] = IF i = n THEN [rows[i] EXCEPT !.status = x] ELSE rows[i]
    BY <1>1
  <1> DEFINE c == rows[i]
             d == [c EXCEPT !.status = x]
  <1>3. c = [session |-> c.session, source |-> c.source, field |-> c.field, scope |-> c.scope,
             before |-> c.before, beforeExpires |-> c.beforeExpires, after |-> c.after,
             expires |-> c.expires, boot |-> c.boot, undoes |-> c.undoes, status |-> c.status]
    BY <1>1 DEF IsRow
  <1> HIDE DEF c
  <1>4. /\ d.session = c.session /\ d.field = c.field /\ d.scope = c.scope /\ d.boot = c.boot
        /\ d.before = c.before /\ d.after = c.after /\ d.expires = c.expires
        /\ d.beforeExpires = c.beforeExpires /\ d.source = c.source /\ d.undoes = c.undoes
        /\ d.status = x
    BY <1>3
  <1>5. IsRow(d)
    BY <1>3, <1>4 DEF IsRow
  <1> HIDE DEF d
  <1> QED BY <1>1, <1>2, <1>4, <1>5 DEF c, d, SameRow

LEMMA RowsMarked ==
  ASSUME NEW rows, IsSeq(rows), RowsHold(rows), NEW n, NEW x
  PROVE  RowsHold([rows EXCEPT ![n].status = x])
  <1> DEFINE t == [rows EXCEPT ![n].status = x]
  <1>1. Len(rows) \in Nat /\ Len(t) = Len(rows)
    BY Marked, SeqIs
  <1>a. Marks(rows, t, n, x)
    BY MarkedRow DEF RowsHold, AllRows
  <1> HIDE DEF t
  <1>2. \A i \in 1 .. Len(rows) : IsRow(t[i]) /\ SameRow(t[i], rows[i])
    BY <1>a DEF Marks
  <1>3. ASSUME NEW i \in 1 .. Len(rows)
        PROVE  t[i].before = ValueAt(t, Top(Line(t, i - 1, t[i])))
    <2>1. i - 1 \in Nat /\ \A m \in 1 .. (i - 1) : m \in 1 .. Len(rows)
      BY <1>1
    <2>2. Agree(t, rows, i - 1) /\ SameRow(t[i], rows[i])
      BY <1>2, <2>1 DEF Agree
    <2>3. ValueAt(t, Top(Line(t, i - 1, t[i]))) = ValueAt(rows, Top(Line(rows, i - 1, rows[i])))
      BY <2>1, <2>2, LineSame
    <2> QED BY <1>2, <2>3 DEF RowsHold, SameRow
  <1> QED BY <1>1, <1>2, <1>3 DEF RowsHold, t

\* Which rows a session sees.
Sees(s, scope) == scope = "session" \/ sessions[s].owner

LEMMA LayerTop ==
  ASSUME IsSeq(changes), NEW s, NEW scope, NEW field, Sees(s, scope), NEW c,
         c.scope = scope, c.field = field, c.session = s, c.boot = boot
  PROVE  Layer(scope, field, s) = Top(Line(changes, Len(changes), c))
  <1>1. DOMAIN changes = 1 .. Len(changes)
    BY SeqIs
  <1>2. {n \in DOMAIN changes :
          changes[n].scope = scope /\ changes[n].field = field /\ Visible(changes[n], s)}
        = Line(changes, Len(changes), c)
    BY <1>1 DEF Line, Visible, Sees
  <1> QED BY <1>2 DEF Layer, Top

\* The row of _add_change fits in.
LEMMA RowFits ==
  ASSUME IsSeq(changes), NEW s, NEW source, NEW field, NEW scope, NEW after, NEW expires, NEW undoes,
         Sees(s, scope)
  PROVE  LET row == Row(s, source, field, scope, after, expires, undoes)
         IN  /\ IsRow(row) /\ row.before = ValueAt(changes, Top(Line(changes, Len(changes), row)))
             /\ row.session = s /\ row.source = source /\ row.field = field /\ row.scope = scope
             /\ row.after = after /\ row.expires = expires /\ row.boot = boot /\ row.undoes = undoes
             /\ row.status = (IF undoes = 0 THEN "applied" ELSE "reverted")
             /\ Top(Line(changes, Len(changes), row)) = 0 => row.beforeExpires = 0
             /\ Top(Line(changes, Len(changes), row)) # 0 =>
                  row.beforeExpires = changes[Top(Line(changes, Len(changes), row))].expires
  <1> DEFINE row == Row(s, source, field, scope, after, expires, undoes)
             n == Layer(scope, field, s)
  <1>1. row = [session |-> s, source |-> source, field |-> field, scope |-> scope,
               before |-> IF n = 0 THEN NoValue ELSE changes[n].after,
               beforeExpires |-> IF n = 0 THEN 0 ELSE changes[n].expires,
               after |-> after, expires |-> expires, boot |-> boot, undoes |-> undoes,
               status |-> IF undoes = 0 THEN "applied" ELSE "reverted"]
    BY DEF Row
  <1> HIDE DEF row, n
  <1>2. /\ row.session = s /\ row.source = source /\ row.field = field /\ row.scope = scope
        /\ row.after = after /\ row.expires = expires /\ row.boot = boot /\ row.undoes = undoes
        /\ row.status = (IF undoes = 0 THEN "applied" ELSE "reverted")
        /\ row.before = (IF n = 0 THEN NoValue ELSE changes[n].after)
        /\ row.beforeExpires = (IF n = 0 THEN 0 ELSE changes[n].expires)
    BY <1>1
  <1>3. IsRow(row)
    BY <1>1, <1>2 DEF IsRow
  <1>4. n = Top(Line(changes, Len(changes), row))
    BY <1>2, LayerTop DEF n
  <1> QED BY <1>2, <1>3, <1>4 DEF row, ValueAt

-----------------------------------------------------------------------------
(* Resident feedback: restrictions *)

Restricted == "restricted_memory_ids"

\* What a restriction added.
Added(c) == Ids(c.after) \ Ids(c.before)

Restriction(c) ==
  /\ c.scope = "owner" /\ c.expires = 0 /\ c.beforeExpires = 0
  /\ c.after \subseteq Memories /\ c.after # NoValue
  /\ c.before = NoValue \/ (c.before \subseteq Memories /\ c.before # NoValue)

MemRows(rows) == {n \in 1 .. Len(rows) : rows[n].field = Restricted}

MemApplied(rows) == {n \in MemRows(rows) : rows[n].status = "applied"}

\* What is restricted now.
Forbidden(rows) == Ids(ValueAt(rows, Top(MemRows(rows))))

\* What the applied restrictions added is in force, and no two of them added the same.
MemHold(rows) ==
  /\ \A n \in MemRows(rows) : Restriction(rows[n])
  /\ \A n \in MemApplied(rows) : Added(rows[n]) \subseteq Forbidden(rows)
  /\ \A n, m \in MemApplied(rows) : n # m => Added(rows[n]) \cap Added(rows[m]) = {}

LEMMA MemRowsAppend ==
  ASSUME NEW rows, IsSeq(rows), NEW e
  PROVE  /\ \A n \in 1 .. Len(rows) : n # Len(rows) + 1
         /\ e.field # Restricted =>
              MemRows(Append(rows, e)) = MemRows(rows) /\ MemApplied(Append(rows, e)) = MemApplied(rows)
         /\ e.field = Restricted =>
              /\ MemRows(Append(rows, e)) = MemRows(rows) \cup {Len(rows) + 1}
              /\ MemApplied(Append(rows, e)) =
                   MemApplied(rows) \cup (IF e.status = "applied" THEN {Len(rows) + 1} ELSE {})
              /\ Top(MemRows(Append(rows, e))) = Len(rows) + 1
  <1> DEFINE more == Append(rows, e)
  <1>1. /\ Len(rows) \in Nat /\ Len(more) = Len(rows) + 1
        /\ \A i \in 1 .. Len(rows) : more[i] = rows[i]
        /\ more[Len(rows) + 1] = e
    BY SeqIs, Appended
  <1> HIDE DEF more
  <1>2. 1 .. Len(more) = (1 .. Len(rows)) \cup {Len(rows) + 1} /\ Len(rows) + 1 \notin 1 .. Len(rows)
    BY <1>1
  <1>3. MemRows(more) = MemRows(rows) \cup (IF e.field = Restricted THEN {Len(rows) + 1} ELSE {})
    BY <1>1, <1>2 DEF MemRows
  <1>4. MemApplied(more) = MemApplied(rows) \cup
          (IF e.field = Restricted /\ e.status = "applied" THEN {Len(rows) + 1} ELSE {})
    BY <1>1, <1>2 DEF MemRows, MemApplied
  <1>5. ASSUME e.field = Restricted
        PROVE  Top(MemRows(more)) = Len(rows) + 1
    <2>1. MemRows(more) \subseteq 1 .. Len(rows) + 1 /\ Len(rows) + 1 \in MemRows(more) /\ Len(rows) + 1 \in Nat
      BY <1>1, <1>2, <1>3, <1>5 DEF MemRows
    <2>2. Top(MemRows(more)) >= Len(rows) + 1 /\ Top(MemRows(more)) \in 0 .. Len(rows) + 1
      BY <2>1, TopOf
    <2> QED BY <2>1, <2>2
  <1> QED BY <1>1, <1>2, <1>3, <1>4, <1>5 DEF more

LEMMA MemRowsIn ==
  ASSUME NEW rows, IsSeq(rows)
  PROVE  /\ Len(rows) \in Nat /\ MemRows(rows) \subseteq 1 .. Len(rows) /\ MemApplied(rows) \subseteq MemRows(rows)
         /\ Top(MemRows(rows)) \in {0} \cup MemRows(rows)
         /\ Top(MemRows(rows)) = 0 => MemRows(rows) = {}
         /\ 0 \notin MemRows(rows)
  <1>1. Len(rows) \in Nat /\ MemRows(rows) \subseteq 1 .. Len(rows) /\ MemApplied(rows) \subseteq MemRows(rows)
    BY SeqIs DEF MemRows, MemApplied
  <1>2. /\ Top(MemRows(rows)) \in {0} \cup MemRows(rows)
        /\ MemRows(rows) # {} => Top(MemRows(rows)) \in MemRows(rows)
    BY <1>1, TopOf
  <1> QED BY <1>1, <1>2

\* A row of another field.
LEMMA MemAppendOther ==
  ASSUME NEW rows, IsSeq(rows), MemHold(rows), NEW e, e.field # Restricted
  PROVE  MemHold(Append(rows, e))
  <1> DEFINE more == Append(rows, e)
  <1>1. MemRows(more) = MemRows(rows) /\ MemApplied(more) = MemApplied(rows)
    BY MemRowsAppend
  <1>2. \A i \in 1 .. Len(rows) : more[i] = rows[i]
    BY Appended
  <1>3. /\ MemRows(rows) \subseteq 1 .. Len(rows) /\ MemApplied(rows) \subseteq MemRows(rows)
        /\ Top(MemRows(rows)) \in {0} \cup MemRows(rows) /\ 0 \notin MemRows(rows)
    BY MemRowsIn
  <1> HIDE DEF more
  <1>4. Forbidden(more) = Forbidden(rows)
    BY <1>1, <1>2, <1>3 DEF Forbidden, ValueAt
  <1>5. \A n \in MemRows(rows) : more[n] = rows[n]
    BY <1>2, <1>3
  <1> QED BY <1>1, <1>3, <1>4, <1>5 DEF MemHold, more

\* One more restriction.
LEMMA MemAppendMake ==
  ASSUME NEW rows, IsSeq(rows), MemHold(rows), NEW e, e.field = Restricted, Restriction(e),
         Ids(e.before) = Forbidden(rows), Ids(e.before) \subseteq Ids(e.after)
  PROVE  MemHold(Append(rows, e))
  <1> DEFINE more == Append(rows, e)
             new == Len(rows) + 1
  <1>1. /\ MemRows(more) = MemRows(rows) \cup {new}
        /\ MemApplied(more) = MemApplied(rows) \cup (IF e.status = "applied" THEN {new} ELSE {})
        /\ Top(MemRows(more)) = new
    BY MemRowsAppend
  <1>2. (\A i \in 1 .. Len(rows) : more[i] = rows[i]) /\ more[new] = e
    BY Appended
  <1>3. /\ MemRows(rows) \subseteq 1 .. Len(rows) /\ MemApplied(rows) \subseteq MemRows(rows)
        /\ new \notin 1 .. Len(rows) /\ new # 0
    BY MemRowsIn, MemRowsAppend
  <1> HIDE DEF more, new
  <1>4. Forbidden(more) = Ids(e.after)
    BY <1>1, <1>2, <1>3 DEF Forbidden, ValueAt
  <1>5. \A n \in MemRows(rows) : more[n] = rows[n]
    BY <1>2, <1>3
  <1>6. \A n \in MemRows(more) : Restriction(more[n])
    BY <1>1, <1>2, <1>5 DEF MemHold
  <1>7. \A n \in MemApplied(rows) : Added(rows[n]) \subseteq Ids(e.before)
    BY DEF MemHold
  <1>8. ASSUME NEW n \in MemApplied(more)
        PROVE  Added(more[n]) \subseteq Forbidden(more)
    <2>1. CASE n \in MemApplied(rows)
      BY <1>3, <1>4, <1>5, <1>7, <2>1
    <2>2. CASE n = new
      BY <1>2, <1>4, <2>2 DEF Added
    <2> QED BY <1>1, <2>1, <2>2
  <1>9. ASSUME NEW n \in MemApplied(more), NEW m \in MemApplied(more), n # m
        PROVE  Added(more[n]) \cap Added(more[m]) = {}
    <2>1. Added(e) \cap Ids(e.before) = {}
      BY DEF Added
    <2>2. CASE n \in MemApplied(rows) /\ m \in MemApplied(rows)
      BY <1>3, <1>5, <1>9, <2>2 DEF MemHold
    <2>3. CASE n = new /\ m \in MemApplied(rows)
      BY <1>2, <1>3, <1>5, <1>7, <2>1, <2>3
    <2>4. CASE m = new /\ n \in MemApplied(rows)
      BY <1>2, <1>3, <1>5, <1>7, <2>1, <2>4
    <2> QED BY <1>1, <1>9, <2>2, <2>3, <2>4
  <1> QED BY <1>6, <1>8, <1>9 DEF MemHold, more

\* A restriction is taken back: its row is marked, and one more holds the rest.
LEMMA MemUndo ==
  ASSUME NEW rows, IsSeq(rows), MemHold(rows), RowsHold(rows), NEW n \in MemApplied(rows),
         NEW e, e.field = Restricted, Restriction(e), e.status = "reverted",
         e.after = Forbidden(rows) \ Added(rows[n])
  PROVE  /\ MemHold(Append([rows EXCEPT ![n].status = "reverted"], e))
         /\ \A m \in MemApplied(Append([rows EXCEPT ![n].status = "reverted"], e)) :
              Added(Append([rows EXCEPT ![n].status = "reverted"], e)[m]) \subseteq e.after
  <1> DEFINE t == [rows EXCEPT ![n].status = "reverted"]
             more == Append(t, e)
             new == Len(t) + 1
  <1>1. IsSeq(t) /\ Len(t) = Len(rows)
    BY Marked
  <1>a. Marks(rows, t, n, "reverted")
    BY MarkedRow DEF RowsHold, AllRows
  <1> HIDE DEF t
  <1>2. \A i \in 1 .. Len(rows) :
          /\ SameRow(t[i], rows[i]) /\ t[i].expires = rows[i].expires
          /\ t[i].beforeExpires = rows[i].beforeExpires
          /\ t[i].status = IF i = n THEN "reverted" ELSE rows[i].status
    BY <1>a DEF Marks
  <1>3. MemRows(t) = MemRows(rows) /\ MemApplied(t) = MemApplied(rows) \ {n}
    BY <1>1, <1>2 DEF MemRows, MemApplied, SameRow
  <1>4. /\ MemRows(more) = MemRows(t) \cup {new} /\ MemApplied(more) = MemApplied(t)
        /\ Top(MemRows(more)) = new
    BY <1>1, MemRowsAppend
  <1>5. (\A i \in 1 .. Len(t) : more[i] = t[i]) /\ more[new] = e
    BY <1>1, Appended
  <1>6. /\ MemRows(rows) \subseteq 1 .. Len(rows) /\ MemApplied(rows) \subseteq MemRows(rows)
        /\ new # 0
    BY <1>1, MemRowsIn
  <1> HIDE DEF more, new
  <1>7. \A i \in MemRows(rows) :
          /\ SameRow(more[i], rows[i]) /\ more[i].expires = rows[i].expires
          /\ more[i].beforeExpires = rows[i].beforeExpires
    BY <1>1, <1>2, <1>5, <1>6 DEF SameRow
  <1>8. \A i \in MemRows(rows) : Added(more[i]) = Added(rows[i])
    BY <1>7 DEF Added, SameRow
  <1>9. \A i \in MemRows(more) : Restriction(more[i])
    <2>1. \A i \in MemRows(rows) : Restriction(rows[i])
      BY DEF MemHold
    <2>2. \A i \in MemRows(rows) : Restriction(more[i])
      BY <1>7, <2>1 DEF Restriction, SameRow
    <2> QED BY <1>3, <1>4, <1>5, <2>2
  <1>10. Forbidden(more) = e.after
    BY <1>4, <1>5, <1>6 DEF Forbidden, ValueAt, Ids, Restriction
  <1>11. ASSUME NEW m \in MemApplied(more)
         PROVE  Added(more[m]) \subseteq e.after
    <2>1. m \in MemApplied(rows) /\ m # n /\ Added(more[m]) = Added(rows[m])
      BY <1>3, <1>4, <1>6, <1>8
    <2>2. Added(rows[m]) \subseteq Forbidden(rows) /\ Added(rows[m]) \cap Added(rows[n]) = {}
      BY <2>1 DEF MemHold
    <2> QED BY <2>1, <2>2
  <1>12. ASSUME NEW i \in MemApplied(more), NEW m \in MemApplied(more), i # m
         PROVE  Added(more[i]) \cap Added(more[m]) = {}
    <2>1. i \in MemApplied(rows) /\ m \in MemApplied(rows)
      BY <1>3, <1>4
    <2> QED BY <1>6, <1>8, <1>12, <2>1 DEF MemHold
  <1> QED BY <1>9, <1>10, <1>11, <1>12 DEF MemHold, more, t

\* A mark on a row of another field.
LEMMA MemMarkOther ==
  ASSUME NEW rows, IsSeq(rows), MemHold(rows), RowsHold(rows), NEW n, n \notin MemRows(rows), NEW x
  PROVE  MemHold([rows EXCEPT ![n].status = x])
  <1> DEFINE t == [rows EXCEPT ![n].status = x]
  <1>1. Len(t) = Len(rows)
    BY Marked
  <1>a. Marks(rows, t, n, x)
    BY MarkedRow DEF RowsHold, AllRows
  <1>2. \A i \in 1 .. Len(rows) :
          /\ SameRow(t[i], rows[i]) /\ t[i].expires = rows[i].expires
          /\ t[i].beforeExpires = rows[i].beforeExpires
          /\ t[i].status = IF i = n THEN x ELSE rows[i].status
    BY <1>a DEF Marks
  <1>3. /\ MemRows(rows) \subseteq 1 .. Len(rows) /\ MemApplied(rows) \subseteq MemRows(rows)
        /\ Top(MemRows(rows)) \in {0} \cup MemRows(rows) /\ 0 \notin MemRows(rows)
    BY MemRowsIn
  <1> HIDE DEF t
  <1>4. MemRows(t) = MemRows(rows)
    BY <1>1, <1>2 DEF MemRows, SameRow
  <1>5. MemApplied(t) = MemApplied(rows)
    BY <1>1, <1>2, <1>3, <1>4 DEF MemApplied
  <1>6. \A i \in MemRows(rows) : SameRow(t[i], rows[i]) /\ Added(t[i]) = Added(rows[i])
    BY <1>2, <1>3 DEF Added, SameRow
  <1>7. \A i \in MemRows(rows) : Restriction(t[i])
    <2>1. \A i \in MemRows(rows) : Restriction(rows[i])
      BY DEF MemHold
    <2> QED BY <1>2, <1>3, <2>1 DEF Restriction, SameRow
  <1>8. Forbidden(t) = Forbidden(rows)
    BY <1>3, <1>4, <1>6 DEF Forbidden, ValueAt, SameRow
  <1> QED BY <1>3, <1>4, <1>5, <1>6, <1>7, <1>8 DEF MemHold, t

\* What the rows are.
Good(rows) == IsSeq(rows) /\ RowsHold(rows) /\ MemHold(rows)

\* No restriction is said in a session that stores nothing.
Quiet == \A s \in Sessions : volatile[s][Restricted] = NoValue

LEMMA NoLayer ==
  ASSUME Good(changes), NEW s, NEW scope, scope # "owner"
  PROVE  Layer(scope, Restricted, s) = 0
  <1>1. DOMAIN changes = 1 .. Len(changes)
    BY SeqIs DEF Good
  <1>2. {n \in DOMAIN changes :
          changes[n].scope = scope /\ changes[n].field = Restricted /\ Visible(changes[n], s)} = {}
    BY <1>1 DEF Good, MemHold, MemRows, Restriction
  <1>3. Top({}) = 0
    BY TopOf
  <1> QED BY <1>2, <1>3 DEF Layer, Top

LEMMA OwnerLayer ==
  ASSUME Good(changes), NEW s, sessions[s].owner
  PROVE  Layer("owner", Restricted, s) = Top(MemRows(changes))
  <1>1. DOMAIN changes = 1 .. Len(changes)
    BY SeqIs DEF Good
  <1>2. {n \in DOMAIN changes :
          changes[n].scope = "owner" /\ changes[n].field = Restricted /\ Visible(changes[n], s)}
        = MemRows(changes)
    BY <1>1 DEF Good, MemHold, MemRows, Restriction, Visible
  <1> QED BY <1>2 DEF Layer, Top

LEMMA PolicyMem ==
  ASSUME Good(changes), Quiet, NEW s \in Sessions, sessions[s].owner
  PROVE  Policy(s)[Restricted] = Forbidden(changes)
  <1> DEFINE n == Top(MemRows(changes))
  <1>1. /\ Layer("session", Restricted, s) = 0 /\ Layer("expiring", Restricted, s) = 0
        /\ Layer("owner", Restricted, s) = n
    BY NoLayer, OwnerLayer
  <1>2. InForce(0) = FALSE
    BY DEF InForce
  <1>3. n \in {0} \cup MemRows(changes) /\ 0 \notin MemRows(changes)
    BY MemRowsIn DEF Good
  <1> HIDE DEF n
  <1>4. n # 0 => InForce(n) /\ changes[n].after # NoValue
    BY <1>3 DEF Good, MemHold, Restriction, InForce
  <1>5. Stable(s, Restricted) = IF n # 0 THEN changes[n].after ELSE Default[Restricted]
    BY <1>1, <1>2, <1>4 DEF Stable
  <1>6. Default[Restricted] = {} /\ Restricted \in Fields
    BY DEF Default, Restricted, Fields
  <1>7. Stable(s, Restricted) = Forbidden(changes)
    BY <1>4, <1>5, <1>6 DEF Forbidden, ValueAt, Ids, n
  <1> QED BY <1>6, <1>7, PolicyIs DEF Quiet

\* The row of a restriction.
LEMMA MemRow ==
  ASSUME Good(changes), RestrictionsAssumption, NEW s, sessions[s].owner, NEW source, NEW after,
         after \subseteq Memories, NEW undoes
  PROVE  LET row == Row(s, source, Restricted, "owner", after, 0, undoes)
         IN  /\ IsRow(row) /\ row.before = ValueAt(changes, Top(Line(changes, Len(changes), row)))
             /\ row.field = Restricted /\ row.after = after /\ row.undoes = undoes
             /\ row.status = (IF undoes = 0 THEN "applied" ELSE "reverted")
             /\ Restriction(row) /\ Ids(row.before) = Forbidden(changes)
  <1> DEFINE row == Row(s, source, Restricted, "owner", after, 0, undoes)
             n == Top(MemRows(changes))
  <1>1. /\ IsRow(row) /\ row.before = ValueAt(changes, Top(Line(changes, Len(changes), row)))
        /\ row.field = Restricted /\ row.scope = "owner" /\ row.after = after /\ row.expires = 0
        /\ row.undoes = undoes /\ row.status = (IF undoes = 0 THEN "applied" ELSE "reverted")
        /\ Top(Line(changes, Len(changes), row)) = 0 => row.beforeExpires = 0
        /\ Top(Line(changes, Len(changes), row)) # 0 =>
             row.beforeExpires = changes[Top(Line(changes, Len(changes), row))].expires
    <2>1. IsSeq(changes) /\ Sees(s, "owner")
      BY DEF Good, Sees
    <2> QED BY <2>1, RowFits
  <1> HIDE DEF row
  <1>2. Line(changes, Len(changes), row) = MemRows(changes)
    BY <1>1 DEF Line, MemRows, Good, MemHold, Restriction
  <1>3. n \in {0} \cup MemRows(changes) /\ 0 \notin MemRows(changes)
    BY MemRowsIn DEF Good
  <1>4. row.before = ValueAt(changes, n) /\ Ids(row.before) = Forbidden(changes)
    BY <1>1, <1>2 DEF Forbidden
  <1> HIDE DEF n
  <1>5. n # 0 => Restriction(changes[n])
    BY <1>3 DEF Good, MemHold
  <1>6. after # NoValue
    BY DEF RestrictionsAssumption
  <1>7. row.beforeExpires = 0
    BY <1>1, <1>2, <1>5 DEF Restriction, n
  <1>8. row.before = NoValue \/ (row.before \subseteq Memories /\ row.before # NoValue)
    <2>1. n = 0 => row.before = NoValue
      BY <1>4 DEF ValueAt
    <2>2. ASSUME n # 0
          PROVE  row.before = changes[n].after
      BY <1>4, <2>2 DEF ValueAt
    <2>3. ASSUME n # 0
          PROVE  changes[n].after \subseteq Memories /\ changes[n].after # NoValue
      BY <1>5, <2>3 DEF Restriction
    <2> QED BY <2>1, <2>2, <2>3
  <1>9. Restriction(row)
    BY <1>1, <1>6, <1>7, <1>8 DEF Restriction
  <1> QED BY <1>1, <1>4, <1>9 DEF row

LEMMA MadeHolds ==
  ASSUME OffersAssumption, RestrictionsAssumption, Good(changes), Quiet, NEW s \in Sessions,
         sessions[s].owner, NEW o \in Offers, Classify(o).change # NoChange, NEW id
  PROVE  LET c == Classify(o).change
             rows == Append(changes, Row(s, id, c.field, c.scope, Wanted(s, c), c.expires, 0))
         IN  Good(rows) /\ rows[Len(rows)].undoes = 0
  <1> DEFINE c == Classify(o).change
             row == Row(s, id, c.field, c.scope, Wanted(s, c), c.expires, 0)
             rows == Append(changes, row)
  <1>1. c.field \in Fields /\ (c.scope # "expiring" => c.expires = 0)
    BY DEF OffersAssumption
  <1>2. c.field = Restricted => c.scope = "owner" /\ c.value \subseteq Memories
    BY DEF RestrictionsAssumption, Restricting, Memories, Restricted
  <1> HIDE DEF c
  <1>3. IsSeq(changes) /\ RowsHold(changes) /\ MemHold(changes) /\ Sees(s, c.scope)
    BY DEF Good, Sees
  <1>4. CASE c.field # Restricted
    <2>1. /\ IsRow(row) /\ row.before = ValueAt(changes, Top(Line(changes, Len(changes), row)))
          /\ row.field = c.field /\ row.undoes = 0
      BY <1>3, RowFits
    <2> HIDE DEF row
    <2>2. RowsHold(rows) /\ MemHold(rows) /\ IsSeq(rows) /\ rows[Len(rows)] = row
      BY <1>3, <1>4, <2>1, RowsAppend, MemAppendOther, Appended
    <2> QED BY <2>1, <2>2 DEF Good, row, c
  <1>5. CASE c.field = Restricted
    <2>1. Forbidden(changes) \subseteq Memories
      <3>1. /\ Top(MemRows(changes)) \in {0} \cup MemRows(changes) /\ 0 \notin MemRows(changes)
        BY <1>3, MemRowsIn
      <3> QED BY <1>3, <3>1 DEF Forbidden, ValueAt, Ids, MemHold, Restriction
    <2>2. Wanted(s, c) = Forbidden(changes) \cup c.value
      BY <1>5, PolicyMem DEF Wanted, Restricted
    <2>3. Wanted(s, c) \subseteq Memories
      BY <1>2, <1>5, <2>1, <2>2
    <2>4. row = Row(s, id, Restricted, "owner", Wanted(s, c), 0, 0)
      BY <1>1, <1>2, <1>5
    <2>5. /\ IsRow(row) /\ row.before = ValueAt(changes, Top(Line(changes, Len(changes), row)))
          /\ row.field = Restricted /\ row.after = Wanted(s, c) /\ row.undoes = 0
          /\ Restriction(row) /\ Ids(row.before) = Forbidden(changes)
      BY <2>3, <2>4, MemRow
    <2> HIDE DEF row
    <2>6. Ids(row.after) = Wanted(s, c)
      BY <2>5 DEF Ids, Restriction
    <2>7. MemHold(rows)
      BY <1>3, <2>2, <2>5, <2>6, MemAppendMake
    <2>8. RowsHold(rows) /\ IsSeq(rows) /\ rows[Len(rows)] = row
      BY <1>3, <2>5, RowsAppend, Appended
    <2> QED BY <2>5, <2>7, <2>8 DEF Good, row, c
  <1> QED BY <1>4, <1>5

\* A row that fits is not disturbed by marks.
FitsIn(rows, e) == IsRow(e) /\ e.before = ValueAt(rows, Top(Line(rows, Len(rows), e)))

\* The rows rows with one more, e.
EndsWith(rows, e) == RowsHold(rows) /\ IsSeq(rows) /\ rows[Len(rows)] = e

LEMMA FitsMarked ==
  ASSUME NEW rows, IsSeq(rows), RowsHold(rows), NEW n, NEW x, NEW e, FitsIn(rows, e)
  PROVE  EndsWith(Append([rows EXCEPT ![n].status = x], e), e)
  <1> DEFINE t == [rows EXCEPT ![n].status = x]
  <1>1. IsSeq(t) /\ Len(t) = Len(rows) /\ Len(rows) \in Nat
    BY Marked, SeqIs
  <1>2. RowsHold(t)
    BY RowsMarked
  <1>3. Marks(rows, t, n, x)
    BY MarkedRow DEF RowsHold, AllRows
  <1> HIDE DEF t
  <1>4. Agree(t, rows, Len(rows)) /\ SameRow(e, e)
    BY <1>3 DEF Marks, Agree, SameRow
  <1>5. ValueAt(t, Top(Line(t, Len(rows), e))) = ValueAt(rows, Top(Line(rows, Len(rows), e)))
    BY <1>1, <1>4, LineSame
  <1>6. IsRow(e) /\ e.before = ValueAt(t, Top(Line(t, Len(t), e)))
    BY <1>1, <1>5 DEF FitsIn
  <1>7. RowsHold(Append(t, e)) /\ IsSeq(Append(t, e)) /\ Append(t, e)[Len(Append(t, e))] = e
    BY <1>1, <1>2, <1>6, RowsAppend, Appended
  <1> QED BY <1>7 DEF t, EndsWith

\* Taking a change back restores what was before it.
Restores(n, rows) ==
  LET u == rows[Len(rows)]
      t == changes[n]
  IN  /\ u.undoes = n
      /\ t.field = Restricted =>
           \A m \in DOMAIN rows :
             rows[m].field = t.field /\ rows[m].scope = t.scope /\ rows[m].status = "applied" =>
             Added(rows[m]) \subseteq u.after
      /\ t.field # Restricted =>
           (Retracted = {} /\ (t.scope = "session" => t.boot = boot) => u.after = t.before)

LEMMA UndoneMem ==
  ASSUME RestrictionsAssumption, Good(changes), NEW s, NEW n, Reachable(s, n), Undoable(s, n),
         NEW source, changes[n].field = Restricted, n # 0
  PROVE  Good(Undone(s, n, source)) /\ Restores(n, Undone(s, n, source))
  <1> DEFINE t == changes[n]
             after == Forbidden(changes) \ Added(t)
             row == Row(s, source, Restricted, "owner", after, 0, n)
             marked == [changes EXCEPT ![n].status = "reverted"]
             rows == Append(marked, row)
  <1>0. IsSeq(changes) /\ RowsHold(changes) /\ MemHold(changes) /\ sessions[s].owner
    BY DEF Good, Reachable
  <1>1. n \in MemRows(changes) /\ n \in MemApplied(changes) /\ Restriction(t)
    BY <1>0, SeqIs DEF Reachable, Undoable, MemRows, MemApplied, MemHold
  <1>2. Layer(t.scope, t.field, s) = Top(MemRows(changes)) /\ Top(MemRows(changes)) # 0
    BY <1>0, <1>1, OwnerLayer DEF Undoable, Restriction
  <1>3. Lifted(t, changes[Layer(t.scope, t.field, s)]) = after
    BY <1>2 DEF Lifted, Forbidden, ValueAt, Added
  <1>4. Undone(s, n, source) = rows
    <2>1. t.field = "restricted_memory_ids" /\ t.scope = "owner" /\ t.beforeExpires = 0
      BY <1>1 DEF Restriction, Restricted
    <2>2. Row(s, source, t.field, t.scope, Lifted(t, changes[Layer(t.scope, t.field, s)]), t.beforeExpires, n)
          = row
      BY <1>3, <2>1 DEF Restricted
    <2> HIDE DEF row
    <2> QED BY <2>1, <2>2 DEF Undone
  <1>5. Forbidden(changes) \subseteq Memories
    <2>1. /\ Top(MemRows(changes)) \in {0} \cup MemRows(changes) /\ 0 \notin MemRows(changes)
      BY <1>0, MemRowsIn
    <2> QED BY <1>0, <2>1 DEF Forbidden, ValueAt, Ids, MemHold, Restriction
  <1>6. /\ IsRow(row) /\ row.before = ValueAt(changes, Top(Line(changes, Len(changes), row)))
        /\ row.field = Restricted /\ row.after = after /\ row.undoes = n
        /\ row.status = "reverted" /\ Restriction(row)
    <2>1. after \subseteq Memories
      BY <1>5
    <2> HIDE DEF after
    <2> QED BY <1>0, <2>1, MemRow
  <1> HIDE DEF row
  <1>7. MemHold(rows) /\ \A m \in MemApplied(rows) : Added(rows[m]) \subseteq row.after
    BY <1>0, <1>1, <1>6, MemUndo
  <1>8. RowsHold(rows) /\ IsSeq(rows) /\ rows[Len(rows)] = row
    <2>1. FitsIn(changes, row)
      BY <1>6 DEF FitsIn
    <2>2. EndsWith(rows, row)
      BY <1>0, <2>1, FitsMarked
    <2> QED BY <2>2 DEF EndsWith
  <1> HIDE DEF rows
  <1>9. \A m \in DOMAIN rows : rows[m].field = Restricted /\ rows[m].status = "applied" => m \in MemApplied(rows)
    BY <1>8, SeqIs DEF MemApplied, MemRows
  <1> QED BY <1>4, <1>6, <1>7, <1>8, <1>9 DEF Good, Restores

LEMMA UndoneOther ==
  ASSUME Good(changes), NEW s, NEW n, Reachable(s, n), NEW source, changes[n].field # Restricted
  PROVE  Good(Undone(s, n, source)) /\ Restores(n, Undone(s, n, source))
  <1> DEFINE t == changes[n]
             last == Max(Previous(n) \cup {0})
             marked == [changes EXCEPT ![n].status = "reverted"]
  <1>0. /\ IsSeq(changes) /\ RowsHold(changes) /\ MemHold(changes) /\ Sees(s, t.scope)
        /\ n \in 1 .. Len(changes)
    BY SeqIs DEF Good, Reachable, Sees
  <1>1. PICK after, expires :
          /\ Undone(s, n, source) = Append(marked, Row(s, source, t.field, t.scope, after, expires, n))
          /\ after = IF t.before # NoValue /\ last # 0 THEN changes[last].after ELSE NoValue
    <2>1. CASE t.before # NoValue /\ last # 0
      BY <2>1 DEF Undone, Restricted
    <2>2. CASE t.before # NoValue /\ last = 0
      BY <2>2 DEF Undone, Restricted
    <2>3. CASE t.before = NoValue
      BY <2>3 DEF Undone, Restricted
    <2> QED BY <2>1, <2>2, <2>3
  <1> DEFINE row == Row(s, source, t.field, t.scope, after, expires, n)
             rows == Append(marked, row)
  <1>2. /\ IsRow(row) /\ row.before = ValueAt(changes, Top(Line(changes, Len(changes), row)))
        /\ row.field = t.field /\ row.after = after /\ row.undoes = n
    BY <1>0, RowFits
  <1> HIDE DEF row
  <1>3. /\ RowsHold(rows) /\ IsSeq(rows) /\ rows[Len(rows)] = row /\ IsSeq(marked)
    <2>1. FitsIn(changes, row)
      BY <1>2 DEF FitsIn
    <2>2. EndsWith(rows, row)
      BY <1>0, <2>1, FitsMarked
    <2> QED BY <1>0, <2>2, Marked DEF EndsWith
  <1>4. MemHold(marked)
    BY <1>0, MemMarkOther DEF MemRows
  <1>5. MemHold(rows)
    BY <1>2, <1>3, <1>4, MemAppendOther
  <1>6. ASSUME Retracted = {}, t.scope = "session" => t.boot = boot
        PROVE  after = t.before
    <2>1. Previous(n) = Line(changes, n - 1, t)
      BY <1>0, <1>6, SeqIs DEF Previous, Line
    <2>2. Previous(n) \cup {0} = {0} \cup Line(changes, n - 1, t)
      BY <2>1
    <2>3. last = Top(Line(changes, n - 1, t))
      BY <2>2 DEF Top
    <2>4. t.before = ValueAt(changes, last)
      BY <1>0, <2>3 DEF RowsHold
    <2> QED BY <1>1, <2>4 DEF ValueAt
  <1>7. Undone(s, n, source) = rows
    BY <1>1 DEF row
  <1> HIDE DEF rows
  <1> QED BY <1>2, <1>3, <1>5, <1>6, <1>7 DEF Good, Restores

LEMMA UndoneHolds ==
  ASSUME RestrictionsAssumption, Good(changes), NEW s, NEW n, Reachable(s, n), Undoable(s, n), NEW source
  PROVE  Good(Undone(s, n, source)) /\ Restores(n, Undone(s, n, source)) /\ n # 0
  <1>1. n # 0
    BY SeqIs DEF Good, Reachable
  <1> QED BY <1>1, UndoneMem, UndoneOther

\* Rows that go on from changes, all of the fields F and none an undo.
Extends(rows, F) ==
  /\ Good(rows) /\ Len(rows) \in Nat /\ Len(changes) \in Nat /\ Len(rows) >= Len(changes)
  /\ Agree(rows, changes, Len(changes))
  /\ \A i \in 1 .. Len(rows) : i > Len(changes) => rows[i].field \in F /\ rows[i].undoes = 0

LEMMA DroppedHolds ==
  ASSUME Good(changes), NEW s, NEW f, NEW F, NEW rows, Extends(rows, F), f \notin F, f # Restricted
  PROVE  Extends(Dropped(s, f, rows), F \cup {f})
  <1> DEFINE row == Row(s, 0, f, "session", NoValue, 0, 0)
             more == Append(rows, row)
  <1>0. IsSeq(rows) /\ RowsHold(rows) /\ MemHold(rows) /\ Len(rows) \in Nat /\ Len(changes) \in Nat
    BY DEF Extends, Good
  <1>1. /\ IsRow(row) /\ row.before = ValueAt(changes, Top(Line(changes, Len(changes), row)))
        /\ row.field = f /\ row.undoes = 0
    <2>1. IsSeq(changes) /\ Sees(s, "session")
      BY DEF Good, Sees
    <2> QED BY <2>1, RowFits
  <1> HIDE DEF row
  <1>2. ValueAt(rows, Top(Line(rows, Len(rows), row))) = ValueAt(changes, Top(Line(changes, Len(changes), row)))
    <2>1. Line(rows, Len(rows), row) = Line(rows, Len(changes), row)
      BY <1>1 DEF Line, Extends
    <2>2. SameRow(row, row)
      BY DEF SameRow
    <2>3. Agree(rows, changes, Len(changes))
      BY DEF Extends
    <2>4. ValueAt(rows, Top(Line(rows, Len(changes), row))) = ValueAt(changes, Top(Line(changes, Len(changes), row)))
      BY <1>0, <2>2, <2>3, LineSame
    <2> QED BY <2>1, <2>4
  <1>3. row.before = ValueAt(rows, Top(Line(rows, Len(rows), row)))
    BY <1>1, <1>2
  <1>4. RowsHold(more) /\ MemHold(more) /\ IsSeq(more)
    BY <1>0, <1>1, <1>3, RowsAppend, MemAppendOther, Appended
  <1>5. /\ Len(more) = Len(rows) + 1 /\ more[Len(rows) + 1] = row
        /\ \A i \in 1 .. Len(rows) : more[i] = rows[i]
    BY <1>0, Appended
  <1> HIDE DEF more
  <1>6. Good(more)
    BY <1>4 DEF Good
  <1>7. Agree(more, changes, Len(changes))
    BY <1>0, <1>5 DEF Extends, Agree, SameRow
  <1>8. ASSUME NEW i \in 1 .. Len(more), i > Len(changes)
        PROVE  more[i].field \in F \cup {f} /\ more[i].undoes = 0
    <2>1. i = Len(rows) + 1 \/ i \in 1 .. Len(rows)
      BY <1>0, <1>5
    <2> QED BY <1>1, <1>5, <1>8, <2>1 DEF Extends
  <1>9. Extends(more, F \cup {f})
    BY <1>0, <1>5, <1>6, <1>7, <1>8 DEF Extends
  <1>10. Extends(rows, F \cup {f})
    BY DEF Extends
  <1> QED BY <1>9, <1>10 DEF Dropped, more, row

LEMMA ClearedHolds ==
  ASSUME Good(changes), NEW s
  PROVE  /\ Good(Cleared(s))
         /\ Len(Cleared(s)) > Len(changes) => Cleared(s)[Len(Cleared(s))].undoes = 0
  <1> DEFINE one == Dropped(s, "response_length", changes)
             two == Dropped(s, "proactive", one)
  <1>1. Extends(changes, {})
    <2>1. Len(changes) \in Nat
      BY SeqIs DEF Good
    <2>2. Agree(changes, changes, Len(changes))
      BY DEF Agree, SameRow
    <2> QED BY <2>1, <2>2 DEF Extends
  <1>2. Extends(one, {} \cup {"response_length"})
    BY <1>1, DroppedHolds DEF Restricted
  <1>3. Extends(two, ({} \cup {"response_length"}) \cup {"proactive"})
    <2> HIDE DEF one
    <2> QED BY <1>2, DroppedHolds DEF Restricted
  <1>4. Cleared(s) = two
    <2>1. Layer("session", Restricted, s) = 0
      BY NoLayer
    <2> HIDE DEF two
    <2>2. Dropped(s, Restricted, two) = two
      BY <2>1 DEF Dropped
    <2> QED BY <2>2, Zenon DEF Cleared, Restricted, two, one
  <1> HIDE DEF two
  <1>5. Good(two) /\ (Len(two) > Len(changes) => two[Len(two)].undoes = 0)
    BY <1>3 DEF Extends
  <1> QED BY <1>4, <1>5

\* What a step does to the rows.
RowStep ==
  \/ changes' = changes
  \/ \E s \in Sessions : changes' = Cleared(s)
  \/ \E s \in Sessions, o \in Offers : \E id :
       LET c == Classify(o).change
       IN  /\ sessions[s].owner /\ c # NoChange
           /\ changes' = Append(changes, Row(s, id, c.field, c.scope, Wanted(s, c), c.expires, 0))
  \/ \E s, n, source : Reachable(s, n) /\ Undoable(s, n) /\ changes' = Undone(s, n, source)

LEMMA RowStepHolds ==
  ASSUME OffersAssumption, RestrictionsAssumption, Good(changes), Quiet, RowStep
  PROVE  /\ Good(changes')
         /\ Len(changes') > Len(changes) /\ changes'[Len(changes')].undoes # 0 =>
              Restores(changes'[Len(changes')].undoes, changes')
  <1>0. Len(changes) \in Nat
    BY SeqIs DEF Good
  <1>1. CASE changes' = changes
    BY <1>0, <1>1
  <1>2. CASE \E s \in Sessions : changes' = Cleared(s)
    BY <1>2, ClearedHolds
  <1>3. ASSUME NEW s \in Sessions, NEW o \in Offers, NEW id,
               sessions[s].owner, Classify(o).change # NoChange,
               LET c == Classify(o).change
               IN  changes' = Append(changes, Row(s, id, c.field, c.scope, Wanted(s, c), c.expires, 0))
        PROVE  Good(changes') /\ changes'[Len(changes')].undoes = 0
    BY <1>3, MadeHolds
  <1>4. ASSUME NEW s, NEW n, NEW source, Reachable(s, n), Undoable(s, n), changes' = Undone(s, n, source)
        PROVE  Good(changes') /\ Restores(n, changes') /\ changes'[Len(changes')].undoes = n
    BY <1>4, UndoneHolds DEF Restores
  <1> QED BY <1>1, <1>2, <1>3, <1>4 DEF RowStep

LEMMA SavesRows ==
  ASSUME IsSeq(changes), NEW s \in Sessions, NEW r, r.offer \in Offers, Saves(s, r)
  PROVE  RowStep
  <1> DEFINE intent == Classify(r.offer)
             id == Len(feedback) + 1
             may == FromOwner(s, r) /\ Fresh(r)
             makes == /\ intent.change # NoChange /\ may
                      /\ intent.change.expires = 0 \/ intent.change.expires > clock
                      /\ ~Superfluous(s, intent.change)
             eligible == {n \in DOMAIN changes : changes[n].session = s /\ changes[n].status = "applied"}
             undoes == intent.undo /\ may /\ eligible # {} /\ Undoable(s, Max(eligible))
             made == Append(changes, Row(s, id, intent.change.field, intent.change.scope,
                                         Wanted(s, intent.change), intent.change.expires, 0))
             undone == Undone(s, Max(eligible), id)
  <1>1. changes' = IF makes THEN made ELSE IF undoes THEN undone ELSE changes
    BY Zenon DEF Saves
  <1>2. ASSUME makes, changes' = made
        PROVE  RowStep
    <2>1. sessions[s].owner /\ intent.change # NoChange
      BY <1>2 DEF FromOwner
    <2> QED BY <1>2, <2>1, Zenon DEF RowStep
  <1>3. ASSUME undoes, changes' = undone
        PROVE  RowStep
    <2>1. sessions[s].owner /\ Undoable(s, Max(eligible))
      BY <1>3 DEF FromOwner
    <2>2. Max(eligible) \in eligible
      <3>1. eligible \subseteq 0 .. Len(changes) /\ eligible # {} /\ Len(changes) \in Nat
        BY <1>3, SeqIs
      <3> HIDE DEF eligible
      <3> QED BY <3>1, Greatest
    <2>3. Reachable(s, Max(eligible))
      BY <2>1, <2>2 DEF Reachable
    <2> HIDE DEF eligible
    <2> QED BY <1>3, <2>1, <2>3, Zenon DEF RowStep
  <1> HIDE DEF makes, undoes, made, undone
  <1> QED BY <1>1, <1>2, <1>3 DEF RowStep

LEMMA UnsavedQuiet ==
  ASSUME OffersAssumption, RestrictionsAssumption, Typed, Quiet, NEW s \in Sessions, NEW r,
         r.offer \in Offers, Unsaved(s, r)
  PROVE  Quiet'
  <1> DEFINE change == Classify(r.offer).change
  <1>1. CASE volatile' = volatile
    BY <1>1 DEF Quiet
  <1>2. CASE change.scope = "session" /\ volatile' = [volatile EXCEPT ![s][change.field] = change.value]
    <2>1. change.field # Restricted
      BY <1>2 DEF RestrictionsAssumption, Restricting, Restricted
    <2> HIDE DEF change
    <2> DEFINE own == [volatile[s] EXCEPT ![change.field] = change.value]
    <2>2. volatile = [q \in Sessions |-> [f \in Fields |-> volatile[q][f]]]
      BY DEF Typed
    <2>3. \A q \in Sessions : volatile[q] = [f \in Fields |-> volatile[q][f]]
      BY <2>2
    <2>4. own[Restricted] = volatile[s][Restricted]
      <3>1. Restricted \in Fields
        BY DEF Restricted, Fields
      <3> QED BY <2>1, <2>3, <3>1
    <2>5. volatile' = [volatile EXCEPT ![s] = own]
      BY <1>2, Zenon
    <2> HIDE DEF own
    <2>6. volatile'[s] = own /\ \A q \in Sessions : q # s => volatile'[q] = volatile[q]
      BY <2>2, <2>5
    <2> QED BY <2>4, <2>6 DEF Quiet
  <1> QED BY <1>1, <1>2 DEF Unsaved

LEMMA ReceiveRows ==
  ASSUME OffersAssumption, RestrictionsAssumption, Typed, Quiet, NEW w \in Windows, NEW r,
         r.offer \in Offers, Receive(w, r)
  PROVE  RowStep /\ Quiet'
  <1>1. SessionOf[w] \in Sessions /\ IsSeq(changes)
    BY DEF Sessions, Typed
  <1>2. CASE UNCHANGED <<changes, volatile>>
    BY <1>2 DEF RowStep, Quiet
  <1>3. CASE Unsaved(SessionOf[w], r)
    <2>1. changes' = changes
      BY <1>3 DEF Unsaved
    <2> QED BY <1>1, <1>3, <2>1, UnsavedQuiet DEF RowStep
  <1>4. CASE Saves(SessionOf[w], r)
    <2>1. volatile' = volatile
      BY <1>4, Zenon DEF Saves
    <2> QED BY <1>1, <1>4, <2>1, SavesRows DEF Quiet
  <1> QED BY <1>2, <1>3, <1>4 DEF Receive

LEMMA RowSteps ==
  ASSUME OffersAssumption, RestrictionsAssumption, Typed, SeenInv, Quiet, [ResidentNext]_residentVars
  PROVE  RowStep /\ Quiet'
  <1>1. \A w \in Windows : SessionOf[w] \in Sessions
    BY DEF Sessions
  <1>a. Restricted \in Fields
    BY DEF Restricted, Fields
  <1>2. ASSUME NEW w \in Windows, OpenSession(w)
        PROVE  RowStep /\ Quiet'
    <2>1. \/ changes' = Cleared(SessionOf[w]) /\ volatile' = [volatile EXCEPT ![SessionOf[w]] = Unset]
          \/ UNCHANGED <<changes, volatile>>
      BY <1>2 DEF OpenSession
    <2>2. RowStep
      BY <1>1, <2>1 DEF RowStep
    <2>3. DOMAIN volatile = Sessions
      BY DEF Typed
    <2>4. Unset[Restricted] = NoValue
      BY <1>a DEF Unset
    <2>5. Quiet'
      BY <1>1, <2>1, <2>3, <2>4 DEF Quiet
    <2> QED BY <2>2, <2>5
  <1>3. ASSUME NEW w \in Windows, ReadState(w)
        PROVE  RowStep /\ Quiet'
    BY <1>3 DEF ReadState, RowStep, Quiet
  <1>4. ASSUME NEW w \in Windows, Submit(w)
        PROVE  RowStep /\ Quiet'
    <2>1. PICK o \in Offers :
            Receive(w, [window |-> w, number |-> sent[w].number + 1, view |-> view[w], offer |-> o])
      BY <1>4 DEF Submit
    <2> DEFINE r == [window |-> w, number |-> sent[w].number + 1, view |-> view[w], offer |-> o]
    <2>2. r.offer \in Offers
      OBVIOUS
    <2> HIDE DEF r
    <2> QED BY <2>1, <2>2, ReceiveRows DEF r
  <1>5. ASSUME NEW w \in Windows, Resend(w)
        PROVE  RowStep /\ Quiet'
    <2>1. Receive(w, sent[w]) /\ sent[w].offer \in Offers
      BY <1>5 DEF Resend, SeenInv
    <2> QED BY <2>1, ReceiveRows
  <1>6. ASSUME NEW w \in Windows, NEW n, Undo(w, n) \/ Retract(w, n)
        PROVE  RowStep /\ Quiet'
    <2>1. volatile' = volatile
      BY <1>6 DEF Undo, Retract, Operates
    <2>2. \/ changes' = changes
          \/ \E s, m, source : Reachable(s, m) /\ Undoable(s, m) /\ changes' = Undone(s, m, source)
      <3>1. CASE Undo(w, n)
        BY <3>1 DEF Undo
      <3>2. CASE Retract(w, n)
        BY <3>2 DEF Retract
      <3> QED BY <1>6, <3>1, <3>2
    <2> QED BY <2>1, <2>2 DEF RowStep, Quiet
  <1>7. ASSUME Restart \/ Tick \/ UNCHANGED residentVars
        PROVE  RowStep /\ Quiet'
    <2>1. changes' = changes
      BY <1>7 DEF Restart, Tick, residentVars
    <2>2. volatile' = volatile \/ volatile' = [s \in Sessions |-> Unset]
      BY <1>7 DEF Restart, Tick, residentVars
    <2>3. Unset[Restricted] = NoValue
      BY <1>a DEF Unset
    <2>4. Quiet'
      BY <2>2, <2>3 DEF Quiet
    <2> QED BY <2>1, <2>4 DEF RowStep
  <1> QED BY <1>2, <1>3, <1>4, <1>5, <1>6, <1>7, Zenon DEF ResidentNext

\* Taking a change back gives its field the value it had before (resident_service.py:324).
THEOREM UndoGivesBack ==
  ASSUME OffersAssumption, RestrictionsAssumption
  PROVE  ResidentSpec => UndoRestores
  <1> DEFINE ResidentInv == Typed /\ SeenInv /\ Good(changes) /\ Quiet
  <1>1. ResidentInit => ResidentInv
    <2> SUFFICES ASSUME ResidentInit
                 PROVE  ResidentInv
      OBVIOUS
    <2>1. Typed /\ SeenInv
      BY ResidentStarts
    <2>2. changes = <<>> /\ volatile = [s \in Sessions |-> Unset]
      BY DEF ResidentInit
    <2>3. Len(changes) = 0 /\ IsSeq(changes)
      BY <2>1, <2>2 DEF Typed
    <2>4. Good(changes)
      BY <2>3 DEF Good, RowsHold, MemHold, MemRows, MemApplied
    <2>5. Quiet
      BY <2>2 DEF Quiet, Unset, Restricted, Fields
    <2> QED BY <2>1, <2>4, <2>5
  <1>2. ResidentInv /\ [ResidentNext]_residentVars =>
          /\ ResidentInv'
          /\ [Len(changes') > Len(changes) /\ changes'[Len(changes')].undoes # 0 =>
                LET u == changes'[Len(changes')]
                    t == changes[u.undoes]
                IN  IF t.field = "restricted_memory_ids"
                    THEN \A n \in DOMAIN changes' :
                           changes'[n].field = t.field /\ changes'[n].scope = t.scope
                             /\ changes'[n].status = "applied" =>
                           Ids(changes'[n].after) \ Ids(changes'[n].before) \subseteq u.after
                    ELSE Retracted = {} /\ (t.scope = "session" => t.boot = boot) => u.after = t.before]_residentVars
    <2> SUFFICES ASSUME ResidentInv, [ResidentNext]_residentVars
                 PROVE  /\ ResidentInv'
                        /\ Len(changes') > Len(changes) /\ changes'[Len(changes')].undoes # 0 =>
                             LET u == changes'[Len(changes')]
                                 t == changes[u.undoes]
                             IN  IF t.field = "restricted_memory_ids"
                                 THEN \A n \in DOMAIN changes' :
                                        changes'[n].field = t.field /\ changes'[n].scope = t.scope
                                          /\ changes'[n].status = "applied" =>
                                        Ids(changes'[n].after) \ Ids(changes'[n].before) \subseteq u.after
                                 ELSE Retracted = {} /\ (t.scope = "session" => t.boot = boot) =>
                                        u.after = t.before
      OBVIOUS
    <2>1. Typed' /\ SeenInv'
      BY ResidentStep
    <2>2. RowStep /\ Quiet'
      BY RowSteps
    <2>3. /\ Good(changes')
          /\ Len(changes') > Len(changes) /\ changes'[Len(changes')].undoes # 0 =>
               Restores(changes'[Len(changes')].undoes, changes')
      BY <2>2, RowStepHolds
    <2>4. Good(changes)'
      BY <2>3 DEF Good, IsSeq, RowsHold, MemHold, MemRows, MemApplied, Forbidden, ValueAt, Line, Top,
                  IsRow, Restriction, Added, Ids, Memories, Restricting
    <2>5. ASSUME Len(changes') > Len(changes), changes'[Len(changes')].undoes # 0
          PROVE  LET u == changes'[Len(changes')]
                     t == changes[u.undoes]
                 IN  IF t.field = "restricted_memory_ids"
                     THEN \A n \in DOMAIN changes' :
                            changes'[n].field = t.field /\ changes'[n].scope = t.scope
                              /\ changes'[n].status = "applied" =>
                            Ids(changes'[n].after) \ Ids(changes'[n].before) \subseteq u.after
                     ELSE Retracted = {} /\ (t.scope = "session" => t.boot = boot) => u.after = t.before
      <3>1. Restores(changes'[Len(changes')].undoes, changes')
        BY <2>3, <2>5
      <3> QED BY <3>1 DEF Restores, Added, Restricted
    <2> QED BY <2>1, <2>2, <2>4, <2>5
  <1>3. QED BY <1>1, <1>2, PTL DEF ResidentSpec, UndoRestores

=============================================================================
