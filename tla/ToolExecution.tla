--------------------------- MODULE ToolExecution ---------------------------
(***************************************************************************)
(* The tools of the runtime (packages/tool_core): the policy, the store of *)
(* one-use approvals, the executor that writes files and runs processes,   *)
(* and the executor that only reads.  Threads share the store, the write   *)
(* lock of the executor and the workspace, which other programs edit too.  *)
(*                                                                         *)
(* Abstracted: the content of a file stands for its hash; a path is known  *)
(* by the place the guard finds it in; a process by its group of two       *)
(* members, the command and one it started; output by counted chunks.      *)
(***************************************************************************)
EXTENDS Integers, FiniteSets, FiniteSetsExt

CONSTANTS
  Threads,    \* callers of the executors
  NoThread,
  Paths,      \* paths a caller may name
  PlaceOf,    \* path -> what the guard says of where it points
  Texts,      \* contents of at most MAX_WRITE_BYTES bytes of UTF-8
  Contexts,   \* the granted_permissions the callers may have
  MaxOffers,  \* bound: invocations that were planned
  MaxGrants,  \* bound: approvals given
  MaxEdits,   \* bound: edits by other programs
  MaxOutput,  \* max_output_bytes, in chunks
  MaxEntries  \* max_entries, max_results

Places == {"inside", "traversal", "outside", "protected", "sensitive"}
\* Assumed of the constants.
ThreadsAssumption == NoThread \notin Threads
PathsAssumption == PlaceOf \in [Paths -> Places]
OutputAssumption == MaxOutput \in Nat /\ MaxEntries \in Nat \ {0}

VARIABLES
  granted,    \* granted_permissions of the callers
  files,      \* path -> its text or what it is instead
  offered,    \* invocations a plan has prepared and shown
  grants,     \* invocation -> its approval in the store
  given,      \* invocation -> approvals given so far
  started,    \* invocation -> executions that were authorized so far
  writeLock,  \* _write_lock
  calls,      \* thread -> the call it makes
  edits       \* edits so far

toolVars == <<granted, files, offered, grants, given, started, writeLock, calls, edits>>

Nodes == Texts \cup {"missing", "directory", "link", "special", "binary", "huge"}
Hashes == Texts \cup {"missing"}    \* the hash of a text, or None
Readers == {"files.list", "files.search"}

\* What invocation_hash covers of an invocation, for one caller and one root.
Invocations == [tool : {"files.write"}, path : Paths, text : Texts, expected : Hashes]
               \cup {[tool |-> "processes.run"]}
NoInvocation == [tool |-> "none"]

GrantRecords == {"none", "live", "consumed", "expired"}

NoCall == [pc |-> "idle", inv |-> NoInvocation, touched |-> FALSE, out |-> 0, cut |-> FALSE,
           todo |-> {}, seen |-> {}]

ToolInit ==
  /\ granted \in Contexts
  /\ files \in [Paths -> {"missing"} \cup Texts]
  /\ offered = {}
  /\ grants = [i \in Invocations |-> "none"]
  /\ given = [i \in Invocations |-> 0]
  /\ started = [i \in Invocations |-> 0]
  /\ writeLock = NoThread
  /\ calls = [t \in Threads |-> NoCall]
  /\ edits = 0

----------------------------------------------------------------------------
(* The path guard and the policy                                           *)

\* The order of the checks of resolve; "ok" when none of them objects.
Resolve(p, expected, allowMissing) ==
  LET node == files[p] IN
  CASE PlaceOf[p] = "traversal" -> "path_traversal"
    [] PlaceOf[p] # "traversal" /\ node = "link" -> "symlink_not_allowed"
    [] PlaceOf[p] # "traversal" /\ node = "missing" /\ ~allowMissing -> "path_not_found"
    [] PlaceOf[p] = "outside" /\ node \notin {"link", "missing"} -> "path_outside_workspace"
    [] PlaceOf[p] = "outside" /\ node = "missing" /\ allowMissing -> "path_outside_workspace"
    [] PlaceOf[p] \in {"protected", "sensitive"} /\ node # "link"
         /\ (node = "missing" => allowMissing) -> "sensitive_path"
    [] PlaceOf[p] = "inside" /\ node = "special" -> "special_file_not_allowed"
    [] PlaceOf[p] = "inside" /\ node = "directory" /\ expected = "file" -> "not_regular_file"
    [] PlaceOf[p] = "inside" /\ node \notin {"directory", "link", "missing", "special"}
         /\ expected = "directory" -> "not_directory"
    [] OTHER -> "ok"

IsSafeEntry(p) == Resolve(p, "any", FALSE) = "ok"

\* _existing_text_and_hash: what there is to replace, or why it may not be.
Existing(p) ==
  CASE files[p] \in Hashes -> files[p]
    [] files[p] = "huge" -> "write_target_too_large"
    [] files[p] = "binary" -> "binary_file_not_supported"
    [] OTHER -> "not_regular_file"

Required(tool) == CASE tool = "files.write" -> {"write_files"}
                    [] tool = "processes.run" -> {"execute_process"}
                    [] OTHER -> {"read_files"}
Always(tool) == tool \notin Readers

\* plan_tool_invocation: identity, trust of the source and root are one verdict
\* on the caller; then its permissions, then the approval.
Trusted == BOOLEAN
Decision(trusted, tool, grant) ==
  CASE ~trusted \/ ~(Required(tool) \subseteq granted) -> "block"
    [] trusted /\ Required(tool) \subseteq granted /\ (Always(tool) => grant = "live") -> "allow"
    [] OTHER -> "confirm"

----------------------------------------------------------------------------
(* Approvals and plans                                                     *)

\* _prepare_write: the path and what there is may be replaced; the invocation
\* is completed with the hash of what it would replace.
Preparable(p) == Resolve(p, "any", TRUE) = "ok" /\ Existing(p) \in Hashes
PreparedWrite(p, text) ==
  [tool |-> "files.write", path |-> p, text |-> text, expected |-> Existing(p)]

\* _prepare_process: nothing is added.
PreparedProcess == [tool |-> "processes.run"]

Plan(p) ==
  /\ Cardinality(offered) < MaxOffers    \* bound
  /\ \/ /\ Decision(TRUE, "files.write", "none") # "block" /\ Preparable(p)
        /\ \E text \in Texts : offered' = offered \cup {PreparedWrite(p, text)}
     \/ /\ Decision(TRUE, "processes.run", "none") # "block"
        /\ offered' = offered \cup {PreparedProcess}
  /\ UNCHANGED <<granted, files, grants, given, started, writeLock, calls, edits>>

Given == MapThenSumSet(LAMBDA i : given[i], Invocations)

\* grant: the newest approval of an invocation replaces the one before it.
Grant(i) ==
  /\ i \in offered /\ Given < MaxGrants    \* bound
  /\ grants' = [grants EXCEPT ![i] = "live"]
  /\ given' = [given EXCEPT ![i] = @ + 1]
  /\ UNCHANGED <<granted, files, offered, started, writeLock, calls, edits>>

Expire(i) ==
  /\ grants[i] = "live"
  /\ grants' = [grants EXCEPT ![i] = "expired"]
  /\ UNCHANGED <<granted, files, offered, given, started, writeLock, calls, edits>>

Consume_kept(i) == grants  \* mutant
Consume(i) == [grants EXCEPT ![i] = "consumed"]

FirstStage(i) == IF i.tool = "files.write" THEN "lock" ELSE "launch"

\* execute up to the operation: authorize_and_consume under the store's lock.
Execute(t, i, trusted) ==
  /\ calls[t].pc = "idle" /\ i \in offered
  /\ IF Decision(trusted, i.tool, grants[i]) = "allow"
     THEN /\ grants' = Consume(i)
          /\ started' = [started EXCEPT ![i] = @ + 1]
          /\ calls' = [calls EXCEPT ![t] = [NoCall EXCEPT !.pc = FirstStage(i), !.inv = i]]
     ELSE UNCHANGED <<grants, started, calls>>          \* denied
  /\ UNCHANGED <<granted, files, offered, given, writeLock, edits>>

----------------------------------------------------------------------------
(* files.write                                                             *)

Return(t) == calls' = [calls EXCEPT ![t] = NoCall]
Inv(t) == calls[t].inv
Unlock == writeLock' = NoThread

Matches(t) == files[Inv(t).path] = Inv(t).expected

\* What the checks of the arguments of a write say.
WriteArguments == {"ok", "invalid_arguments"}

\* The write lock, the checks, and a temporary file beside the target, which
\* the system may refuse.
OpenTemporary(t, arguments, opened) ==
  /\ calls[t].pc = "lock" /\ writeLock = NoThread
  /\ IF arguments = "ok" /\ Resolve(Inv(t).path, "any", TRUE) = "ok" /\ Matches(t) /\ opened
     THEN writeLock' = t /\ calls' = [calls EXCEPT ![t].pc = "temporary"]
     ELSE Return(t) /\ UNCHANGED writeLock
  /\ UNCHANGED <<granted, files, offered, grants, given, started, edits>>

Recheck_once(t) == TRUE  \* mutant
Recheck(t) == Resolve(Inv(t).path, "any", TRUE) = "ok" /\ Matches(t)

\* The content is on disk: the target is looked at once more.
CheckAgain(t) ==
  /\ calls[t].pc = "temporary"
  /\ IF Recheck(t)
     THEN calls' = [calls EXCEPT ![t].pc = "replace"] /\ UNCHANGED writeLock
     ELSE Return(t) /\ Unlock
  /\ UNCHANGED <<granted, files, offered, grants, given, started, edits>>

\* os.replace and the fsync of the directory; an error of either is raised
\* with the temporary file removed.
Replace(t) ==
  /\ calls[t].pc = "replace"
  /\ files' = [files EXCEPT ![Inv(t).path] = Inv(t).text] \/ UNCHANGED files
  /\ Return(t) /\ Unlock
  /\ UNCHANGED <<granted, offered, grants, given, started, edits>>

----------------------------------------------------------------------------
(* processes.run                                                           *)

\* What the checks of argv, cwd, environment and timeout say, and the start.
ProcessArguments == {"ok", "invalid_arguments", "executable_not_allowed", "environment_not_allowed"}
Starts == {"ok", "sandbox_unavailable", "process_start_failed"}

\* The command has two members: itself and what it started.  `todo` holds
\* those that run.
Launch(t, arguments, start) ==
  /\ calls[t].pc = "launch"
  /\ IF arguments = "ok" /\ start = "ok"
     THEN calls' = [calls EXCEPT ![t].pc = "run", ![t].todo = {"command", "child"}]
     ELSE Return(t)
  /\ UNCHANGED <<granted, files, offered, grants, given, started, writeLock, edits>>

Accepted(c, n) == IF n <= MaxOutput - c.out THEN n ELSE MaxOutput - c.out

\* drain: a chunk of stdout or stderr, both from one budget.
Drain(t, n) ==
  /\ calls[t].pc \in {"run", "late", "reap"} /\ calls[t].todo # {}
  /\ calls[t].out < MaxOutput \/ ~calls[t].cut         \* bound
  /\ calls' = [calls EXCEPT ![t].out = @ + Accepted(calls[t], n),
                            ![t].cut = @ \/ Accepted(calls[t], n) < n]
  /\ UNCHANGED <<granted, files, offered, grants, given, started, writeLock, edits>>

Exit(t, m) ==
  /\ calls[t].pc \in {"run", "late", "reap"} /\ m \in calls[t].todo
  /\ calls' = [calls EXCEPT ![t].todo = @ \ {m}]
  /\ UNCHANGED <<granted, files, offered, grants, given, started, writeLock, edits>>

\* The timeout of the call: SIGTERM to the group, which may ignore it.
TimesOut(t) ==
  /\ calls[t].pc = "run" /\ "command" \in calls[t].todo
  /\ calls' = [calls EXCEPT ![t].pc = "late"]
  /\ UNCHANGED <<granted, files, offered, grants, given, started, writeLock, edits>>

\* Two seconds later, if the command still runs: SIGKILL to the group.
Kill(t) ==
  /\ calls[t].pc = "late" /\ "command" \in calls[t].todo
  /\ calls' = [calls EXCEPT ![t].pc = "reap", ![t].todo = {}]
  /\ UNCHANGED <<granted, files, offered, grants, given, started, writeLock, edits>>

\* wait returned: the output so far, and process_timeout if it was late.
Reap(t) ==
  /\ calls[t].pc \in {"run", "late", "reap"} /\ "command" \notin calls[t].todo
  /\ Return(t)
  /\ UNCHANGED <<granted, files, offered, grants, given, started, writeLock, edits>>

----------------------------------------------------------------------------
(* The tools that only read                                                *)

\* files.list and files.search: the entries of a directory in any order.
Read(t, trusted) ==
  /\ calls[t].pc = "idle" /\ Decision(trusted, "files.list", "none") = "allow"
  /\ calls' = [calls EXCEPT ![t] = [NoCall EXCEPT !.pc = "read", !.todo = Paths]]
  /\ UNCHANGED <<granted, files, offered, grants, given, started, writeLock, edits>>

LeftOut(c) == [c EXCEPT !.cut = TRUE]

\* The limits are looked at before the next candidate and after an entry
\* that does not fit the output any more, which is taken out again.
NextEntry(t, p, fits) ==
  /\ calls[t].pc = "read" /\ p \in calls[t].todo /\ ~calls[t].cut
  /\ LET c == calls[t]
         taken == [c EXCEPT !.todo = @ \ {p}]
     IN calls' = [calls EXCEPT ![t] =
          IF Cardinality(c.seen) >= MaxEntries THEN LeftOut(c)
          ELSE IF ~IsSafeEntry(p) THEN taken
          ELSE IF fits THEN [taken EXCEPT !.seen = @ \cup {p}]
          ELSE LeftOut(taken)]
  /\ UNCHANGED <<granted, files, offered, grants, given, started, writeLock, edits>>

EndOfList(t) ==
  /\ calls[t].pc = "read" /\ (calls[t].todo = {} \/ calls[t].cut)
  /\ Return(t)
  /\ UNCHANGED <<granted, files, offered, grants, given, started, writeLock, edits>>

----------------------------------------------------------------------------
(* Other programs, and the system                                          *)

\* A writer past its last look does not see a change by another program any more.
Touch == [t \in Threads |-> [calls[t] EXCEPT !.touched = @ \/ calls[t].pc = "replace"]]

\* Another program changes what the workspace holds.
Edit(p, node) ==
  /\ edits < MaxEdits    \* bound
  /\ files[p] # node
  /\ files' = [files EXCEPT ![p] = node]
  /\ calls' = Touch
  /\ edits' = edits + 1
  /\ UNCHANGED <<granted, offered, grants, given, started, writeLock>>

Step(t) ==
  \/ \E arguments \in WriteArguments, opened \in BOOLEAN : OpenTemporary(t, arguments, opened)
  \/ CheckAgain(t) \/ Replace(t)
  \/ \E arguments \in ProcessArguments, start \in Starts : Launch(t, arguments, start)
  \/ TimesOut(t) \/ Kill(t) \/ Reap(t)
  \/ \E n \in 1 .. 2 : Drain(t, n)
  \/ \E m \in {"command", "child"} : Exit(t, m)
  \/ \E p \in Paths, fits \in BOOLEAN : NextEntry(t, p, fits)
  \/ EndOfList(t)

ToolNext ==
  \/ \E t \in Threads : Step(t)
  \/ \E p \in Paths : Plan(p)
  \/ \E i \in offered : Grant(i) \/ Expire(i)
  \/ \E t \in Threads, i \in offered, trusted \in Trusted : Execute(t, i, trusted)
  \/ \E t \in Threads, trusted \in Trusted : Read(t, trusted)
  \/ \E p \in Paths, node \in Nodes : Edit(p, node)

ToolSpec == ToolInit /\ [][ToolNext]_toolVars

----------------------------------------------------------------------------
(* Properties                                                              *)

CallRecords ==
  [pc : {"idle", "lock", "temporary", "replace", "launch", "run", "late", "reap", "read"},
   inv : Invocations \cup {NoInvocation}, touched : BOOLEAN,
   out : 0 .. MaxOutput, cut : BOOLEAN,
   todo : SUBSET (Paths \cup {"command", "child"}), seen : SUBSET Paths]

ToolTypeOK ==
  /\ granted \in Contexts
  /\ files \in [Paths -> Nodes]
  /\ offered \subseteq Invocations
  /\ grants \in [Invocations -> GrantRecords]
  /\ given \in [Invocations -> Nat] /\ started \in [Invocations -> Nat]
  /\ writeLock \in Threads \cup {NoThread}
  /\ calls \in [Threads -> CallRecords]
  /\ edits \in 0 .. MaxEdits

\* An approval starts at most one execution, whatever threads call execute for
\* the same invocation at once and however often the user approves it again:
\* the store decides and consumes in one critical section.
OneExecutionPerApproval ==
  \A i \in Invocations : started[i] + (IF grants[i] = "live" THEN 1 ELSE 0) <= given[i]

\* A write replaces exactly what its approval showed, whoever else writes the
\* file meanwhile; only an edit by another program between the last look and
\* os.replace can be lost.
ReplacesWhatWasShown ==
  [][\A t \in Threads :
       calls[t].pc = "replace" /\ calls'[t].pc # "replace" /\ files' # files /\ ~calls[t].touched
         => files[Inv(t).path] = Inv(t).expected]_toolVars

=============================================================================
