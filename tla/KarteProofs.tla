----------------------------- MODULE KarteProofs -----------------------------
(***************************************************************************)
(* What KarteIndex guarantees for every set of files, any number of edits, *)
(* calls and failures, and each kind of store; and KarteConversation for   *)
(* any requests, threads and documents.                                    *)
(***************************************************************************)
EXTENDS KarteIndex, KarteConversation, FiniteSetTheorems, TLAPS

-----------------------------------------------------------------------------
(* Types *)

Versions == Int
Chunks == [path : Paths \cup {Managed}, doc : Docs \cup {Managed}, ver : Versions]
Pcs == {"idle", "decide", "apply", "query", "embed", "save", "primary", "finish"}
JobKinds == {"none", "poll", "rescan", "index", "search", "ingest"}
Jobs == [pc : Pcs, kind : JobKinds, scan : SUBSET Chunks, put : SUBSET Chunks,
         paths : SUBSET (Paths \cup {Managed}), loaded : SUBSET Chunks,
         alone : BOOLEAN]

Typed ==
  /\ content \in [Paths -> Files] /\ owned \subseteq Docs
  /\ local \subseteq Chunks /\ primary \subseteq Chunks
  /\ snapshot \in SUBSET Chunks \/ snapshot = NoSnapshot
  /\ jobs \in [Workers -> Jobs]
  /\ clean \in BOOLEAN /\ synced \in BOOLEAN

-----------------------------------------------------------------------------
(* Sets of chunks.  A scan has at most one document of a path; two sets agree *)
(* when they hold the same chunks of content that Karte v2 does not own.     *)

Functional(S) ==
  \A k \in S : /\ k.path \in Paths /\ k.doc \in Docs
               /\ \A j \in S : j.path = k.path => j = k

Agree(o, X, Y) ==
  \A k \in X \cup Y : k.path \in Paths /\ k.doc \notin o => (k \in X <=> k \in Y)

\* The stores agree with S: the JSON file, and Qdrant if q.
Held(o, l, p, S, q) == Agree(o, l, S) /\ (q => Agree(o, p, S))

\* The parts of X and Y that are not at one of these paths.
Elsewhere(o, X, Y, paths) ==
  Agree(o, {k \in X : k.path \notin paths}, {k \in Y : k.path \notin paths})

\* A scan is functional, whatever the files are.
LEMMA ScanFunctional ==
  ASSUME Typed
  PROVE  Functional(Scan) /\ Scan \subseteq Chunks
  <1>1. ASSUME NEW k \in Scan
        PROVE  /\ k.path \in Paths /\ Readable(k.path) /\ k = Document(k.path)
               /\ k.doc = content[k.path].doc
    BY DEF Scan, Document
  <1>2. Functional(Scan)
    BY <1>1 DEF Functional, Readable
  <1>3. ASSUME NEW p \in Paths, Readable(p)
        PROVE  Document(p) \in Chunks
    <2>1. content[p] \in Files /\ content[p].doc \in Docs
      BY <1>3 DEF Typed, Readable
    <2>2. content[p].ver \in Int
      BY <2>1 DEF Files, NoFile
    <2> QED BY <2>1, <2>2 DEF Document, Chunks, Versions
  <1>4. ASSUME NEW k \in Scan
        PROVE  k \in Chunks
    <2>1. k.path \in Paths /\ Readable(k.path) /\ k = Document(k.path)
      BY <1>1
    <2>2. Document(k.path) \in Chunks
      BY <1>3, <2>1
    <2> QED BY <2>1, <2>2
  <1> QED BY <1>2, <1>4

\* No scan is the mark for "no snapshot".
LEMMA NotNoSnapshot ==
  ASSUME NEW S, Functional(S)
  PROVE  S # NoSnapshot /\ S \ NoSnapshot = S
  <1> DEFINE none == [path |-> "none", doc |-> "none", ver |-> 0]
  <1>1. NoSnapshot = {none} /\ none.doc = "none"
    BY DEF NoSnapshot
  <1> HIDE DEF none
  <1>2. none \notin S
    BY <1>1, NamesAssumption DEF Functional
  <1> QED BY <1>1, <1>2

\* Ownership only grows, and what two sets agree on shrinks with it.
LEMMA AgreeGrows ==
  ASSUME NEW o, NEW x, NEW X, NEW Y, o \subseteq x, Agree(o, X, Y)
  PROVE  Agree(x, X, Y)
  BY DEF Agree

LEMMA AgreeTransitive ==
  ASSUME NEW o, NEW X, NEW Y, NEW Z, Agree(o, X, Y), Agree(o, Y, Z)
  PROVE  Agree(o, X, Z)
  BY DEF Agree

LEMMA AgreeSelf == \A o, X : Agree(o, X, X)
  BY DEF Agree

\* Sets that agree agree elsewhere.
LEMMA AgreeElsewhere ==
  ASSUME NEW o, NEW X, NEW Y, NEW paths, Agree(o, X, Y)
  PROVE  Elsewhere(o, X, Y, paths)
  BY DEF Agree, Elsewhere

\* Dropping chunks that are owned changes nothing that counts.
LEMMA UnprotectedAgrees == \A X : Agree(owned, Unprotected(X), X)
  BY DEF Agree, Unprotected

\* Replacing the whole of content by a scan.
LEMMA ReplaceAll ==
  ASSUME NEW X, NEW S
  PROVE  Agree(owned, Replaced(X, Paths, S), S)
  BY DEF Agree, Replaced, Put, Below, Unprotected

\* Replacing what differs between two scans turns the one into the other.
LEMMA ReplaceTouched ==
  ASSUME NEW X, NEW S, NEW T, Functional(S), Functional(T),
         Elsewhere(owned, X, S, Touched(S, T))
  PROVE  Agree(owned, Replaced(X, Touched(S, T), T \ S), T)
  <1> DEFINE paths == Touched(S, T)
             R == Replaced(X, paths, T \ S)
  <1>1. ASSUME NEW k \in S \cap T
        PROVE  k.path \notin paths
    BY DEF Functional, Touched
  <1>2. ASSUME NEW k \in (S \ T) \cup (T \ S)
        PROVE  k.path \in paths
    BY DEF Touched
  <1> HIDE DEF paths
  <1> SUFFICES ASSUME NEW k \in R \cup T, k.path \in Paths, k.doc \notin owned
               PROVE  k \in R <=> k \in T
    BY DEF Agree, R, paths
  <1>3. k \in R <=> (k \in X /\ k.path \notin paths) \/ k \in T \ S
    BY DEF Replaced, Put, Below, Unprotected
  <1>4. CASE k.path \in paths
    BY <1>1, <1>3, <1>4
  <1>5. CASE k.path \notin paths
    <2>1. k \in X \/ k \in S => (k \in X <=> k \in S)
      BY <1>5 DEF Elsewhere, Agree, paths
    <2> QED BY <1>2, <1>3, <1>5, <2>1
  <1> QED BY <1>4, <1>5

\* Replacing copies that are not below content.
LEMMA ReplaceCopies ==
  ASSUME NEW X, NEW S, NEW put, \A k \in put : k.path = Managed,
         Elsewhere(owned, X, S, {Managed})
  PROVE  Agree(owned, Replaced(X, {Managed}, put), S)
  BY NamesAssumption DEF Agree, Elsewhere, Replaced, Put, Below, Unprotected

-----------------------------------------------------------------------------
(* Every action keeps the types *)

\* What an operation starts with.
LEMMA NewJobs ==
  ASSUME Typed
  PROVE  /\ NoJob \in Jobs
         /\ Rescan \in Jobs /\ Index \in Jobs /\ Ingest \in Jobs /\ Search \in Jobs
         /\ [NoJob EXCEPT !.pc = "decide", !.kind = "poll", !.scan = Scan] \in Jobs
  <1>1. Scan \subseteq Chunks
    BY ScanFunctional
  <1>2. NoJob \in Jobs
    BY DEF NoJob, Jobs, Pcs, JobKinds
  <1>3. {[path |-> Managed, doc |-> Managed, ver |-> 1]} \subseteq Chunks
    BY DEF Chunks, Versions
  <1> DEFINE copy == {[path |-> Managed, doc |-> Managed, ver |-> 1]}
             scan == Scan
  <1>4. Rescan = [NoJob EXCEPT !.pc = "embed", !.kind = "rescan", !.scan = scan,
                               !.put = scan, !.paths = Paths]
    BY DEF Rescan
  <1>5. Ingest = [NoJob EXCEPT !.pc = "embed", !.kind = "ingest", !.paths = {Managed},
                               !.put = copy]
    BY DEF Ingest
  <1> HIDE DEF copy, scan
  <1>6. Rescan \in Jobs
    BY <1>1, <1>2, <1>4 DEF Jobs, Pcs, JobKinds, scan
  <1>7. Index \in Jobs
    BY <1>6 DEF Index, Jobs, JobKinds, Pcs
  <1>8. Ingest \in Jobs
    BY <1>2, <1>3, <1>5 DEF Jobs, Pcs, JobKinds, copy
  <1>9. [NoJob EXCEPT !.pc = "decide", !.kind = "poll", !.scan = scan] \in Jobs
    BY <1>1, <1>2 DEF Jobs, Pcs, JobKinds, scan
  <1>10. Search \in Jobs
    BY <1>2 DEF Search, Jobs, Pcs, JobKinds
  <1> QED BY <1>2, <1>6, <1>7, <1>8, <1>9, <1>10 DEF scan

\* An operation that starts, and what it does to one that runs.
LEMMA JoinedType ==
  ASSUME Typed, NEW w \in Workers, NEW j \in Jobs
  PROVE  /\ Joined(w, j) \in [Workers -> Jobs]
         /\ Joined(w, j)[w] = [j EXCEPT !.alone = (Busy = {})]
         /\ \A v \in Workers \ {w} :
              Joined(w, j)[v] = [jobs[v] EXCEPT !.alone = (@ /\ v \notin Busy)]
  <1>1. [j EXCEPT !.alone = (Busy = {})] \in Jobs
    BY DEF Jobs
  <1>2. \A v \in Workers : [jobs[v] EXCEPT !.alone = (@ /\ v \notin Busy)] \in Jobs
    <2> SUFFICES ASSUME NEW v \in Workers
                 PROVE  [jobs[v] EXCEPT !.alone = (@ /\ v \notin Busy)] \in Jobs
      OBVIOUS
    <2>1. jobs[v] \in Jobs
      BY DEF Typed
    <2> QED BY <2>1 DEF Jobs
  <1> QED BY <1>1, <1>2 DEF Joined

\* The empty index is well typed.
LEMMA InitTyped == Init => Typed
  <1> SUFFICES ASSUME Init PROVE Typed
    OBVIOUS
  <1>1. NoJob \in Jobs
    BY DEF NoJob, Jobs, Pcs, JobKinds
  <1> QED BY <1>1 DEF Init, Typed, NoFile, Files

\* Loading and replacing keep sets of chunks.
LEMMA ReplacedType ==
  ASSUME NEW X \in SUBSET Chunks, NEW paths, NEW put \in SUBSET Chunks
  PROVE  /\ Replaced(X, paths, put) \subseteq Chunks
         /\ Load(X) \subseteq Chunks /\ Unprotected(X) \subseteq Chunks
         /\ X \ Below(X, paths) \subseteq Chunks
  BY DEF Replaced, Put, Below, Load, Unprotected

LEMMA SavedType ==
  ASSUME NEW w, jobs[w] \in Jobs
  PROVE  Saved(w) \subseteq Chunks
  <1>1. jobs[w].loaded \in SUBSET Chunks /\ jobs[w].put \in SUBSET Chunks
    BY DEF Jobs
  <1>2. Replaced(jobs[w].loaded, jobs[w].paths, jobs[w].put) \subseteq Chunks
    BY <1>1, ReplacedType
  <1> QED BY <1>2 DEF Saved, Unprotected

\* The watcher and other callers begin.
LEMMA BeginTyped ==
  ASSUME Typed, Poll \/ \E kind \in Calls : Call(kind)
  PROVE  Typed'
  <1>1. \E w \in Workers, j \in Jobs : jobs' = Joined(w, j)
    <2>1. CASE Poll
      <3>1. "watcher" \in Workers
        BY DEF Workers
      <3>2. \/ jobs' = Joined("watcher", Rescan)
            \/ jobs' = Joined("watcher", [NoJob EXCEPT !.pc = "decide", !.kind = "poll",
                                                       !.scan = Scan])
        BY <2>1 DEF Poll
      <3> QED BY <3>1, <3>2, NewJobs
    <2>2. CASE \E kind \in Calls : Call(kind)
      <3>1. "caller" \in Workers
        BY DEF Workers
      <3>2. PICK kind \in Calls : Call(kind)
        BY <2>2
      <3>3. \E j \in {Rescan, Index, Search, Ingest} : jobs' = Joined("caller", j)
        BY <3>2 DEF Call
      <3> QED BY <3>1, <3>3, NewJobs
    <2> QED BY <2>1, <2>2
  <1>2. jobs' \in [Workers -> Jobs]
    <2>1. PICK w \in Workers, j \in Jobs : jobs' = Joined(w, j)
      BY <1>1
    <2>2. Joined(w, j) \in [Workers -> Jobs]
      BY JoinedType
    <2> QED BY <2>1, <2>2
  <1> QED BY <1>2 DEF Typed, Poll, Call, files, watch

\* The watcher decides and compares.
LEMMA WatchTyped ==
  ASSUME Typed, DecidePoll \/ ApplyScan
  PROVE  Typed'
  <1>1. "watcher" \in Workers /\ jobs["watcher"] \in Jobs /\ NoJob \in Jobs
    BY NewJobs DEF Typed, Workers
  <1>2. CASE DecidePoll
    <2>1. [jobs["watcher"] EXCEPT !.pc = "apply"] \in Jobs
      BY <1>1 DEF Jobs, Pcs
    <2>2. jobs' \in [Workers -> Jobs]
      BY <1>1, <1>2, <2>1 DEF Typed, DecidePoll, Finished
    <2> QED BY <1>2, <2>2 DEF Typed, DecidePoll, files
  <1>3. CASE ApplyScan
    <2> DEFINE previous == snapshot \ NoSnapshot
               current == jobs["watcher"].scan
               put == current \ previous
               paths == Touched(previous, current)
    <2>1. previous \subseteq Chunks /\ current \subseteq Chunks
      BY <1>1 DEF Typed, Jobs
    <2>2. put \subseteq Chunks /\ paths \subseteq Paths \cup {Managed}
      BY <2>1 DEF Touched, Chunks
    <2>3. jobs' = [jobs EXCEPT !["watcher"] =
                     [jobs["watcher"] EXCEPT !.put = put, !.paths = paths, !.pc = "embed"]]
      BY <1>1, <1>3 DEF ApplyScan, Typed
    <2> HIDE DEF put, paths
    <2>4. [jobs["watcher"] EXCEPT !.put = put, !.paths = paths, !.pc = "embed"] \in Jobs
      BY <1>1, <2>2 DEF Jobs, Pcs
    <2>5. jobs' \in [Workers -> Jobs]
      BY <1>1, <2>3, <2>4 DEF Typed
    <2> QED BY <1>3, <2>5 DEF Typed, ApplyScan, files, watch
  <1> QED BY <1>2, <1>3

\* An operation works on the stores, ends or fails.
LEMMA WorkTyped ==
  ASSUME Typed, NEW w \in Workers, Work(w) \/ \E saved \in BOOLEAN : Fail(w, saved)
  PROVE  Typed'
  <1>1. jobs[w] \in Jobs /\ jobs \in [Workers -> Jobs] /\ NoJob \in Jobs
          /\ local \subseteq Chunks /\ primary \subseteq Chunks
    BY NewJobs DEF Typed
  <1>2. jobs[w].put \subseteq Chunks /\ jobs[w].loaded \subseteq Chunks
          /\ jobs[w].scan \subseteq Chunks
    BY <1>1 DEF Jobs
  <1>3. CASE LoadStore(w)
    <2> DEFINE l == Load(local)
    <2>1. l \subseteq Chunks /\ Unprotected(local) \subseteq Chunks
      BY <1>1, <1>2, ReplacedType
    <2>2. jobs' = [jobs EXCEPT ![w] = [jobs[w] EXCEPT !.loaded = l, !.pc = "save"]]
      BY <1>1, <1>3 DEF LoadStore
    <2> HIDE DEF l
    <2>3. [jobs[w] EXCEPT !.loaded = l, !.pc = "save"] \in Jobs
      BY <1>1, <2>1 DEF Jobs, Pcs
    <2>4. jobs' \in [Workers -> Jobs]
      BY <1>1, <2>2, <2>3
    <2> QED BY <1>3, <2>1, <2>4 DEF Typed, LoadStore, files, watch
  <1>4. CASE SaveStore(w)
    <2>1. /\ [jobs[w] EXCEPT !.pc = "primary"] \in Jobs
          /\ [jobs[w] EXCEPT !.pc = "finish"] \in Jobs
      BY <1>1 DEF Jobs, Pcs
    <2>2. jobs' \in [Workers -> Jobs]
      BY <1>1, <1>4, <2>1 DEF SaveStore
    <2>3. local' \subseteq Chunks
      BY <1>1, <1>4, SavedType DEF SaveStore
    <2> QED BY <1>4, <2>2, <2>3 DEF Typed, SaveStore, files, watch
  <1>5. CASE \E done \in Outcomes : SavePrimary(w, done)
    <2>1. [jobs[w] EXCEPT !.pc = "finish"] \in Jobs
      BY <1>1 DEF Jobs, Pcs
    <2>2. jobs' \in [Workers -> Jobs]
      BY <1>1, <1>5, <2>1 DEF SavePrimary
    <2>3. primary' \subseteq Chunks
      BY <1>1, <1>2, <1>5, ReplacedType DEF SavePrimary
    <2>4. synced' \in BOOLEAN
      BY <1>5 DEF SavePrimary
    <2> QED BY <1>5, <2>2, <2>3, <2>4 DEF Typed, SavePrimary, files, watch
  <1>6. CASE Finish(w)
    <2>1. jobs' \in [Workers -> Jobs]
      BY <1>1, <1>6 DEF Finish, Finished
    <2>2. snapshot' \in SUBSET Chunks \/ snapshot' = NoSnapshot
      BY <1>2, <1>6 DEF Typed, Finish
    <2>3. clean' \in BOOLEAN
      BY <1>6 DEF Finish
    <2> QED BY <1>6, <2>1, <2>2, <2>3 DEF Typed, Finish, files
  <1>7. CASE \E saved \in BOOLEAN : Fail(w, saved)
    <2>1. jobs' \in [Workers -> Jobs]
      BY <1>1, <1>7 DEF Fail, Finished
    <2>2. local' \subseteq Chunks
      BY <1>1, <1>7, SavedType DEF Fail
    <2> QED BY <1>7, <2>1, <2>2 DEF Typed, Fail, files
  <1>8. CASE \E gone \in SUBSET primary : Query(w, gone)
    <2> DEFINE next == IF jobs[w].kind = "search" THEN "finish" ELSE "embed"
    <2>1. jobs' = [jobs EXCEPT ![w].pc = next] /\ next \in Pcs
      BY <1>8 DEF Query, Pcs
    <2> HIDE DEF next
    <2>2. [jobs[w] EXCEPT !.pc = next] \in Jobs
      BY <1>1, <2>1 DEF Jobs
    <2>3. jobs' \in [Workers -> Jobs]
      BY <1>1, <2>1, <2>2
    <2>4. local' \subseteq Chunks /\ primary' \subseteq Chunks
      BY <1>1, <1>8 DEF Query, Unprotected
    <2> QED BY <1>8, <2>3, <2>4 DEF Typed, Query, files, watch
  <1> QED BY <1>3, <1>4, <1>5, <1>6, <1>7, <1>8 DEF Work

\* The clock, the loop, and the user.
LEMMA OtherTyped ==
  ASSUME Typed,
         \/ Age \/ Start \/ Restart
         \/ \E p \in Paths, f \in Files : Edit(p, f)
         \/ \E p, q \in Paths : Rename(p, q)
         \/ \E d \in Docs : Own(d)
         \/ UNCHANGED vars
  PROVE  Typed'
  <1>1. content' \in [Paths -> Files] /\ owned' \subseteq Docs
    BY DEF Typed, Age, Start, Restart, Edit, Rename, Own, vars, files
  <1>2. jobs' \in [Workers -> Jobs]
    BY NewJobs DEF Typed, Age, Start, Restart, Edit, Rename, Own, vars
  <1>3. /\ UNCHANGED <<local, primary, synced>>
        /\ snapshot' \in {snapshot, NoSnapshot}
    BY DEF Age, Start, Restart, Edit, Rename, Own, vars, watch
  <1>4. clean' \in BOOLEAN
    BY DEF Typed, Age, Start, Restart, Edit, Rename, Own, vars, watch
  <1> QED BY <1>1, <1>2, <1>3, <1>4 DEF Typed

\* Every step keeps the types.
LEMMA StepTyped == Typed /\ [Next]_vars => Typed'
  <1> SUFFICES ASSUME Typed, [Next]_vars PROVE Typed'
    OBVIOUS
  <1>1. CASE Watcher
    BY <1>1, BeginTyped, WatchTyped DEF Watcher
  <1>2. CASE \E w \in Workers : Work(w) \/ \E saved \in BOOLEAN : Fail(w, saved)
    BY <1>2, WorkTyped
  <1>3. CASE \E kind \in Calls : Call(kind)
    BY <1>3, BeginTyped
  <1> QED BY <1>1, <1>2, <1>3, OtherTyped DEF Next

-----------------------------------------------------------------------------
(* The invariant.  An operation that nothing overlaps knows, at each of its  *)
(* steps, what the stores agree with: the snapshot until it writes, its scan *)
(* from then on.  Predicates take the values, so that a step is compared by  *)
(* what it changes: o is owned, l local, p primary, S snapshot, c clean, and *)
(* q says that Qdrant is in use and synced.                                  *)

InUse == qdrant /\ synced

WellShaped(j) ==
  /\ Functional(j.scan)
  /\ j.pc \in {"decide", "apply"} => j.kind = "poll"
  /\ j.pc # "idle" => j.kind # "none"
  /\ j.pc = "query" => j.kind \in {"index", "search"}
  /\ j.kind = "search" => j.pc \in {"query", "finish"}
  /\ j.pc # "idle" /\ j.kind = "rescan" => j.put = j.scan /\ j.paths = Paths
  /\ j.pc # "idle" /\ j.kind = "ingest" =>
       j.paths = {Managed} /\ \A k \in j.put : k.path = Managed

Shapes ==
  /\ snapshot = NoSnapshot \/ Functional(snapshot)
  /\ \A w \in Workers : WellShaped(jobs[w])
  /\ jobs["caller"].kind # "poll"

\* A full rescan replaces everything.
RescanOK(o, j, l, p, q) ==
  /\ j.pc \in {"primary", "finish"} => Agree(o, l, j.scan)
  /\ j.pc = "finish" /\ q => Agree(o, p, j.scan)

\* A poll goes from its snapshot to its scan.
PollOK(o, j, l, p, S, q) ==
  /\ S # NoSnapshot
  /\ j.pc \in {"decide", "apply", "embed", "save"} => Agree(o, l, S)
  /\ j.pc # "finish" /\ q => Agree(o, p, S)
  /\ j.pc \in {"embed", "save", "primary"} =>
       j.put = j.scan \ S /\ j.paths = Touched(S, j.scan)
  /\ j.pc = "save" => Elsewhere(o, j.loaded, l, j.paths)
  /\ j.pc \in {"primary", "finish"} => Agree(o, l, j.scan)
  /\ j.pc = "finish" /\ q => Agree(o, p, j.scan)

\* An ingest leaves what the watcher sees.
IngestOK(o, j, l, p, S, q) ==
  /\ S # NoSnapshot => Held(o, l, p, S, q)
  /\ j.pc = "save" => Elsewhere(o, j.loaded, l, j.paths)

\* So does a search.
SearchOK(o, l, p, S, q) == S # NoSnapshot => Held(o, l, p, S, q)

JobOK(o, j, l, p, S, c, q) ==
  /\ j.kind = "rescan" => RescanOK(o, j, l, p, q)
  /\ j.kind = "poll" /\ c => PollOK(o, j, l, p, S, q)
  /\ j.kind = "ingest" /\ c => IngestOK(o, j, l, p, S, q)
  /\ j.kind = "search" /\ c => SearchOK(o, l, p, S, q)

Live(w) == jobs[w].pc # "idle"

\* An operation that is alone is the only one.
Sole == \A w \in Workers : Live(w) /\ jobs[w].alone => \A v \in Workers \ {w} : ~Live(v)

\* What overlaps the watcher in a clean state is still there.
Pair == clean /\ Live("watcher") /\ ~jobs["watcher"].alone => Live("caller")

Rested ==
  clean /\ (\A w \in Workers : ~Live(w)) /\ snapshot # NoSnapshot =>
    Held(owned, local, primary, snapshot, InUse)

Working ==
  \A w \in Workers : Live(w) /\ jobs[w].alone =>
    JobOK(owned, jobs[w], local, primary, snapshot, clean, InUse)

Inv == Shapes /\ Sole /\ Pair /\ Rested /\ Working
IInv == Typed /\ Inv

\* An index with nothing in it.
LEMMA InitInv == Init => Inv
  <1> SUFFICES ASSUME Init PROVE Inv
    OBVIOUS
  <1>1. snapshot = NoSnapshot /\ \A w \in Workers : jobs[w] = NoJob
    BY DEF Init
  <1>2. NoJob.pc = "idle" /\ NoJob.kind = "none" /\ NoJob.scan = {}
    BY DEF NoJob
  <1>3. WellShaped(NoJob)
    BY <1>2 DEF WellShaped, Functional
  <1>4. "watcher" \in Workers /\ "caller" \in Workers
    BY DEF Workers
  <1> QED BY <1>1, <1>2, <1>3, <1>4 DEF Inv, Shapes, Sole, Pair, Rested, Working, Live

\* An operation goes on: the others do not notice.
LEMMA Continues ==
  ASSUME IInv, NEW w \in Workers, Live(w), NEW n,
         jobs' = [jobs EXCEPT ![w] = n],
         WellShaped(n), n.pc # "idle", n.kind = jobs[w].kind, n.alone = jobs[w].alone,
         snapshot' = snapshot, clean' => clean,
         jobs[w].alone => JobOK(owned', n, local', primary', snapshot', clean', InUse')
  PROVE  Inv'
  <1> USE DEF IInv, Inv
  <1>1. jobs \in [Workers -> Jobs] /\ "watcher" \in Workers /\ "caller" \in Workers
    BY DEF Typed, Workers
  <1>2. jobs'[w] = n /\ \A v \in Workers \ {w} : jobs'[v] = jobs[v]
    BY <1>1
  <1>3. \A v \in Workers : Live(v)' <=> Live(v)
    BY <1>2 DEF Live
  <1>4. \A v \in Workers : jobs'[v].alone = jobs[v].alone /\ jobs'[v].kind = jobs[v].kind
    BY <1>2
  <1>5. Shapes'
    BY <1>1, <1>2, <1>4 DEF Shapes
  <1>6. Sole' /\ Pair'
    BY <1>1, <1>3, <1>4 DEF Sole, Pair
  <1>7. Rested'
    BY <1>3 DEF Rested
  <1>8. Working'
    BY <1>2, <1>3, <1>4 DEF Working, Sole
  <1> QED BY <1>5, <1>6, <1>7, <1>8

\* An operation ends.
LEMMA Ends ==
  ASSUME IInv, NEW w \in Workers, Live(w),
         jobs' = [jobs EXCEPT ![w] = NoJob],
         snapshot' = NoSnapshot \/ Functional(snapshot'),
         clean' /\ ~jobs[w].alone => clean /\ w = "watcher",
         clean' /\ jobs[w].alone /\ snapshot' # NoSnapshot =>
           Held(owned', local', primary', snapshot', InUse')
  PROVE  Inv'
  <1> USE DEF IInv, Inv
  <1>1. jobs \in [Workers -> Jobs] /\ "watcher" \in Workers /\ "caller" \in Workers
    BY DEF Typed, Workers
  <1>2. jobs'[w] = NoJob /\ \A v \in Workers \ {w} : jobs'[v] = jobs[v]
    BY <1>1
  <1>3. NoJob.pc = "idle" /\ NoJob.kind = "none" /\ WellShaped(NoJob)
    BY DEF NoJob, WellShaped, Functional
  <1>4. ~Live(w)' /\ \A v \in Workers \ {w} : Live(v)' <=> Live(v)
    BY <1>2, <1>3 DEF Live
  <1>5. Shapes'
    BY <1>1, <1>2, <1>3 DEF Shapes
  <1>6. Sole'
    BY <1>2, <1>4 DEF Sole
  <1>7. Pair'
    BY <1>1, <1>2, <1>4 DEF Pair, Sole
  <1>8. Rested'
    BY <1>1, <1>4 DEF Rested, Pair
  <1>9. Working'
    BY <1>2, <1>4 DEF Working, Sole
  <1> QED BY <1>5, <1>6, <1>7, <1>8, <1>9

\* A new operation: it is alone if nothing runs, and what runs is not alone
\* any more.
LEMMA Begins ==
  ASSUME IInv, NEW w \in Workers, ~Live(w), NEW j \in Jobs,
         jobs' = Joined(w, j), j.pc # "idle", WellShaped(j),
         w = "caller" => j.kind # "poll",
         UNCHANGED <<owned, store, local, primary, synced, snapshot, clean>>,
         clean /\ (\A v \in Workers : ~Live(v)) =>
           (j.kind = "poll" => j.pc = "decide")
             /\ (j.kind = "poll" => snapshot # NoSnapshot),
         j.kind = "rescan" => j.pc = "embed", j.kind = "ingest" => j.pc = "embed"
  PROVE  Inv'
  <1> USE DEF IInv, Inv
  <1> DEFINE free == \A v \in Workers : ~Live(v)
  <1>0. Typed
    OBVIOUS
  <1>1. "watcher" \in Workers /\ "caller" \in Workers
    BY DEF Workers
  <1>2. (Busy = {}) <=> free
    BY DEF Busy, Live
  <1>3. j.alone \in BOOLEAN /\ \A v \in Workers : jobs[v] \in Jobs /\ jobs[v].alone \in BOOLEAN
    BY DEF Typed, Jobs
  <1>4. /\ jobs'[w] = [j EXCEPT !.alone = (Busy = {})]
        /\ \A v \in Workers \ {w} :
             jobs'[v] = [jobs[v] EXCEPT !.alone = (@ /\ v \notin Busy)]
    <2>1. /\ Joined(w, j)[w] = [j EXCEPT !.alone = (Busy = {})]
          /\ \A v \in Workers \ {w} :
               Joined(w, j)[v] = [jobs[v] EXCEPT !.alone = (@ /\ v \notin Busy)]
      BY <1>0, JoinedType
    <2>2. jobs' = Joined(w, j)
      OBVIOUS
    <2> QED BY <2>1, <2>2
  <1>5. /\ jobs'[w].pc = j.pc /\ jobs'[w].kind = j.kind /\ jobs'[w].scan = j.scan
        /\ jobs'[w].put = j.put /\ jobs'[w].paths = j.paths
        /\ jobs'[w].loaded = j.loaded
        /\ jobs'[w].alone <=> free
    BY <1>2, <1>4 DEF Jobs
  <1>6. ASSUME NEW v \in Workers \ {w}
        PROVE  /\ jobs'[v].pc = jobs[v].pc /\ jobs'[v].kind = jobs[v].kind
               /\ jobs'[v].scan = jobs[v].scan /\ jobs'[v].put = jobs[v].put
               /\ jobs'[v].paths = jobs[v].paths
               /\ Live(v) => ~jobs'[v].alone
    <2> DEFINE b == v \notin Busy
    <2>1. b \in BOOLEAN /\ (Live(v) => ~b)
      BY DEF Busy, Live
    <2>2. jobs'[v] = [jobs[v] EXCEPT !.alone = (jobs[v].alone /\ b)]
      BY <1>4
    <2> HIDE DEF b
    <2>3. jobs[v] \in Jobs
      BY <1>3
    <2>4. jobs'[v].alone = (jobs[v].alone /\ b)
      BY <2>2, <2>3 DEF Jobs
    <2>5. Live(v) => ~jobs'[v].alone
      BY <2>1, <2>4
    <2>6. /\ jobs'[v].pc = jobs[v].pc /\ jobs'[v].kind = jobs[v].kind
          /\ jobs'[v].scan = jobs[v].scan /\ jobs'[v].put = jobs[v].put
          /\ jobs'[v].paths = jobs[v].paths
      BY <2>2, <2>3 DEF Jobs
    <2> QED BY <2>5, <2>6
  <1> HIDE DEF free
  <1>7. Live(w)' /\ \A v \in Workers \ {w} : Live(v)' <=> Live(v)
    BY <1>5, <1>6 DEF Live
  <1>8. Shapes'
    <2>1. WellShaped(jobs'[w])
      BY <1>5 DEF WellShaped
    <2>2. \A v \in Workers \ {w} : WellShaped(jobs'[v])
      BY <1>6 DEF WellShaped, Shapes
    <2>3. jobs'["caller"].kind # "poll"
      BY <1>1, <1>5, <1>6 DEF Shapes
    <2> QED BY <2>1, <2>2, <2>3 DEF Shapes
  <1>9. Sole'
    BY <1>5, <1>6, <1>7 DEF Sole, free
  <1>10. Pair'
    BY <1>1, <1>5, <1>6, <1>7 DEF Pair, Workers, free
  <1>11. Rested'
    BY <1>7 DEF Rested
  <1>12. Working'
    <2> SUFFICES ASSUME free
                 PROVE  JobOK(owned', jobs'[w], local', primary', snapshot', clean', InUse')
      BY <1>5, <1>6, <1>7 DEF Working
    <2>1. InUse' = InUse
      BY DEF InUse, qdrant
    <2>2. clean /\ snapshot # NoSnapshot => Held(owned, local, primary, snapshot, InUse)
      BY DEF Rested, free
    <2> HIDE DEF InUse
    <2> QED BY <1>5, <2>1, <2>2 DEF JobOK, RescanOK, PollOK, IngestOK, SearchOK, Held, free
  <1> QED BY <1>8, <1>9, <1>10, <1>11, <1>12

\* What an operation starts with is well shaped.
LEMMA NewShapes ==
  ASSUME Typed
  PROVE  /\ WellShaped(Rescan) /\ Rescan.pc = "embed" /\ Rescan.kind = "rescan"
         /\ WellShaped(Index) /\ Index.pc = "query" /\ Index.kind = "index"
         /\ WellShaped(Search) /\ Search.pc = "query" /\ Search.kind = "search"
         /\ WellShaped(Ingest) /\ Ingest.pc = "embed" /\ Ingest.kind = "ingest"
         /\ WellShaped([NoJob EXCEPT !.pc = "decide", !.kind = "poll", !.scan = Scan])
  <1> DEFINE scan == Scan
             copy == {[path |-> Managed, doc |-> Managed, ver |-> 1]}
  <1>1. Functional(scan) /\ Functional({})
    BY ScanFunctional DEF Functional
  <1>2. \A k \in copy : k.path = Managed
    OBVIOUS
  <1>3. Rescan = [NoJob EXCEPT !.pc = "embed", !.kind = "rescan", !.scan = scan,
                               !.put = scan, !.paths = Paths]
    BY DEF Rescan
  <1>4. Ingest = [NoJob EXCEPT !.pc = "embed", !.kind = "ingest", !.paths = {Managed},
                               !.put = copy]
    BY DEF Ingest
  <1> HIDE DEF scan, copy
  <1>5. WellShaped(Rescan) /\ Rescan.pc = "embed" /\ Rescan.kind = "rescan"
    BY <1>1, <1>3 DEF WellShaped, NoJob
  <1>6. WellShaped(Index) /\ Index.pc = "query" /\ Index.kind = "index"
    BY <1>1, <1>3 DEF Index, WellShaped, NoJob
  <1>7. WellShaped(Ingest) /\ Ingest.pc = "embed" /\ Ingest.kind = "ingest"
    BY <1>1, <1>2, <1>4 DEF WellShaped, NoJob
  <1>8. WellShaped([NoJob EXCEPT !.pc = "decide", !.kind = "poll", !.scan = scan])
    BY <1>1 DEF WellShaped, NoJob
  <1>9. WellShaped(Search) /\ Search.pc = "query" /\ Search.kind = "search"
    BY <1>1 DEF Search, WellShaped, NoJob
  <1> QED BY <1>5, <1>6, <1>7, <1>8, <1>9 DEF scan

\* The watcher polls, or another caller begins.
LEMMA BeginKeeps ==
  ASSUME IInv, Poll \/ \E kind \in Calls : Call(kind)
  PROVE  Inv'
  <1>0. Typed /\ "watcher" \in Workers /\ "caller" \in Workers
    BY DEF IInv, Workers
  <1>1. CASE Poll
    <2> DEFINE poll == [NoJob EXCEPT !.pc = "decide", !.kind = "poll", !.scan = Scan]
    <2>1. poll \in Jobs /\ WellShaped(poll) /\ poll.pc = "decide" /\ poll.kind = "poll"
      BY <1>0, NewJobs, NewShapes DEF NoJob
    <2>2. Rescan \in Jobs /\ WellShaped(Rescan) /\ Rescan.pc = "embed" /\ Rescan.kind = "rescan"
      BY <1>0, NewJobs, NewShapes
    <2>3. ~Live("watcher") /\ UNCHANGED <<owned, store, local, primary, synced, snapshot, clean>>
      BY <1>1 DEF Poll, Live, files, watch
    <2>4. \/ snapshot = NoSnapshot /\ jobs' = Joined("watcher", Rescan)
          \/ snapshot # NoSnapshot /\ jobs' = Joined("watcher", poll)
      BY <1>1 DEF Poll
    <2> HIDE DEF poll
    <2>5. CASE snapshot = NoSnapshot
      BY <1>0, <2>2, <2>3, <2>4, <2>5, Begins
    <2>6. CASE snapshot # NoSnapshot
      BY <1>0, <2>1, <2>3, <2>4, <2>6, Begins
    <2> QED BY <2>5, <2>6
  <1>2. CASE \E kind \in Calls : Call(kind)
    <2>1. PICK kind \in Calls : Call(kind)
      BY <1>2
    <2>2. PICK j \in {Rescan, Index, Search, Ingest} : jobs' = Joined("caller", j)
      BY <2>1 DEF Call
    <2>3. j \in Jobs /\ WellShaped(j) /\ j.pc \in {"embed", "query"} /\ j.kind # "poll"
            /\ (j.kind \in {"rescan", "ingest"} => j.pc = "embed")
      BY <1>0, NewJobs, NewShapes
    <2>4. ~Live("caller") /\ UNCHANGED <<owned, store, local, primary, synced, snapshot, clean>>
      BY <2>1 DEF Call, Live, files, watch
    <2> QED BY <1>0, <2>2, <2>3, <2>4, Begins
  <1> QED BY <1>1, <1>2

\* The watcher decides: nothing changed, the debounce goes on, or it applies.
LEMMA DecideKeeps == ASSUME IInv, DecidePoll PROVE Inv'
  <1> DEFINE w == "watcher"
             j == jobs[w]
             n == [j EXCEPT !.pc = "apply"]
  <1>1. w \in Workers /\ j \in Jobs /\ jobs \in [Workers -> Jobs] /\ Inv /\ Live(w)
    BY DEF IInv, Typed, Workers, DecidePoll, Live
  <1>2. UNCHANGED <<owned, store, local, primary, synced, snapshot, clean>> /\ InUse' = InUse
    BY DEF DecidePoll, files, InUse, qdrant
  <1>3. j.pc = "decide" /\ j.kind = "poll" /\ WellShaped(j)
    BY <1>1 DEF DecidePoll, Inv, Shapes, WellShaped
  <1>4. clean /\ j.alone => PollOK(owned, j, local, primary, snapshot, InUse)
    BY <1>1, <1>3 DEF Inv, Working, JobOK
  <1>5. CASE jobs' = [jobs EXCEPT ![w] = NoJob]
    <2>1. snapshot = NoSnapshot \/ Functional(snapshot)
      BY <1>1 DEF Inv, Shapes
    <2>2. clean /\ j.alone => Held(owned, local, primary, snapshot, InUse)
      BY <1>3, <1>4 DEF PollOK, Held
    <2> HIDE DEF InUse
    <2> QED BY <1>1, <1>2, <1>5, <2>1, <2>2, Ends
  <1>6. CASE jobs' = [jobs EXCEPT ![w].pc = "apply"]
    <2>1. jobs' = [jobs EXCEPT ![w] = n]
      BY <1>1, <1>6
    <2>2. n.pc = "apply" /\ n.kind = j.kind /\ n.alone = j.alone /\ n.scan = j.scan
            /\ n.put = j.put /\ n.paths = j.paths /\ n.loaded = j.loaded
      BY <1>1 DEF Jobs
    <2> HIDE DEF n
    <2>3. WellShaped(n)
      BY <1>3, <2>2 DEF WellShaped
    <2>4. j.alone => JobOK(owned, n, local, primary, snapshot, clean, InUse)
      BY <1>3, <1>4, <2>2 DEF JobOK, PollOK
    <2> QED BY <1>1, <1>2, <2>1, <2>2, <2>3, <2>4, Continues
  <1> QED BY <1>5, <1>6 DEF DecidePoll, Finished

\* The watcher compares its scan with the snapshot.
LEMMA ApplyKeeps == ASSUME IInv, ApplyScan PROVE Inv'
  <1> DEFINE w == "watcher"
             j == jobs[w]
             previous == snapshot \ NoSnapshot
             put == j.scan \ previous
             paths == Touched(previous, j.scan)
             n == [j EXCEPT !.put = put, !.paths = paths, !.pc = "embed"]
  <1>1. w \in Workers /\ j \in Jobs /\ jobs \in [Workers -> Jobs] /\ Inv /\ Live(w)
    BY DEF IInv, Typed, Workers, ApplyScan, Live
  <1>2. UNCHANGED <<owned, store, local, primary, synced, snapshot, clean>> /\ InUse' = InUse
    BY DEF ApplyScan, files, watch, InUse, qdrant
  <1>3. j.pc = "apply" /\ j.kind = "poll" /\ WellShaped(j)
    BY <1>1 DEF ApplyScan, Inv, Shapes, WellShaped
  <1>4. clean /\ j.alone => PollOK(owned, j, local, primary, snapshot, InUse)
    BY <1>1, <1>3 DEF Inv, Working, JobOK
  <1>5. clean /\ j.alone => previous = snapshot
    BY <1>1, <1>4, NotNoSnapshot DEF PollOK, Inv, Shapes
  <1>6. jobs' = [jobs EXCEPT ![w] = n]
    BY <1>1 DEF ApplyScan
  <1>7. clean /\ j.alone => put = j.scan \ snapshot /\ paths = Touched(snapshot, j.scan)
    BY <1>5
  <1> HIDE DEF put, paths
  <1>8. n.pc = "embed" /\ n.kind = j.kind /\ n.alone = j.alone /\ n.scan = j.scan
          /\ n.put = put /\ n.paths = paths /\ n.loaded = j.loaded
    BY <1>1 DEF Jobs
  <1> HIDE DEF n
  <1>9. WellShaped(n)
    BY <1>3, <1>8 DEF WellShaped
  <1>10. j.alone => JobOK(owned, n, local, primary, snapshot, clean, InUse)
    BY <1>3, <1>4, <1>7, <1>8 DEF JobOK, PollOK
  <1> QED BY <1>1, <1>2, <1>3, <1>6, <1>8, <1>9, <1>10, Continues

\* An operation loads the store: what the load drops is replaced anyway.
LEMMA LoadKeeps == ASSUME IInv, NEW w \in Workers, LoadStore(w) PROVE Inv'
  <1> DEFINE j == jobs[w]
             l == Load(local)
             n == [j EXCEPT !.loaded = l, !.pc = "save"]
  <1>1. j \in Jobs /\ jobs \in [Workers -> Jobs] /\ Inv /\ Live(w) /\ clean \in BOOLEAN
    BY DEF IInv, Typed, LoadStore, Live
  <1>2. UNCHANGED <<owned, store, primary, synced, snapshot>> /\ InUse' = InUse
          /\ local' = Unprotected(local)
    BY DEF LoadStore, files, watch, InUse, qdrant
  <1>3. j.pc = "embed" /\ WellShaped(j) /\ Agree(owned, local', local)
    BY <1>1, <1>2, UnprotectedAgrees DEF LoadStore, Inv, Shapes
  <1>4. clean' => clean /\ \A k \in Unprotected(local) \ l : k.path \in j.paths
    BY DEF LoadStore
  <1>5. l \subseteq local'
    BY <1>2 DEF Load
  <1>6. clean' => Elsewhere(owned, l, local', j.paths)
    BY <1>2, <1>4, <1>5 DEF Elsewhere, Agree
  <1>7. jobs' = [jobs EXCEPT ![w] = n]
    BY <1>1 DEF LoadStore
  <1> HIDE DEF l
  <1>8. n.pc = "save" /\ n.kind = j.kind /\ n.alone = j.alone /\ n.scan = j.scan
          /\ n.put = j.put /\ n.paths = j.paths /\ n.loaded = l
    BY <1>1 DEF Jobs
  <1> HIDE DEF n
  <1>9. WellShaped(n)
    BY <1>3, <1>8 DEF WellShaped
  <1>10. ASSUME j.alone
         PROVE  JobOK(owned, n, local', primary, snapshot, clean', InUse)
    <2>1. JobOK(owned, j, local, primary, snapshot, clean, InUse)
      BY <1>1, <1>10 DEF Inv, Working
    <2>2. RescanOK(owned, n, local', primary, InUse)
      BY <1>8 DEF RescanOK
    <2>3. ASSUME n.kind = "poll", clean'
          PROVE  PollOK(owned, n, local', primary, snapshot, InUse)
      <3>1. PollOK(owned, j, local, primary, snapshot, InUse)
        BY <1>4, <1>8, <2>1, <2>3 DEF JobOK
      <3>2. Agree(owned, local', snapshot)
        BY <1>3, <3>1, AgreeTransitive DEF PollOK
      <3> QED BY <1>3, <1>6, <1>8, <2>3, <3>1, <3>2 DEF PollOK
    <2>4. ASSUME n.kind = "ingest", clean'
          PROVE  IngestOK(owned, n, local', primary, snapshot, InUse)
      <3>1. IngestOK(owned, j, local, primary, snapshot, InUse)
        BY <1>4, <1>8, <2>1, <2>4 DEF JobOK
      <3>2. snapshot # NoSnapshot => Agree(owned, local', snapshot)
        BY <1>3, <3>1, AgreeTransitive DEF IngestOK, Held
      <3> QED BY <1>6, <1>8, <2>4, <3>1, <3>2 DEF IngestOK, Held
    <2>5. n.kind # "search"
      BY <1>3, <1>8 DEF WellShaped
    <2> QED BY <2>2, <2>3, <2>4, <2>5 DEF JobOK
  <1>11. clean' => clean
    BY <1>4
  <1> QED BY <1>1, <1>2, <1>7, <1>8, <1>9, <1>10, <1>11, Continues

\* What a poll that is alone replaces: one scan becomes the other.
LEMMA PollReplaces ==
  ASSUME Shapes, NEW w \in Workers, NEW X,
         PollOK(owned, jobs[w], local, primary, snapshot, InUse),
         jobs[w].pc \in {"save", "primary"},
         Elsewhere(owned, X, snapshot, jobs[w].paths)
  PROVE  Agree(owned, Replaced(X, jobs[w].paths, jobs[w].put), jobs[w].scan)
  <1> DEFINE S == snapshot
             T == jobs[w].scan
  <1>1. jobs[w].put = T \ S /\ jobs[w].paths = Touched(S, T) /\ S # NoSnapshot
    BY DEF PollOK
  <1>2. Functional(S) /\ Functional(T)
    BY <1>1 DEF Shapes, WellShaped
  <1> HIDE DEF S, T
  <1>3. Elsewhere(owned, X, S, Touched(S, T))
    BY <1>1 DEF S
  <1>4. Agree(owned, Replaced(X, Touched(S, T), T \ S), T)
    BY <1>2, <1>3, ReplaceTouched
  <1> QED BY <1>1, <1>4 DEF T

\* Elsewhere is transitive with what agrees.
LEMMA ElsewhereAgree ==
  ASSUME NEW o, NEW X, NEW Y, NEW Z, NEW paths, Elsewhere(o, X, Y, paths), Agree(o, Y, Z)
  PROVE  Elsewhere(o, X, Z, paths)
  BY DEF Elsewhere, Agree

\* The JSON store is saved.
LEMMA SaveKeeps == ASSUME IInv, NEW w \in Workers, SaveStore(w) PROVE Inv'
  <1> DEFINE j == jobs[w]
             next == IF qdrant THEN "primary" ELSE "finish"
             n == [j EXCEPT !.pc = next]
             r == Replaced(j.loaded, j.paths, j.put)
             l == Unprotected(r)
  <1>1. j \in Jobs /\ jobs \in [Workers -> Jobs] /\ Inv /\ Live(w)
    BY DEF IInv, Typed, SaveStore, Live
  <1>2. UNCHANGED <<owned, store, primary, synced, snapshot, clean>> /\ InUse' = InUse
          /\ local' = l
    BY DEF SaveStore, Saved, files, watch, InUse, qdrant
  <1>3. j.pc = "save" /\ WellShaped(j) /\ Shapes /\ Agree(owned, l, r)
    BY <1>1, UnprotectedAgrees DEF SaveStore, Inv, Shapes
  <1>4. jobs' = [jobs EXCEPT ![w] = n]
    BY <1>1 DEF SaveStore
  <1>5. next \in {"primary", "finish"} /\ (next = "finish" => ~InUse)
    BY DEF InUse
  <1> HIDE DEF next
  <1>6. n.pc = next /\ n.kind = j.kind /\ n.alone = j.alone /\ n.scan = j.scan
          /\ n.put = j.put /\ n.paths = j.paths /\ n.loaded = j.loaded
    BY <1>1 DEF Jobs
  <1> HIDE DEF n, InUse
  <1>7. WellShaped(n)
    BY <1>3, <1>5, <1>6 DEF WellShaped
  <1>8. ASSUME j.alone
        PROVE  JobOK(owned, n, l, primary, snapshot, clean, InUse)
    <2>1. JobOK(owned, j, local, primary, snapshot, clean, InUse)
      BY <1>1, <1>8 DEF Inv, Working
    <2>2. ASSUME n.kind = "rescan"
          PROVE  RescanOK(owned, n, l, primary, InUse)
      <3>1. j.put = j.scan /\ j.paths = Paths
        BY <1>3, <1>6, <2>2 DEF WellShaped
      <3>2. Agree(owned, l, j.scan)
        BY <1>3, <3>1, ReplaceAll, AgreeTransitive
      <3> QED BY <1>5, <1>6, <3>2 DEF RescanOK
    <2>3. ASSUME n.kind = "poll", clean
          PROVE  PollOK(owned, n, l, primary, snapshot, InUse)
      <3>1. PollOK(owned, j, local, primary, snapshot, InUse)
        BY <1>6, <2>1, <2>3 DEF JobOK
      <3>2. Elsewhere(owned, j.loaded, local, j.paths) /\ Agree(owned, local, snapshot)
        BY <1>3, <3>1 DEF PollOK
      <3>3. Elsewhere(owned, j.loaded, snapshot, j.paths)
        BY <3>2, ElsewhereAgree
      <3>4. Agree(owned, l, j.scan)
        BY <1>3, <3>1, <3>3, PollReplaces, AgreeTransitive
      <3> HIDE DEF l
      <3> QED BY <1>3, <1>5, <1>6, <2>3, <3>1, <3>4 DEF PollOK
    <2>4. ASSUME n.kind = "ingest", clean
          PROVE  IngestOK(owned, n, l, primary, snapshot, InUse)
      <3>1. IngestOK(owned, j, local, primary, snapshot, InUse)
        BY <1>6, <2>1, <2>4 DEF JobOK
      <3>2. j.paths = {Managed} /\ \A k \in j.put : k.path = Managed
        BY <1>3, <1>6, <2>4 DEF WellShaped
      <3>3. ASSUME snapshot # NoSnapshot
            PROVE  Agree(owned, l, snapshot)
        <4>1. Elsewhere(owned, j.loaded, local, j.paths) /\ Agree(owned, local, snapshot)
          BY <1>3, <3>1, <3>3 DEF IngestOK, Held
        <4>2. Elsewhere(owned, j.loaded, snapshot, {Managed})
          BY <3>2, <4>1, ElsewhereAgree
        <4> QED BY <1>3, <3>2, <4>2, ReplaceCopies, AgreeTransitive
      <3> HIDE DEF l
      <3> QED BY <1>5, <1>6, <3>1, <3>3 DEF IngestOK, Held
    <2>5. n.kind # "search"
      BY <1>3, <1>6 DEF WellShaped
    <2> QED BY <2>2, <2>3, <2>4, <2>5 DEF JobOK
  <1>9. clean' => clean
    BY <1>2
  <1>10. n.pc # "idle"
    BY <1>5, <1>6
  <1> HIDE DEF l
  <1> QED BY <1>1, <1>2, <1>4, <1>6, <1>7, <1>8, <1>9, <1>10, Continues

\* Qdrant is brought up to date, or one of its calls fails and it counts as
\* not synced.
LEMMA PrimaryKeeps ==
  ASSUME IInv, NEW w \in Workers, NEW done \in Outcomes, SavePrimary(w, done)
  PROVE  Inv'
  <1> DEFINE j == jobs[w]
             n == [j EXCEPT !.pc = "finish"]
             p == Replaced(primary, j.paths, j.put)
  <1>1. j \in Jobs /\ jobs \in [Workers -> Jobs] /\ Inv /\ Live(w)
    BY DEF IInv, Typed, SavePrimary, Live
  <1>2. UNCHANGED <<owned, store, local, snapshot, clean>>
    BY DEF SavePrimary, files, watch
  <1>3. InUse' => primary' = p /\ (InUse \/ j.kind = "rescan")
    BY DEF SavePrimary, InUse, qdrant, files
  <1>4. j.pc = "primary" /\ WellShaped(j) /\ Shapes
    BY <1>1 DEF SavePrimary, Inv, Shapes
  <1>5. jobs' = [jobs EXCEPT ![w] = n]
    BY <1>1 DEF SavePrimary
  <1>6. n.pc = "finish" /\ n.kind = j.kind /\ n.alone = j.alone /\ n.scan = j.scan
          /\ n.put = j.put /\ n.paths = j.paths /\ n.loaded = j.loaded
    BY <1>1 DEF Jobs
  <1> HIDE DEF n, InUse
  <1>7. WellShaped(n)
    BY <1>4, <1>6 DEF WellShaped
  <1>8. ASSUME j.alone
        PROVE  JobOK(owned, n, local, primary', snapshot, clean, InUse')
    <2>1. JobOK(owned, j, local, primary, snapshot, clean, InUse)
      BY <1>1, <1>8 DEF Inv, Working
    <2>2. ASSUME n.kind = "rescan"
          PROVE  RescanOK(owned, n, local, primary', InUse')
      <3>1. j.put = j.scan /\ j.paths = Paths
        BY <1>4, <1>6, <2>2 DEF WellShaped
      <3>2. Agree(owned, p, j.scan)
        BY <3>1, ReplaceAll
      <3>3. Agree(owned, local, j.scan)
        BY <1>4, <1>6, <2>1, <2>2 DEF JobOK, RescanOK
      <3> HIDE DEF p
      <3> QED BY <1>3, <1>6, <3>2, <3>3 DEF RescanOK
    <2>3. ASSUME n.kind = "poll", clean
          PROVE  PollOK(owned, n, local, primary', snapshot, InUse')
      <3>1. PollOK(owned, j, local, primary, snapshot, InUse)
        BY <1>6, <2>1, <2>3 DEF JobOK
      <3>2. ASSUME InUse
            PROVE  Agree(owned, p, j.scan)
        <4>1. Agree(owned, primary, snapshot)
          BY <1>4, <3>1, <3>2 DEF PollOK
        <4>2. Elsewhere(owned, primary, snapshot, j.paths)
          BY <4>1, AgreeElsewhere
        <4> QED BY <1>4, <3>1, <4>2, PollReplaces
      <3> HIDE DEF p
      <3>3. InUse' => Agree(owned, primary', j.scan)
        BY <1>3, <1>6, <2>3, <3>2
      <3> QED BY <1>4, <1>6, <3>1, <3>3 DEF PollOK
    <2>4. ASSUME n.kind = "ingest", clean
          PROVE  IngestOK(owned, n, local, primary', snapshot, InUse')
      <3>1. IngestOK(owned, j, local, primary, snapshot, InUse)
        BY <1>6, <2>1, <2>4 DEF JobOK
      <3>2. j.paths = {Managed} /\ \A k \in j.put : k.path = Managed
        BY <1>4, <1>6, <2>4 DEF WellShaped
      <3>3. ASSUME snapshot # NoSnapshot, InUse
            PROVE  Agree(owned, p, snapshot)
        <4>1. Elsewhere(owned, primary, snapshot, {Managed})
          BY <3>1, <3>3, AgreeElsewhere DEF IngestOK, Held
        <4> QED BY <3>2, <4>1, ReplaceCopies
      <3> HIDE DEF p
      <3>4. snapshot # NoSnapshot /\ InUse' => Agree(owned, primary', snapshot)
        BY <1>3, <1>6, <2>4, <3>3
      <3> QED BY <1>6, <3>1, <3>4 DEF IngestOK, Held
    <2>5. n.kind # "search"
      BY <1>4, <1>6 DEF WellShaped
    <2> QED BY <2>2, <2>3, <2>4, <2>5 DEF JobOK
  <1>9. clean' => clean
    BY <1>2
  <1>10. n.pc # "idle"
    BY <1>6
  <1> QED BY <1>1, <1>2, <1>5, <1>6, <1>7, <1>8, <1>9, <1>10, Continues

\* A search, or the look-up before an index, drops only what does not count.
LEMMA QueryKeeps == ASSUME IInv, NEW w \in Workers, NEW gone, Query(w, gone) PROVE Inv'
  <1> DEFINE j == jobs[w]
             next == IF j.kind = "search" THEN "finish" ELSE "embed"
             n == [j EXCEPT !.pc = next]
  <1>1. j \in Jobs /\ jobs \in [Workers -> Jobs] /\ Inv /\ Live(w)
    BY DEF IInv, Typed, Query, Live
  <1>2. UNCHANGED <<owned, store, synced, snapshot, clean>> /\ InUse' = InUse
    BY DEF Query, files, watch, InUse, qdrant
  <1>3. j.pc = "query" /\ WellShaped(j) /\ j.kind \in {"index", "search"}
    BY <1>1 DEF Query, Inv, Shapes, WellShaped
  <1>4. Agree(owned, local', local) /\ Agree(owned, primary', primary)
    BY AgreeSelf, UnprotectedAgrees DEF Query, Agree, Unprotected
  <1>5. jobs' = [jobs EXCEPT ![w] = n]
    BY <1>1 DEF Query
  <1>6. next \in {"finish", "embed"} /\ (j.kind = "search" => next = "finish")
    OBVIOUS
  <1> HIDE DEF next
  <1>7. n.pc = next /\ n.kind = j.kind /\ n.alone = j.alone /\ n.scan = j.scan
          /\ n.put = j.put /\ n.paths = j.paths /\ n.loaded = j.loaded
    BY <1>1 DEF Jobs
  <1> HIDE DEF n, InUse
  <1>8. WellShaped(n)
    BY <1>3, <1>6, <1>7 DEF WellShaped
  <1>9. ASSUME j.alone
        PROVE  JobOK(owned, n, local', primary', snapshot, clean, InUse)
    <2>1. JobOK(owned, j, local, primary, snapshot, clean, InUse)
      BY <1>1, <1>9 DEF Inv, Working
    <2>2. ASSUME n.kind = "search", clean
          PROVE  SearchOK(owned, local', primary', snapshot, InUse)
      BY <1>4, <1>7, <2>1, <2>2, AgreeTransitive DEF JobOK, SearchOK, Held
    <2> QED BY <1>3, <1>7, <2>2 DEF JobOK
  <1>10. n.pc # "idle" /\ (clean' => clean)
    BY <1>2, <1>6, <1>7
  <1> QED BY <1>1, <1>2, <1>5, <1>7, <1>8, <1>9, <1>10, Continues

\* An operation ends: the scan of a rescan or of a poll becomes the snapshot.
LEMMA FinishKeeps == ASSUME IInv, NEW w \in Workers, Finish(w) PROVE Inv'
  <1> DEFINE j == jobs[w]
  <1>1. j \in Jobs /\ Inv /\ Live(w) /\ clean \in BOOLEAN
    BY DEF IInv, Typed, Finish, Live
  <1>2. UNCHANGED <<owned, store, local, primary, synced>> /\ InUse' = InUse
          /\ jobs' = [jobs EXCEPT ![w] = NoJob]
    BY DEF Finish, files, InUse, qdrant, Finished
  <1>3. j.pc = "finish" /\ Functional(j.scan)
    BY <1>1 DEF Finish, Inv, Shapes, WellShaped
  <1>4. clean' => j.alone /\ j.kind # "index" /\ (clean \/ j.kind = "rescan")
    BY DEF Finish
  <1>5. /\ j.kind \in {"rescan", "poll"} => snapshot' = j.scan
        /\ j.kind \notin {"rescan", "poll"} => snapshot' = snapshot
    BY DEF Finish
  <1>6. snapshot' = NoSnapshot \/ Functional(snapshot')
    BY <1>1, <1>3, <1>5 DEF Inv, Shapes
  <1>7. ASSUME clean', j.alone, snapshot' # NoSnapshot, j.kind # "none"
        PROVE  Held(owned, local, primary, snapshot', InUse)
    <2>1. JobOK(owned, j, local, primary, snapshot, clean, InUse)
      BY <1>1, <1>7 DEF Inv, Working
    <2>2. CASE j.kind = "rescan"
      BY <1>3, <1>5, <2>1, <2>2 DEF JobOK, RescanOK, Held
    <2>3. CASE j.kind = "poll"
      BY <1>3, <1>4, <1>5, <1>7, <2>1, <2>3 DEF JobOK, PollOK, Held
    <2>4. CASE j.kind = "ingest"
      BY <1>3, <1>4, <1>5, <1>7, <2>1, <2>4 DEF JobOK, IngestOK
    <2>5. CASE j.kind = "search"
      BY <1>3, <1>4, <1>5, <1>7, <2>1, <2>5 DEF JobOK, SearchOK
    <2> QED BY <1>1, <1>4, <1>7, <2>2, <2>3, <2>4, <2>5 DEF Jobs, JobKinds
  <1>8. j.kind # "none"
    BY <1>1, <1>3 DEF Inv, Shapes, WellShaped
  <1> HIDE DEF InUse
  <1> QED BY <1>1, <1>2, <1>4, <1>6, <1>7, <1>8, Ends

\* An operation raises: nothing is promised until the next rescan.
LEMMA FailKeeps ==
  ASSUME IInv, NEW w \in Workers, NEW saved \in BOOLEAN, Fail(w, saved)
  PROVE  Inv'
  <1>1. Live(w) /\ jobs' = [jobs EXCEPT ![w] = NoJob] /\ ~clean'
    BY DEF Fail, Live, Finished
  <1>2. snapshot' = NoSnapshot \/ Functional(snapshot')
    BY DEF Fail, IInv, Inv, Shapes
  <1> QED BY <1>1, <1>2, Ends

\* Another process watches: it has no snapshot, and what it was about to write
\* is lost.
LEMMA RestartKeeps == ASSUME IInv, Restart PROVE Inv'
  <1> DEFINE w == "watcher"
  <1>1. /\ w \in Workers /\ jobs \in [Workers -> Jobs] /\ Inv
        /\ jobs' = [jobs EXCEPT ![w] = NoJob] /\ snapshot' = NoSnapshot
        /\ clean' <=> (clean /\ ~Live(w))
        /\ UNCHANGED <<owned, store, local, primary, synced>> /\ InUse' = InUse
    BY DEF IInv, Typed, Workers, Restart, Live, files, InUse, qdrant
  <1>2. CASE Live(w)
    <2> HIDE DEF InUse
    <2> QED BY <1>1, <1>2, Ends
  <1>3. CASE ~Live(w)
    <2>1. jobs'[w] = NoJob /\ \A v \in Workers \ {w} : jobs'[v] = jobs[v]
      BY <1>1
    <2>2. NoJob.pc = "idle" /\ NoJob.kind = "none" /\ WellShaped(NoJob)
      BY DEF NoJob, WellShaped, Functional
    <2>3. \A v \in Workers : Live(v)' <=> Live(v)
      BY <1>3, <2>1, <2>2 DEF Live
    <2>4. "caller" \in Workers \ {w}
      BY DEF Workers
    <2>5. Shapes'
      BY <1>1, <2>1, <2>2, <2>4 DEF Inv, Shapes
    <2>6. Sole' /\ Pair' /\ Rested'
      BY <1>1, <1>3, <2>1, <2>3 DEF Inv, Sole, Pair, Rested
    <2>7. ASSUME NEW v \in Workers, Live(v)', jobs'[v].alone
          PROVE  JobOK(owned', jobs'[v], local', primary', snapshot', clean', InUse')
      <3>1. v # w /\ Live(v) /\ jobs'[v] = jobs[v]
        BY <1>3, <2>1, <2>3, <2>7
      <3>2. jobs[v].kind # "poll"
        BY <1>1, <3>1 DEF Inv, Shapes, Workers
      <3>3. JobOK(owned, jobs[v], local, primary, snapshot, clean, InUse)
        BY <1>1, <2>7, <3>1 DEF Inv, Working
      <3> HIDE DEF InUse
      <3> QED BY <1>1, <1>3, <3>1, <3>2, <3>3 DEF JobOK, RescanOK, IngestOK, SearchOK
    <2> QED BY <2>5, <2>6, <2>7 DEF Inv, Working
  <1> QED BY <1>2, <1>3

\* The clock, the loop, the user, and the Karte, which takes documents over.
LEMMA OtherKeeps ==
  ASSUME IInv,
         \/ Age \/ Start
         \/ \E p \in Paths, f \in Files : Edit(p, f)
         \/ \E p, q \in Paths : Rename(p, q)
         \/ \E d \in Docs : Own(d)
         \/ UNCHANGED vars
  PROVE  Inv'
  <1>1. /\ UNCHANGED <<store, local, primary, synced, snapshot, jobs, clean>>
        /\ owned \subseteq owned'
    BY DEF Age, Start, Edit, Rename, Own, vars, files, watch
  <1>2. InUse' = InUse /\ \A v \in Workers : Live(v)' <=> Live(v)
    BY <1>1 DEF InUse, qdrant, Live
  <1> HIDE DEF InUse
  <1>3. \A X, Y : Agree(owned, X, Y) => Agree(owned', X, Y)
    BY <1>1, AgreeGrows
  <1>4. \A X, Y, paths : Elsewhere(owned, X, Y, paths) => Elsewhere(owned', X, Y, paths)
    BY <1>3 DEF Elsewhere
  <1>5. Shapes' /\ Sole' /\ Pair'
    <2>1. Shapes'
      BY <1>1 DEF IInv, Inv, Shapes
    <2>2. Sole'
      BY <1>1, <1>2 DEF IInv, Inv, Sole
    <2>3. Pair'
      BY <1>1, <1>2 DEF IInv, Inv, Pair, Live
    <2> QED BY <2>1, <2>2, <2>3
  <1>6. Rested'
    BY <1>1, <1>2, <1>3 DEF IInv, Inv, Rested, Held
  <1>7. Working'
    <2> SUFFICES ASSUME NEW v \in Workers, Live(v), jobs[v].alone
                 PROVE  JobOK(owned', jobs[v], local, primary, snapshot, clean, InUse)
      BY <1>1, <1>2 DEF Working
    <2>1. JobOK(owned, jobs[v], local, primary, snapshot, clean, InUse)
      BY DEF IInv, Inv, Working
    <2>2. RescanOK(owned, jobs[v], local, primary, InUse) =>
            RescanOK(owned', jobs[v], local, primary, InUse)
      BY <1>3 DEF RescanOK
    <2>3. PollOK(owned, jobs[v], local, primary, snapshot, InUse) =>
            PollOK(owned', jobs[v], local, primary, snapshot, InUse)
      BY <1>3, <1>4 DEF PollOK
    <2>4. IngestOK(owned, jobs[v], local, primary, snapshot, InUse) =>
            IngestOK(owned', jobs[v], local, primary, snapshot, InUse)
      BY <1>3, <1>4 DEF IngestOK, Held
    <2>5. SearchOK(owned, local, primary, snapshot, InUse) =>
            SearchOK(owned', local, primary, snapshot, InUse)
      BY <1>3 DEF SearchOK, Held
    <2> QED BY <2>1, <2>2, <2>3, <2>4, <2>5 DEF JobOK
  <1> QED BY <1>5, <1>6, <1>7 DEF Inv

\* Every step keeps the invariant.
LEMMA StepKeeps == ASSUME IInv, [Next]_vars PROVE Inv'
  <1>1. CASE Watcher
    BY <1>1, BeginKeeps, DecideKeeps, ApplyKeeps DEF Watcher
  <1>2. CASE \E w \in Workers : Work(w) \/ \E saved \in BOOLEAN : Fail(w, saved)
    BY <1>2, QueryKeeps, LoadKeeps, SaveKeeps, PrimaryKeeps, FinishKeeps,
             FailKeeps DEF Work
  <1>3. CASE \E kind \in Calls : Call(kind)
    BY <1>3, BeginKeeps
  <1> QED BY <1>1, <1>2, <1>3, RestartKeeps, OtherKeeps DEF Next

LEMMA Step == IInv /\ [Next]_vars => IInv'
  BY StepTyped, StepKeeps DEF IInv

-----------------------------------------------------------------------------
(* The theorems *)

\* Whatever overlaps, fails and restarts, the invariant holds.
THEOREM Invariance == Spec => []IInv
  <1>1. Init => IInv
    BY InitTyped, InitInv DEF IInv
  <1> QED BY <1>1, Step, PTL DEF Spec

\* What two functional sets agree on, protected documents aside, is the same
\* set of chunks of content.
LEMMA AgreedIsEqual ==
  ASSUME NEW X, NEW S, Functional(S), Agree(owned, X, S)
  PROVE  Canonical(X) = Unprotected(S)
  BY DEF Canonical, Unprotected, Functional, Agree

\* Between two polls the JSON store, and Qdrant while no call to it failed,
\* hold of content exactly what the snapshot says (watcher.py _apply_scan,
\* rag_core replace_for_paths), for every set of files, every store, and any
\* number of edits, renames, ownership changes, calls, failures and restarts,
\* unless two operations overlapped, one failed, or the default store dropped
\* a file that was away, and no full rescan has run alone since.
THEOREM SnapshotIsIndexed == Spec => []IndexIsSnapshot
  <1>1. IInv => IndexIsSnapshot
    <2> SUFFICES ASSUME IInv, clean, Busy = {}, snapshot # NoSnapshot
                 PROVE  /\ Canonical(local) = Unprotected(snapshot)
                        /\ qdrant /\ synced => Canonical(primary) = Unprotected(snapshot)
      BY DEF IndexIsSnapshot
    <2>1. \A w \in Workers : ~Live(w)
      BY DEF Busy, Live
    <2>2. Functional(snapshot) /\ Held(owned, local, primary, snapshot, InUse)
      BY <2>1 DEF IInv, Inv, Shapes, Rested
    <2>3. Agree(owned, local, snapshot) /\ (qdrant /\ synced => Agree(owned, primary, snapshot))
      BY <2>2 DEF Held, InUse
    <2> QED BY <2>2, <2>3, AgreedIsEqual
  <1> QED BY <1>1, Invariance, PTL

-----------------------------------------------------------------------------
(* From a conversation to a proposal (KarteConversation) *)

Phases == {"idle", "search", "read", "plan", "receipt", "look", "compare", "write", "missing"}
CallsOver(plans) ==
  [pc : Phases, kind : {"none", "plan", "publish", "status"}, req : Requests \cup {NoDoc},
   reviewed : plans, plan : plans, todo : SUBSET Documents, got : SUBSET (Documents \X Nat),
   failed : BOOLEAN, at : 0 .. 3, old : BOOLEAN]

\* Every plan that is held somewhere was displayed.
Displayed == shown \cup {NoPlan}
ProposalTyped ==
  /\ canon \in [Documents -> Nat]
  /\ NoPlan \notin shown
  /\ outbox \in [Requests -> [States -> Displayed]]
  /\ receipts \in [Requests -> Results \cup {"none"}]
  /\ calls \in [Threads -> CallsOver(Displayed)]

\* What was read so far: one version of a document, none of those to read.
ReadOnce(c) ==
  /\ \A g, h \in c.got : g[1] = h[1] => g = h
  /\ \A g \in c.got : g[1] \notin c.todo

\* A call that still plans, one that publishes or asks, and one that writes.
Prepares(c) ==
  /\ c.pc \in {"search", "read", "plan"} => c.req \in Requests /\ c.kind # "status" /\ ReadOnce(c)
  /\ c.pc = "search" => c.got = {}
  /\ c.kind # "status" => ~c.old
Sends(c) ==
  c.pc \in {"receipt", "look", "compare", "write", "missing"} =>
    /\ c.req \in Requests /\ c.kind \in {"publish", "status"}
    /\ c.kind # "status" => c.plan # NoPlan /\ ~c.plan.consult
Writes(c) == c.pc = "write" => c.kind # "status"

\* Some file lies in this directory or in one that is looked at after it.
Ahead(box, i) == \E j \in i .. 3 : box[Directories[j]] # NoPlan

\* A status that was asked for after the proposal was put up finds it.
Finds(c, box, receipt) ==
  /\ c.pc = "look" => c.at \in 1 .. 3
  /\ c.old => /\ c.pc = "receipt" => receipt # "none" \/ Ahead(box, 1)
              /\ c.pc = "look" => Ahead(box, c.at)
              /\ c.pc # "missing"

CallHolds(c, boxes, results) ==
  Prepares(c) /\ Sends(c) /\ Writes(c) /\ (c.req \in Requests => Finds(c, boxes[c.req], results[c.req]))
CallsHold == \A t \in Threads : CallHolds(calls[t], outbox, receipts)
PInv == ProposalTyped /\ CallsHold /\ SentAsReviewed

\* Files are put up and moved on, never back and never away; receipts stay.
FilesStay ==
  \A r \in Requests : /\ \A i \in 1 .. 3 : Ahead(outbox[r], i) => Ahead(outbox'[r], i)
                      /\ receipts[r] # "none" => receipts'[r] # "none"

LEMMA FindsStays ==
  ASSUME NEW c, NEW boxes, NEW results, NEW boxes1, NEW results1, CallHolds(c, boxes, results),
         \A r \in Requests : /\ \A i \in 1 .. 3 : Ahead(boxes[r], i) => Ahead(boxes1[r], i)
                             /\ results[r] # "none" => results1[r] # "none"
  PROVE  CallHolds(c, boxes1, results1)
  <1>1. ASSUME c.req \in Requests
        PROVE  Finds(c, boxes1[c.req], results1[c.req])
    <2>1. Finds(c, boxes[c.req], results[c.req])
      BY <1>1 DEF CallHolds
    <2>2. Ahead(boxes[c.req], 1) => Ahead(boxes1[c.req], 1)
      BY <1>1
    <2>3. c.at \in 1 .. 3 /\ Ahead(boxes[c.req], c.at) => Ahead(boxes1[c.req], c.at)
      BY <1>1
    <2> QED BY <1>1, <2>1, <2>2, <2>3 DEF Finds
  <1> QED BY <1>1 DEF CallHolds

LEMMA Unchanging == outbox' = outbox /\ receipts' = receipts => FilesStay
  BY DEF FilesStay

LEMMA NoCallTyped ==
  ASSUME NEW plans
  PROVE  /\ NoCall \in CallsOver(plans \cup {NoPlan})
         /\ \A boxes, results : CallHolds(NoCall, boxes, results)
  BY DEF NoCall, CallsOver, Phases, CallHolds, Prepares, Sends, Writes, Finds

\* A step of one call, that keeps the files or moves them on.
LEMMA CallStep ==
  ASSUME PInv, NEW t \in Threads, NEW c, Became(t, c), FilesStay, shown \subseteq shown',
         c \in CallsOver(shown' \cup {NoPlan}), CallHolds(c, outbox', receipts')
  PROVE  /\ calls' \in [Threads -> CallsOver(Displayed')]
         /\ CallsHold'
  <1>1. CallsOver(Displayed) \subseteq CallsOver(Displayed')
    BY DEF CallsOver, Displayed
  <1>2. calls' = [calls EXCEPT ![t] = c] /\ calls \in [Threads -> CallsOver(Displayed)]
    BY DEF Became, PInv, ProposalTyped
  <1>3. calls' \in [Threads -> CallsOver(Displayed')]
    BY <1>1, <1>2 DEF Displayed
  <1>4. ASSUME NEW u \in Threads
        PROVE  CallHolds(calls'[u], outbox', receipts')
    <2>1. CASE u = t
      BY <1>2, <2>1
    <2>2. CASE u # t
      <3>1. calls'[u] = calls[u] /\ CallHolds(calls[u], outbox, receipts)
        BY <1>2, <2>2 DEF PInv, CallsHold
      <3> QED BY <3>1, FindsStays DEF FilesStay
    <2> QED BY <2>1, <2>2
  <1> QED BY <1>3, <1>4 DEF CallsHold

\* A step of one call that touches nothing else.
LEMMA QuietStep ==
  ASSUME PInv, NEW t \in Threads, NEW c, Became(t, c), UNCHANGED <<canon, shown, outbox, receipts>>,
         c \in CallsOver(Displayed), CallHolds(c, outbox, receipts)
  PROVE  PInv'
  <1>1. FilesStay
    BY Unchanging
  <1>2. CallsHold' /\ calls' \in [Threads -> CallsOver(Displayed')]
    BY <1>1, CallStep DEF Displayed
  <1> QED BY <1>2 DEF PInv, ProposalTyped, SentAsReviewed, Displayed

LEMMA ReturnStep ==
  ASSUME PInv, NEW t \in Threads, Return(t), UNCHANGED <<canon, shown, outbox, receipts>>
  PROVE  PInv'
  BY NoCallTyped, QuietStep DEF Return, Displayed

\* The call of a thread and what is known of it.
LEMMA CallOf ==
  ASSUME PInv, NEW t \in Threads
  PROVE  calls[t] \in CallsOver(Displayed) /\ CallHolds(calls[t], outbox, receipts)
  BY DEF PInv, ProposalTyped, CallsHold

-----------------------------------------------------------------------------
(* The exchange *)

LEMMA BeginStep ==
  ASSUME RequestsAssumption, PInv, NEW t \in Threads, NEW kind \in {"plan", "publish"}, NEW r \in Requests,
         NEW reviewed, Begin(t, kind, r, reviewed)
  PROVE  PInv'
  <1> DEFINE pc == CASE Resolution[r] = "create" \/ r \notin Project -> "plan"
                     [] Resolution[r] = "append" /\ r \in Project -> "read"
                     [] OTHER -> "search"
             todo == IF Resolution[r] = "append" /\ r \in Project THEN {Intended[r]} ELSE {}
             c == [NoCall EXCEPT !.kind = kind, !.req = r, !.reviewed = reviewed, !.pc = pc, !.todo = todo]
  <1>1. pc \in {"plan", "read", "search"}
    OBVIOUS
  <1>2. todo \subseteq Documents
    BY DEF RequestsAssumption, ValidRequest
  <1>3. reviewed \in Displayed /\ Became(t, c) /\ UNCHANGED <<canon, shown, outbox, receipts>>
    BY DEF Begin, Displayed
  <1> HIDE DEF pc, todo
  <1>4. c = [NoCall EXCEPT !.kind = kind, !.req = r, !.reviewed = reviewed, !.pc = pc, !.todo = todo]
    OBVIOUS
  <1>5. c \in CallsOver(Displayed)
    <2>1. NoCall \in CallsOver(Displayed)
      BY NoCallTyped DEF Displayed
    <2>2. pc \in Phases /\ todo \in SUBSET Documents /\ kind \in {"none", "plan", "publish", "status"}
      BY <1>1, <1>2 DEF Phases
    <2> QED BY <1>3, <2>1, <2>2 DEF CallsOver
  <1>6. c.pc = pc /\ c.req = r /\ c.kind = kind /\ c.got = {} /\ c.old = FALSE
    BY DEF NoCall
  <1> HIDE DEF c
  <1>7. CallHolds(c, outbox, receipts)
    BY <1>1, <1>6 DEF CallHolds, Prepares, ReadOnce, Sends, Writes, Finds
  <1> QED BY <1>3, <1>5, <1>7, QuietStep

\* A call that goes on with its reading, or to its plan.
LEMMA PreparingStep ==
  ASSUME PInv, NEW t \in Threads, calls[t].pc \in {"search", "read"}, UNCHANGED <<canon, shown, outbox, receipts>>,
         NEW d \in CallsOver(Displayed), Became(t, d), ReadOnce(d),
         d.req = calls[t].req, d.kind = calls[t].kind, d.old = calls[t].old, d.pc \in {"read", "plan"}
  PROVE  PInv'
  <1>1. d.req \in Requests /\ d.kind # "status" /\ ~d.old
    BY CallOf DEF CallHolds, Prepares
  <1>2. CallHolds(d, outbox, receipts)
    BY <1>1 DEF CallHolds, Prepares, Sends, Writes, Finds
  <1> QED BY <1>2, QuietStep

LEMMA SearchStep ==
  ASSUME PInv, NEW t \in Threads, NEW answer, NEW hits \in SUBSET Documents, Searched(t, answer, hits)
  PROVE  PInv'
  <1> DEFINE c == calls[t]
             found == [c EXCEPT !.todo = hits, !.pc = IF hits = {} THEN "plan" ELSE "read"]
             lost == [c EXCEPT !.failed = TRUE, !.pc = "plan"]
  <1>1. c \in CallsOver(Displayed) /\ CallHolds(c, outbox, receipts) /\ c.pc = "search"
    BY CallOf DEF Searched
  <1>2. c.got = {} /\ UNCHANGED <<canon, shown, outbox, receipts>>
    BY <1>1 DEF CallHolds, Prepares, Searched
  <1>3. CASE answer = "ok"
    <2>1. Became(t, found)
      BY <1>3 DEF Searched
    <2>2. found \in CallsOver(Displayed)
      BY <1>1 DEF CallsOver, Phases
    <2>3. found.got = {} /\ found.req = c.req /\ found.kind = c.kind /\ found.old = c.old /\ found.pc \in {"read", "plan"}
      BY <1>1, <1>2 DEF CallsOver
    <2>4. ReadOnce(found)
      BY <2>3 DEF ReadOnce
    <2> QED BY <1>1, <1>2, <2>1, <2>2, <2>3, <2>4, PreparingStep
  <1>4. CASE answer # "ok"
    <2>1. Became(t, lost)
      BY <1>4 DEF Searched
    <2>2. lost \in CallsOver(Displayed)
      BY <1>1 DEF CallsOver, Phases
    <2>3. lost.got = {} /\ lost.req = c.req /\ lost.kind = c.kind /\ lost.old = c.old /\ lost.pc = "plan"
      BY <1>1, <1>2 DEF CallsOver
    <2>4. ReadOnce(lost)
      BY <2>3 DEF ReadOnce
    <2> QED BY <1>1, <1>2, <2>1, <2>2, <2>3, <2>4, PreparingStep
  <1> QED BY <1>3, <1>4

LEMMA ReadStep ==
  ASSUME PInv, NEW t \in Threads, NEW d \in Documents, NEW answer, Read(t, d, answer)
  PROVE  PInv'
  <1> DEFINE c == calls[t]
             rest == c.todo \ {d}
             after == [c EXCEPT !.todo = rest, !.pc = IF rest = {} THEN "plan" ELSE "read"]
             held == [after EXCEPT !.got = @ \cup {<<d, canon[d]>>}]
             late == [after EXCEPT !.failed = TRUE]
             lost == [c EXCEPT !.todo = {}, !.got = {}, !.failed = TRUE, !.pc = "plan"]
  <1>1. c \in CallsOver(Displayed) /\ CallHolds(c, outbox, receipts) /\ c.pc = "read" /\ d \in c.todo
    BY CallOf DEF Read
  <1>2. ReadOnce(c) /\ canon[d] \in Nat
    BY <1>1 DEF CallHolds, Prepares, PInv, ProposalTyped
  <1>3. UNCHANGED <<canon, shown, outbox, receipts>> /\ (Became(t, held) \/ Became(t, late) \/ Became(t, lost))
    BY DEF Read
  <1>4. /\ after \in CallsOver(Displayed) /\ after.todo = rest /\ after.got = c.got
        /\ after.req = c.req /\ after.kind = c.kind /\ after.old = c.old /\ after.pc \in {"read", "plan"}
    BY <1>1 DEF CallsOver, Phases
  <1>5. CASE Became(t, held)
    <2>1. held \in CallsOver(Displayed)
      <3>1. after.got \cup {<<d, canon[d]>>} \in SUBSET (Documents \X Nat)
        <4>1. <<d, canon[d]>> \in Documents \X Nat
          BY <1>2
        <4>2. after.got \in SUBSET (Documents \X Nat)
          BY <1>4 DEF CallsOver
        <4> QED BY <4>1, <4>2
      <3> HIDE DEF after
      <3> QED BY <1>4, <3>1 DEF CallsOver
    <2>2. /\ held.got = c.got \cup {<<d, canon[d]>>} /\ held.todo = c.todo \ {d}
          /\ held.req = c.req /\ held.kind = c.kind /\ held.old = c.old /\ held.pc \in {"read", "plan"}
      BY <1>4 DEF CallsOver
    <2>3. ReadOnce(held)
      BY <1>1, <1>2, <2>2 DEF ReadOnce
    <2> QED BY <1>1, <1>3, <1>5, <2>1, <2>2, <2>3, PreparingStep
  <1>6. CASE Became(t, late)
    <2>1. late \in CallsOver(Displayed)
      BY <1>4 DEF CallsOver
    <2>2. /\ late.got = c.got /\ late.todo = c.todo \ {d}
          /\ late.req = c.req /\ late.kind = c.kind /\ late.old = c.old /\ late.pc \in {"read", "plan"}
      BY <1>4 DEF CallsOver
    <2>3. ReadOnce(late)
      BY <1>2, <2>2 DEF ReadOnce
    <2> QED BY <1>1, <1>3, <1>6, <2>1, <2>2, <2>3, PreparingStep
  <1>7. CASE Became(t, lost)
    <2>1. lost \in CallsOver(Displayed)
      BY <1>1 DEF CallsOver, Phases
    <2>2. lost.got = {} /\ lost.req = c.req /\ lost.kind = c.kind /\ lost.old = c.old /\ lost.pc = "plan"
      BY <1>1 DEF CallsOver
    <2>3. ReadOnce(lost)
      BY <2>2 DEF ReadOnce
    <2> QED BY <1>1, <1>3, <1>7, <2>1, <2>2, <2>3, PreparingStep
  <1> QED BY <1>3, <1>5, <1>6, <1>7

-----------------------------------------------------------------------------
(* The plan and the outbox *)

LEMMA PlanIsPlan ==
  ASSUME NEW r, NEW c
  PROVE  PlanOf(r, c) # NoPlan
  <1>1. "base" \in DOMAIN PlanOf(r, c) /\ DOMAIN NoPlan = {"of"}
    BY DEF PlanOf, NoPlan
  <1> QED BY <1>1

LEMMA PlannedStep ==
  ASSUME PInv, NEW t \in Threads, Planned(t)
  PROVE  PInv'
  <1> DEFINE c == calls[t]
             p == PlanOf(c.req, c)
             d == [c EXCEPT !.plan = p, !.pc = "receipt"]
  <1>1. /\ c \in CallsOver(Displayed) /\ CallHolds(c, outbox, receipts) /\ c.pc = "plan"
        /\ UNCHANGED <<canon, outbox, receipts>>
    BY CallOf DEF Planned
  <1>2. p # NoPlan
    BY PlanIsPlan
  <1> HIDE DEF p
  <1>3. CASE c.kind = "publish" /\ Publishable(c, p)
    <2>1. Became(t, d) /\ shown' = shown
      BY <1>3 DEF Planned, p
    <2>2. p \in Displayed /\ ~p.consult
      BY <1>1, <1>3 DEF Publishable, Reviewed, CallsOver
    <2>3. d \in CallsOver(Displayed)
      BY <1>1, <2>2 DEF CallsOver, Phases
    <2>4. d.plan = p /\ d.pc = "receipt" /\ d.req = c.req /\ d.kind = "publish" /\ d.old = c.old
      BY <1>1, <1>3 DEF CallsOver
    <2>5. c.req \in Requests /\ ~c.old
      BY <1>1, <1>3 DEF CallHolds, Prepares
    <2>6. CallHolds(d, outbox, receipts)
      BY <1>2, <2>2, <2>4, <2>5 DEF CallHolds, Prepares, Sends, Writes, Finds
    <2> QED BY <1>1, <2>1, <2>3, <2>6, QuietStep
  <1>4. CASE ~(c.kind = "publish" /\ Publishable(c, p))
    <2>1. Return(t) /\ (shown' = shown \cup {p} \/ shown' = shown)
      BY <1>4 DEF Planned, p
    <2>2. Became(t, NoCall) /\ FilesStay /\ shown \subseteq shown'
      BY <1>1, <2>1, Unchanging DEF Return
    <2>3. NoCall \in CallsOver(shown' \cup {NoPlan}) /\ CallHolds(NoCall, outbox', receipts')
      BY NoCallTyped
    <2>4. CallsHold' /\ calls' \in [Threads -> CallsOver(Displayed')]
      BY <2>2, <2>3, CallStep
    <2>5. NoPlan \notin shown'
      BY <1>2, <2>1 DEF PInv, ProposalTyped
    <2>6. SentAsReviewed'
      BY <1>1, <2>2 DEF PInv, SentAsReviewed
    <2>7. outbox' \in [Requests -> [States -> Displayed']]
      BY <1>1, <2>2 DEF PInv, ProposalTyped, Displayed
    <2> QED BY <1>1, <2>4, <2>5, <2>6, <2>7 DEF PInv, ProposalTyped
  <1> QED BY <1>3, <1>4

LEMMA StatusStep ==
  ASSUME PInv, NEW t \in Threads, NEW r \in Requests, Status(t, r)
  PROVE  PInv'
  <1> DEFINE c == [NoCall EXCEPT !.kind = "status", !.req = r, !.pc = "receipt", !.old = Published(r)]
  <1>1. Became(t, c) /\ UNCHANGED <<canon, shown, outbox, receipts>>
    BY DEF Status
  <1>2. Published(r) \in BOOLEAN
    BY DEF Published
  <1>3. c \in CallsOver(Displayed)
    BY <1>2, NoCallTyped DEF CallsOver, Displayed, Phases
  <1>4. c.kind = "status" /\ c.req = r /\ c.pc = "receipt" /\ (c.old => Published(r))
    BY DEF NoCall
  <1>5. Published(r) => receipts[r] # "none" \/ Ahead(outbox[r], 1)
    BY DEF Published, Ahead, States, Directories
  <1>6. CallHolds(c, outbox, receipts)
    BY <1>4, <1>5 DEF CallHolds, Prepares, Sends, Writes, Finds
  <1> QED BY <1>1, <1>3, <1>6, QuietStep

LEMMA ReceiptStep ==
  ASSUME PInv, NEW t \in Threads, LookReceipt(t)
  PROVE  PInv'
  <1> DEFINE c == calls[t]
             d == [c EXCEPT !.pc = "look", !.at = 1]
  <1>1. c \in CallsOver(Displayed) /\ CallHolds(c, outbox, receipts) /\ c.pc = "receipt"
    BY CallOf DEF LookReceipt
  <1>2. CASE receipts[c.req] # "none"
    BY <1>2, ReturnStep DEF LookReceipt
  <1>3. CASE receipts[c.req] = "none"
    <2>1. Became(t, d) /\ UNCHANGED <<canon, shown, outbox, receipts>>
      BY <1>3 DEF LookReceipt
    <2>2. d \in CallsOver(Displayed)
      <3>1. "look" \in Phases /\ 1 \in 0 .. 3
        BY DEF Phases
      <3>2. [c EXCEPT !.pc = "look"] \in CallsOver(Displayed)
        BY <1>1, <3>1 DEF CallsOver
      <3>3. d = [[c EXCEPT !.pc = "look"] EXCEPT !.at = 1]
        OBVIOUS
      <3> HIDE DEF d
      <3> QED BY <3>1, <3>2, <3>3 DEF CallsOver
    <2>3. /\ d.pc = "look" /\ d.at = 1 /\ d.req = c.req /\ d.kind = c.kind /\ d.plan = c.plan
          /\ d.old = c.old
      BY <1>1 DEF CallsOver
    <2>4. CallHolds(d, outbox, receipts)
      BY <1>1, <1>3, <2>3 DEF CallHolds, Prepares, Sends, Writes, Finds
    <2> QED BY <2>1, <2>2, <2>4, QuietStep
  <1> QED BY <1>2, <1>3

LEMMA LookStep ==
  ASSUME PInv, NEW t \in Threads, Look(t)
  PROVE  PInv'
  <1> DEFINE c == calls[t]
             found == outbox[c.req][Directories[c.at]] # NoPlan
             compare == [c EXCEPT !.pc = "compare"]
             on == [c EXCEPT !.at = @ + 1]
             next == IF c.kind = "status" THEN "missing" ELSE "write"
             end == [c EXCEPT !.pc = next]
  <1>1. c \in CallsOver(Displayed) /\ CallHolds(c, outbox, receipts) /\ c.pc = "look"
    BY CallOf DEF Look
  <1>2. c.req \in Requests /\ c.at \in 1 .. 3 /\ (c.old => Ahead(outbox[c.req], c.at))
    BY <1>1 DEF CallHolds, Sends, Finds
  <1>3. UNCHANGED <<canon, shown, outbox, receipts>> /\ Len(Directories) = 3
    BY DEF Look, Directories
  <1>4. CASE found /\ c.kind = "status"
    BY <1>3, <1>4, ReturnStep DEF Look
  <1>5. CASE found /\ c.kind = "publish"
    <2>0. Became(t, compare)
      BY <1>5 DEF Look
    <2>1. compare \in CallsOver(Displayed)
      BY <1>1 DEF CallsOver, Phases
    <2>2. /\ compare.pc = "compare" /\ compare.req = c.req /\ compare.kind = c.kind /\ compare.plan = c.plan
          /\ compare.old = c.old
      BY <1>1 DEF CallsOver
    <2>3. CallHolds(compare, outbox, receipts)
      BY <1>1, <2>2 DEF CallHolds, Prepares, Sends, Writes, Finds
    <2> QED BY <1>3, <2>0, <2>1, <2>3, QuietStep
  <1>6. CASE ~found /\ c.at < 3
    <2>1. Became(t, on)
      BY <1>3, <1>6 DEF Look
    <2>2. on \in CallsOver(Displayed)
      BY <1>1, <1>2, <1>6 DEF CallsOver
    <2>3. /\ on.pc = "look" /\ on.req = c.req /\ on.kind = c.kind /\ on.plan = c.plan /\ on.old = c.old
          /\ on.at = c.at + 1
      BY <1>1 DEF CallsOver
    <2>4. c.old => Ahead(outbox[c.req], c.at + 1)
      BY <1>2, <1>6 DEF Ahead
    <2>5. CallHolds(on, outbox, receipts)
      BY <1>1, <1>2, <1>6, <2>3, <2>4 DEF CallHolds, Prepares, Sends, Writes, Finds
    <2> QED BY <1>3, <2>1, <2>2, <2>5, QuietStep
  <1>7. CASE ~found /\ ~(c.at < 3)
    <2>1. Became(t, end)
      BY <1>3, <1>7 DEF Look
    <2>2. end \in CallsOver(Displayed)
      <3>1. next \in Phases
        BY DEF Phases
      <3> HIDE DEF next
      <3> QED BY <1>1, <3>1 DEF CallsOver
    <2>3. /\ end.req = c.req /\ end.kind = c.kind /\ end.plan = c.plan /\ end.old = c.old
          /\ end.pc = next
      <3> HIDE DEF next
      <3> QED BY <1>1 DEF CallsOver
    <2>4. ~c.old
      BY <1>2, <1>7 DEF Ahead
    <2>5. CallHolds(end, outbox, receipts)
      BY <1>1, <1>2, <2>3, <2>4 DEF CallHolds, Prepares, Sends, Writes, Finds
    <2> QED BY <1>3, <2>1, <2>2, <2>5, QuietStep
  <1>8. c.kind \in {"publish", "status"}
    BY <1>1 DEF CallHolds, Sends
  <1> QED BY <1>2, <1>4, <1>5, <1>6, <1>7, <1>8

LEMMA EndStep ==
  ASSUME PInv, NEW t \in Threads, Compare(t) \/ Missing(t)
  PROVE  PInv'
  BY ReturnStep DEF Compare, Missing

\* The replacement of the pending file.
LEMMA WriteStep ==
  ASSUME PInv, NEW t \in Threads, Write(t)
  PROVE  PInv'
  <1> DEFINE c == calls[t]
  <1>1. c \in CallsOver(Displayed) /\ CallHolds(c, outbox, receipts) /\ c.pc = "write"
    BY CallOf DEF Write
  <1>2. c.req \in Requests /\ c.plan # NoPlan /\ ~c.plan.consult /\ c.plan \in shown
    BY <1>1 DEF CallHolds, Sends, Writes, CallsOver, Displayed
  <1>3. Return(t) /\ UNCHANGED <<canon, shown, receipts>>
    BY DEF Write
  <1>4. CASE UNCHANGED outbox
    BY <1>3, <1>4, ReturnStep
  <1>5. CASE outbox' = [outbox EXCEPT ![c.req]["pending"] = c.plan]
    <2>1. outbox \in [Requests -> [States -> Displayed]] /\ "pending" \in States
      BY DEF PInv, ProposalTyped, States
    <2>2. outbox' \in [Requests -> [States -> Displayed]]
      BY <1>2, <1>5, <2>1 DEF Displayed
    <2>3. ASSUME NEW r \in Requests, NEW s \in States
          PROVE  outbox'[r][s] = outbox[r][s] \/ outbox'[r][s] = c.plan
      BY <1>2, <1>5, <2>1
    <2>4. SentAsReviewed'
      BY <1>2, <1>3, <2>3 DEF SentAsReviewed, PInv
    <2>5. \A i \in 1 .. 3 : Directories[i] \in States
      BY DEF Directories, States
    <2>6. FilesStay
      BY <1>2, <1>3, <2>3, <2>5 DEF FilesStay, Ahead
    <2>7. NoCall \in CallsOver(shown' \cup {NoPlan}) /\ CallHolds(NoCall, outbox', receipts')
      BY NoCallTyped
    <2>8. CallsHold' /\ calls' \in [Threads -> CallsOver(Displayed')]
      BY <1>3, <2>6, <2>7, CallStep DEF Return
    <2> QED BY <1>3, <2>2, <2>4, <2>8 DEF PInv, ProposalTyped, Displayed
  <1> QED BY <1>4, <1>5 DEF Write

-----------------------------------------------------------------------------
(* The Karte *)

\* The calls do not move, but the files do.
LEMMA OutsideStep ==
  ASSUME PInv, UNCHANGED calls, FilesStay, UNCHANGED shown
  PROVE  CallsHold' /\ calls' \in [Threads -> CallsOver(Displayed')]
  <1>1. ASSUME NEW t \in Threads
        PROVE  CallHolds(calls[t], outbox', receipts')
    BY CallOf, FindsStays DEF FilesStay
  <1> QED BY <1>1 DEF CallsHold, PInv, ProposalTyped, Displayed

LEMMA TakeStep ==
  ASSUME PInv, NEW r \in Requests, NEW s \in States, Take(r, s)
  PROVE  PInv'
  <1> DEFINE p == outbox[r]["pending"]
  <1>1. outbox \in [Requests -> [States -> Displayed]] /\ "pending" \in States
    BY DEF PInv, ProposalTyped, States
  <1>2. /\ p # NoPlan /\ s # "pending" /\ UNCHANGED <<canon, shown, receipts, calls>>
        /\ outbox' = [outbox EXCEPT ![r]["pending"] = NoPlan, ![r][s] = p]
    BY DEF Take
  <1>3. outbox' \in [Requests -> [States -> Displayed]]
    BY <1>1, <1>2 DEF Displayed
  <1>4. ASSUME NEW q \in Requests, NEW x \in States
        PROVE  outbox'[q][x] = IF q = r /\ x = "pending" THEN NoPlan
                               ELSE IF q = r /\ x = s THEN p ELSE outbox[q][x]
    BY <1>1, <1>2
  <1>5. SentAsReviewed'
    BY <1>1, <1>2, <1>4 DEF SentAsReviewed, PInv
  <1>6. PICK j \in 2 .. 3 : Directories[j] = s
    BY <1>2 DEF Directories, States
  <1>7. \A i \in 1 .. 3 : Directories[i] \in States /\ (Directories[i] = "pending" <=> i = 1)
    BY DEF Directories, States
  <1>8. ASSUME NEW q \in Requests, NEW i \in 1 .. 3, Ahead(outbox[q], i)
        PROVE  Ahead(outbox'[q], i)
    <2>1. PICK k \in i .. 3 : outbox[q][Directories[k]] # NoPlan
      BY <1>8 DEF Ahead
    <2>2. CASE q = r /\ k = 1
      <3>1. i = 1
        BY <2>1, <2>2
      <3>2. outbox'[q][Directories[j]] # NoPlan
        <4>1. outbox'[r][s] = p
          BY <1>2, <1>4
        <4> QED BY <1>2, <1>6, <2>2, <4>1
      <3> QED BY <3>1, <3>2 DEF Ahead
    <2>3. CASE ~(q = r /\ k = 1)
      <3>1. k \in 1 .. 3 /\ Directories[k] \in States /\ (Directories[k] = "pending" <=> k = 1)
        BY <1>7, <2>1
      <3>2. outbox'[q][Directories[k]] # NoPlan
        <4> DEFINE x == Directories[k]
        <4>1. outbox'[q][x] = IF q = r /\ x = "pending" THEN NoPlan
                              ELSE IF q = r /\ x = s THEN p ELSE outbox[q][x]
          BY <1>4, <3>1
        <4>2. ~(q = r /\ x = "pending") /\ outbox[q][x] # NoPlan /\ p # NoPlan
          BY <1>2, <2>1, <2>3, <3>1
        <4> HIDE DEF x, p
        <4>3. outbox'[q][x] # NoPlan
          BY <4>1, <4>2
        <4> QED BY <4>3 DEF x
      <3> QED BY <2>1, <3>2 DEF Ahead
    <2> QED BY <2>2, <2>3
  <1>9. FilesStay
    BY <1>2, <1>8 DEF FilesStay
  <1> QED BY <1>2, <1>3, <1>5, <1>9, OutsideStep DEF PInv, ProposalTyped, Displayed

LEMMA ReceiveStep ==
  ASSUME PInv, NEW r \in Requests, NEW x \in Results, Receive(r, x)
  PROVE  PInv'
  <1>1. receipts' = [receipts EXCEPT ![r] = x] /\ x # "none" /\ UNCHANGED <<canon, shown, outbox, calls>>
    BY DEF Receive, Results
  <1>2. receipts' \in [Requests -> Results \cup {"none"}]
    BY <1>1 DEF PInv, ProposalTyped
  <1>3. FilesStay
    BY <1>1 DEF FilesStay, PInv, ProposalTyped
  <1> QED BY <1>1, <1>2, <1>3, OutsideStep DEF PInv, ProposalTyped, Displayed, SentAsReviewed

LEMMA ChangeStep ==
  ASSUME PInv, NEW d \in Documents, NEW v, Change(d, v)
  PROVE  PInv'
  <1>1. v \in Nat /\ canon' = [canon EXCEPT ![d] = v] /\ UNCHANGED <<shown, outbox, receipts, calls>>
    BY DEF Change, PInv, ProposalTyped
  <1>2. canon' \in [Documents -> Nat] /\ FilesStay
    BY <1>1, Unchanging DEF PInv, ProposalTyped
  <1> QED BY <1>1, <1>2, OutsideStep DEF PInv, ProposalTyped, Displayed, SentAsReviewed

LEMMA ProposalStep ==
  ASSUME RequestsAssumption, ThreadsAssumption, PInv, [ProposalNext]_proposalVars
  PROVE  PInv'
  <1>1. ASSUME NEW t \in Publishers, NEW r \in Requests, NEW p,
               Begin(t, "plan", r, NoPlan) \/ Begin(t, "publish", r, p)
        PROVE  PInv'
    BY <1>1, BeginStep DEF ThreadsAssumption
  <1>2. ASSUME NEW t \in Threads, NEW answer, NEW hits \in SUBSET Documents, Searched(t, answer, hits)
        PROVE  PInv'
    BY <1>2, SearchStep
  <1>3. ASSUME NEW t \in Threads, NEW answer, NEW d \in Documents, Read(t, d, answer)
        PROVE  PInv'
    BY <1>3, ReadStep
  <1>4. ASSUME NEW t \in Threads,
               Planned(t) \/ LookReceipt(t) \/ Look(t) \/ Compare(t) \/ Write(t) \/ Missing(t)
        PROVE  PInv'
    BY <1>4, PlannedStep, ReceiptStep, LookStep, EndStep, WriteStep
  <1>5. CASE UNCHANGED proposalVars
    <2>1. FilesStay /\ UNCHANGED <<canon, shown, outbox, receipts, calls>>
      BY <1>5, Unchanging DEF proposalVars
    <2> QED BY <2>1, OutsideStep DEF PInv, ProposalTyped, Displayed, SentAsReviewed
  <1> QED
    BY <1>1, <1>2, <1>3, <1>4, <1>5, StatusStep, TakeStep, ReceiveStep, ChangeStep DEF ProposalNext

LEMMA ProposalStart == ProposalInit => PInv
  <1> SUFFICES ASSUME ProposalInit PROVE PInv
    OBVIOUS
  <1>1. calls \in [Threads -> CallsOver(Displayed)] /\ CallsHold
    BY NoCallTyped DEF ProposalInit, Displayed, CallsHold
  <1>2. SentAsReviewed
    BY DEF ProposalInit, SentAsReviewed
  <1> QED BY <1>1, <1>2 DEF ProposalInit, PInv, ProposalTyped, Displayed

\* The calls, the outbox and the receipts fit together, however the calls of the
\* threads and the moves of the Karte interleave.
THEOREM ProposalInvariance ==
  ASSUME RequestsAssumption, ThreadsAssumption
  PROVE  ProposalSpec => []PInv
  BY ProposalStart, ProposalStep, PTL DEF ProposalSpec

\* What the outbox holds was displayed, reviewed and needed no consultation.
THEOREM OutboxIsReviewed ==
  ASSUME RequestsAssumption, ThreadsAssumption
  PROVE  ProposalSpec => []SentAsReviewed
  <1>1. PInv => SentAsReviewed
    BY DEF PInv
  <1> QED BY <1>1, ProposalInvariance, PTL

\* Asking for the status of a published proposal never answers "missing".
THEOREM PublishedIsFound ==
  ASSUME RequestsAssumption, ThreadsAssumption
  PROVE  ProposalSpec => []NeverMissing
  <1>1. PInv => NeverMissing
    <2> SUFFICES ASSUME PInv, NEW t \in Threads, calls[t].pc = "missing"
                 PROVE  ~calls[t].old
      BY DEF NeverMissing
    <2> QED BY CallOf DEF CallHolds, Sends, Finds
  <1> QED BY <1>1, ProposalInvariance, PTL

\* A set within three values has at most three elements.
LEMMA WithinThree ==
  ASSUME NEW S, NEW a, NEW b, NEW c, S \subseteq {a, b, c}, S # {}
  PROVE  Cardinality(S) \in 1 .. 3
  <1>1. IsFiniteSet({}) /\ Cardinality({}) = 0
    BY FS_EmptySet
  <1>2. IsFiniteSet({} \cup {a}) /\ Cardinality({} \cup {a}) \in {0, 1}
    BY <1>1, FS_AddElement
  <1>3. IsFiniteSet(({} \cup {a}) \cup {b}) /\ Cardinality(({} \cup {a}) \cup {b}) \in 0 .. 2
    BY <1>2, FS_AddElement
  <1>4. IsFiniteSet((({} \cup {a}) \cup {b}) \cup {c}) /\ Cardinality((({} \cup {a}) \cup {b}) \cup {c}) \in 0 .. 3
    BY <1>3, FS_AddElement
  <1>5. S \subseteq ((({} \cup {a}) \cup {b}) \cup {c})
    OBVIOUS
  <1>6. IsFiniteSet(S) /\ Cardinality(S) <= 3
    BY <1>4, <1>5, FS_Subset, FS_CardinalityType
  <1>7. Cardinality(S) \in Nat /\ Cardinality(S) # 0
    BY <1>6, FS_CardinalityType, FS_EmptySet
  <1> QED BY <1>6, <1>7

LEMMA AtMostOne ==
  ASSUME NEW S, \A x, y \in S : x = y
  PROVE  Cardinality(S) <= 1
  <1>1. CASE S = {}
    BY <1>1, FS_EmptySet
  <1>2. ASSUME NEW x \in S
        PROVE  Cardinality(S) <= 1
    <2>1. S = {x}
      BY <1>2
    <2> QED BY <2>1, FS_Singleton
  <1> QED BY <1>1, <1>2

\* A request has one class or two.
LEMMA ClassesAreFew ==
  ASSUME NEW r
  PROVE  \E a, b : Classes(r) \subseteq {a, b} /\ Classes(r) # {}
  <1> DEFINE first == Top(r, Scored(r))
             others == Scored(r) \ {first}
             confidence == Min({98, 82 + 4 * Signals[r][first]})
             second == Top(r, others)
             less == Min({95, confidence - (IF Signals[r][second] = Signals[r][first] THEN 8 ELSE 20)})
  <1>1. CASE Explicit[r] # NoKind
    BY <1>1 DEF Classes
  <1>2. CASE Explicit[r] = NoKind /\ Scored(r) = {}
    BY <1>2 DEF Classes
  <1>3. CASE Explicit[r] = NoKind /\ Scored(r) # {}
    <2>1. Classes(r) = {<<first, confidence>>} \cup (IF others = {} THEN {} ELSE {<<second, less>>})
      BY <1>3 DEF Classes
    <2> HIDE DEF first, others, confidence, second, less
    <2> QED BY <2>1
  <1> QED BY <1>1, <1>2, <1>3

LEMMA Contract ==
  ASSUME NEW r, NEW c, ReadOnce(c)
  PROVE  MeetsContract(PlanOf(r, c))
  <1> DEFINE p == PlanOf(r, c)
             kind == KindFor(r, c)
  <1>1. PICK a, b : Classes(r) \subseteq {a, b} /\ Classes(r) # {}
    BY ClassesAreFew
  <1>2. /\ p.kind = kind /\ p.places = {k[1] : k \in Placement(r, kind)} /\ p.refs = c.got
        /\ p.base = IF Appends(r, c) THEN Exact(r, c) ELSE {}
    BY DEF PlanOf
  <1> HIDE DEF p, kind
  <1>3. Placement(r, kind) \subseteq {a, b, <<kind, 100>>} /\ Placement(r, kind) # {}
    BY <1>1 DEF Placement
  <1>4. p.places \subseteq {a[1], b[1], kind} /\ p.places # {}
    BY <1>2, <1>3
  <1>5. kind \in p.places
    <2>1. PICK k \in Placement(r, kind) : k[1] = kind
      <3>1. CASE \E k \in Classes(r) : k[1] = kind
        BY <3>1 DEF Placement
      <3>2. CASE ~\E k \in Classes(r) : k[1] = kind
        <4>1. <<kind, 100>> \in Placement(r, kind) /\ <<kind, 100>>[1] = kind
          BY <3>2 DEF Placement
        <4> QED BY <4>1
      <3> QED BY <3>1, <3>2
    <2> QED BY <1>2, <2>1
  <1>6. p.base \subseteq c.got /\ \A g \in p.base : g[1] = Intended[r]
    BY <1>2 DEF Exact, Matches
  <1>7. Cardinality(p.base) <= 1
    BY <1>6, AtMostOne DEF ReadOnce
  <1> QED BY <1>2, <1>4, <1>5, <1>6, <1>7, WithinThree DEF MeetsContract, p

\* Every plan fits the contract of its validators.
THEOREM ContractIsMet ==
  ASSUME RequestsAssumption, ThreadsAssumption
  PROVE  ProposalSpec => []PlansMeetContract
  <1>1. PInv => PlansMeetContract
    <2> SUFFICES ASSUME PInv, NEW t \in Threads, calls[t].pc = "plan"
                 PROVE  MeetsContract(PlanOf(calls[t].req, calls[t]))
      BY DEF PlansMeetContract
    <2> QED BY CallOf, Contract DEF CallHolds, Prepares
  <1> QED BY <1>1, ProposalInvariance, PTL
=============================================================================
