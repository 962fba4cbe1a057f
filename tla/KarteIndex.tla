----------------------------- MODULE KarteIndex -----------------------------
(***************************************************************************)
(* The index of the Karte's documents (packages/karte_core: source,        *)
(* watcher, protected; packages/rag_core: service, vector_store, store).   *)
(* A watcher scans the canonical Markdown, compares with its snapshot and  *)
(* replaces what changed.  Other callers rescan, index, search or ingest   *)
(* meanwhile without a lock: a replacement loads the whole store and saves *)
(* it again.                                                               *)
(*                                                                         *)
(* Abstracted: a document is one chunk; a scan is one step; a version of a *)
(* file stands for its hash; times are a flag that the debounce is over;   *)
(* a load drops and saves in one step (two calls that overlap count as     *)
(* such); a search that raises did what one that answers did, or less.     *)
(***************************************************************************)
EXTENDS Integers, FiniteSets

CONSTANTS
  Docs,        \* doc_ids
  Paths,       \* Markdown files below content
  Issues,      \* what may be wrong with a file
  Managed,     \* path of a copy that ingest makes
  Stores,      \* the stores to begin with
  MaxVersion,  \* bound: versions of a document
  MaxEdits,    \* bound: changes of the files
  MaxJobs,     \* bound: operations of the other callers
  MaxFailures  \* bound: operations that raise

VARIABLES
  content,   \* path -> file
  owned,     \* documents that Karte v2 took over
  store,     \* a local JSON file, the default one, or a Qdrant over it
  local,     \* the JSON store
  primary,   \* the Qdrant collection
  snapshot,  \* of the watcher: a set of documents, or NoSnapshot
  pending,   \* scan that waits for the debounce
  aged,      \* the debounce of `pending` is over
  running,   \* the watch loop runs
  jobs,      \* worker -> its operation
  clean,     \* no overlap, failure or file that was away since the last rescan
  synced,    \* and no failed call to Qdrant
  edits, begun, failures

files == <<content, owned, store, edits>>
watch == <<snapshot, pending, aged, running>>
vars == <<files, watch, local, primary, jobs, clean, synced, begun, failures>>

Workers == {"watcher", "caller"}
KnownIssues == {"policy_reader_required", "broken_symlink", "symlink_escape", "not_regular_file",
                "invalid_utf8", "read_failed", "invalid_frontmatter"}
KnownStores == {"local", "default", "qdrant"}
ASSUME StoresAssumption == Stores \subseteq KnownStores
ASSUME IssuesAssumption == Issues \subseteq KnownIssues
\* "none" stands for no document, and ingest copies to a place outside content.
ASSUME NamesAssumption == "none" \notin Docs /\ Managed \notin Paths
NoFile == [doc |-> "none", ver |-> 0]
Files == [doc : Docs, ver : 1 .. MaxVersion] \cup [doc : Issues, ver : {1}] \cup {NoFile}
NoSnapshot == {[path |-> "none", doc |-> "none", ver |-> 0]}
NoJob == [pc |-> "idle", kind |-> "none", scan |-> {}, put |-> {}, paths |-> {}, loaded |-> {}, alone |-> TRUE]

Init ==
  /\ content = [p \in Paths |-> NoFile]
  /\ owned = {} /\ store \in Stores
  /\ local = {} /\ primary = {}
  /\ snapshot = NoSnapshot /\ pending = NoSnapshot /\ aged = FALSE /\ running = TRUE
  /\ jobs = [w \in Workers |-> NoJob]
  /\ clean = TRUE /\ synced = TRUE
  /\ edits = 0 /\ begun = 0 /\ failures = 0

----------------------------------------------------------------------------
(* The source                                                              *)

\* _read_candidate: a document, or an issue.
Readable(p) == content[p].doc \in Docs \ owned
Document(p) == [path |-> p, doc |-> content[p].doc, ver |-> content[p].ver]

\* scan: a doc_id that more than one file has is an issue for all of them.
Scan ==
  {Document(p) : p \in {p \in Paths : Readable(p) /\
                          \A q \in Paths : content[q].doc = content[p].doc => q = p}}

----------------------------------------------------------------------------
(* The store                                                               *)

\* protected_chunk, which load and save apply.
Unprotected(chunks) == {k \in chunks : k.doc \notin owned}

\* The default store drops chunks whose file is gone.
prune == store = "default"
qdrant == store = "qdrant"

Exists(k) == k.path = Managed \/ content[k.path] # NoFile
Load(chunks) == {k \in Unprotected(chunks) : prune => Exists(k)}

\* replace_for_paths: a path of content is a file or the whole root.
Below(chunks, paths) == {k \in chunks : k.path \in paths}
Put(chunks, put) == chunks \cup Unprotected(put)
Replaced(chunks, paths, put) == Put(chunks \ Below(chunks, paths), put)

----------------------------------------------------------------------------
(* Operations                                                              *)

Busy == {w \in Workers : jobs[w].pc # "idle"}
\* A new operation and those that run are not alone any more.
Joined(w, job) ==
  [v \in Workers |-> IF v = w THEN [job EXCEPT !.alone = Busy = {}]
                     ELSE [jobs[v] EXCEPT !.alone = @ /\ v \notin Busy]]

Rescan == [NoJob EXCEPT !.pc = "embed", !.kind = "rescan", !.scan = Scan, !.put = Scan, !.paths = Paths]

Index == [Rescan EXCEPT !.pc = "query", !.kind = "index"]
Search == [NoJob EXCEPT !.pc = "query", !.kind = "search"]
Ingest == [NoJob EXCEPT !.pc = "embed", !.kind = "ingest", !.paths = {Managed},
                        !.put = {[path |-> Managed, doc |-> Managed, ver |-> 1]}]

\* poll_once up to the lock.
Poll ==
  /\ running /\ jobs["watcher"].pc = "idle"
  /\ jobs' = Joined("watcher", IF snapshot = NoSnapshot THEN Rescan
                               ELSE [NoJob EXCEPT !.pc = "decide", !.kind = "poll", !.scan = Scan])
  /\ UNCHANGED <<files, watch, local, primary, clean, synced, begun, failures>>

Finished(w) == jobs' = [jobs EXCEPT ![w] = NoJob]

Settled_never(scan) == FALSE  \* mutant
Settled(scan) == pending = scan /\ aged

\* Under the lock: nothing changed, the debounce goes on, or it is over.
DecidePoll ==
  LET scan == jobs["watcher"].scan IN
  /\ jobs["watcher"].pc = "decide"
  /\ IF scan = snapshot
     THEN Finished("watcher") /\ pending' = NoSnapshot /\ aged' = FALSE
     ELSE IF Settled(scan)
          THEN jobs' = [jobs EXCEPT !["watcher"].pc = "apply"] /\ UNCHANGED <<pending, aged>>
          ELSE /\ Finished("watcher")
               /\ pending' = scan
               /\ aged' = (aged /\ pending = scan)
  /\ UNCHANGED <<files, local, primary, snapshot, running, clean, synced, begun, failures>>

Age ==
  /\ pending # NoSnapshot /\ ~aged
  /\ aged' = TRUE
  /\ UNCHANGED <<files, local, primary, snapshot, pending, running, jobs, clean, synced, begun, failures>>

\* The paths that an update, rename, creation or deletion replaces.
Touched_new(previous, current) ==  \* mutant
  {k.path : k \in current \ previous} \cup
  {k.path : k \in {x \in previous : \A y \in current : y.doc # x.doc}}
Touched(previous, current) == {k.path : k \in (previous \ current) \cup (current \ previous)}

\* _apply_scan: what changed since the snapshot.
ApplyScan ==
  /\ jobs["watcher"].pc = "apply"
  /\ jobs' = LET previous == snapshot \ NoSnapshot
                 current == jobs["watcher"].scan
             IN [jobs EXCEPT !["watcher"].put = current \ previous,
                             !["watcher"].paths = Touched(previous, current),
                             !["watcher"].pc = "embed"]
  /\ UNCHANGED <<files, watch, local, primary, clean, synced, begun, failures>>

Calls == {"rescan", "index", "search", "ingest"}

\* Another caller: full_rescan, ingest_karte, a search, or ingest of a file
\* elsewhere, whose copy is replaced first.
Call(kind) ==
  /\ begun < MaxJobs    \* bound
  /\ jobs["caller"].pc = "idle"
  /\ begun' = begun + 1
  /\ jobs' = Joined("caller",
       CASE kind = "rescan" -> Rescan [] kind = "index" -> Index
         [] kind = "search" -> Search [] OTHER -> Ingest)
  /\ UNCHANGED <<files, watch, local, primary, clean, synced, failures>>

\* search and load_chunks of Qdrant, or of the local store without it or after
\* an error: what was taken over, and comes up, is deleted from the one, and
\* the other is saved without it.
Query(w, gone) ==
  /\ jobs[w].pc = "query"
  /\ gone \subseteq primary \ Unprotected(primary)
  /\ primary' = primary \ gone
  /\ local' \in {local, Unprotected(local)}
  /\ jobs' = [jobs EXCEPT ![w].pc = IF jobs[w].kind = "search" THEN "finish" ELSE "embed"]
  /\ UNCHANGED <<files, watch, clean, synced, begun, failures>>

\* sync_karte_documents: chunks and embeddings are ready; replace_for_paths of
\* the local store loads it.
LoadStore(w) ==
  /\ jobs[w].pc = "embed"
  /\ jobs' = [jobs EXCEPT ![w].loaded = Load(local), ![w].pc = "save"]
  /\ local' = Unprotected(local)
  /\ clean' = (clean /\ \A k \in Unprotected(local) \ Load(local) : k.path \in jobs[w].paths)
  /\ UNCHANGED <<files, watch, primary, synced, begun, failures>>

\* save: the file is replaced as a whole, without what is taken over by now.
Saved(w) == Unprotected(Replaced(jobs[w].loaded, jobs[w].paths, jobs[w].put))

SaveStore(w) ==
  /\ jobs[w].pc = "save"
  /\ local' = Saved(w)
  /\ jobs' = [jobs EXCEPT ![w].pc = IF qdrant THEN "primary" ELSE "finish"]
  /\ UNCHANGED <<files, watch, primary, clean, synced, begun, failures>>

Outcomes == {"all", "deleted", "none"}

\* Qdrant: points below the paths are found and deleted, new ones are put.  An
\* error after any of the calls leaves it at that.
SavePrimary(w, done) ==
  /\ jobs[w].pc = "primary"
  /\ primary' = CASE done = "all" -> Replaced(primary, jobs[w].paths, jobs[w].put)
                  [] done = "deleted" -> primary \ Below(primary, jobs[w].paths)
                  [] OTHER -> primary
  /\ synced' = (done = "all" /\ (synced \/ jobs[w].kind = "rescan"))
  /\ jobs' = [jobs EXCEPT ![w].pc = "finish"]
  /\ UNCHANGED <<files, watch, local, clean, begun, failures>>

\* The end under the lock: the scan is the snapshot.
Finish(w) ==
  /\ jobs[w].pc = "finish"
  /\ IF jobs[w].kind \in {"rescan", "poll"}
     THEN snapshot' = jobs[w].scan /\ pending' = NoSnapshot /\ aged' = FALSE
     ELSE UNCHANGED <<snapshot, pending, aged>>
  /\ clean' = (jobs[w].alone /\ jobs[w].kind # "index" /\ (clean \/ jobs[w].kind = "rescan"))
  /\ Finished(w)
  /\ UNCHANGED <<files, running, local, primary, synced, begun, failures>>

\* The embedding, the store or the scan raises, before the store is replaced
\* or right after it: the loop of the watcher ends with last_error.
Fail(w, saved) ==
  /\ jobs[w].pc \in {"decide", "apply", "embed", "save"} /\ failures < MaxFailures    \* bound
  /\ saved => jobs[w].pc = "save"
  /\ local' = IF saved THEN Saved(w) ELSE local
  /\ clean' = FALSE
  /\ running' = (running /\ w # "watcher")
  /\ failures' = failures + 1
  /\ Finished(w)
  /\ UNCHANGED <<files, snapshot, pending, aged, primary, synced, begun>>

\* start: the loop begins again with the snapshot it has.
Start ==
  /\ ~running
  /\ running' = TRUE
  /\ UNCHANGED <<files, snapshot, pending, aged, local, primary, jobs, clean, synced, begun, failures>>

\* The process ends and another one watches.
Restart ==
  /\ failures < MaxFailures    \* bound
  /\ failures' = failures + 1
  /\ snapshot' = NoSnapshot /\ pending' = NoSnapshot /\ aged' = FALSE /\ running' = TRUE
  /\ jobs' = [jobs EXCEPT !["watcher"] = NoJob]
  /\ clean' = (clean /\ jobs["watcher"].pc = "idle")
  /\ UNCHANGED <<files, local, primary, synced, begun>>

----------------------------------------------------------------------------
(* The user and the Karte                                                  *)

Edit(p, f) ==
  /\ edits < MaxEdits    \* bound
  /\ content[p] # f
  /\ content' = [content EXCEPT ![p] = f]
  /\ edits' = edits + 1
  /\ UNCHANGED <<owned, store, watch, local, primary, jobs, clean, synced, begun, failures>>

Rename(p, q) ==
  /\ edits < MaxEdits    \* bound
  /\ p # q /\ content[p] # content[q]
  /\ content' = [content EXCEPT ![p] = content[q], ![q] = content[p]]
  /\ edits' = edits + 1
  /\ UNCHANGED <<owned, store, watch, local, primary, jobs, clean, synced, begun, failures>>

Own(d) ==
  /\ edits < MaxEdits    \* bound
  /\ d \notin owned /\ owned' = owned \cup {d}
  /\ edits' = edits + 1
  /\ UNCHANGED <<content, store, watch, local, primary, jobs, clean, synced, begun, failures>>

Watcher == Poll \/ DecidePoll \/ ApplyScan

Work(w) ==
  \/ LoadStore(w) \/ SaveStore(w) \/ Finish(w)
  \/ \E done \in Outcomes : SavePrimary(w, done)
  \/ \E gone \in SUBSET primary : Query(w, gone)

Next ==
  \/ Watcher \/ Age \/ Start \/ Restart
  \/ \E w \in Workers : Work(w) \/ \E saved \in BOOLEAN : Fail(w, saved)
  \/ \E kind \in Calls : Call(kind)
  \/ \E p \in Paths, f \in Files : Edit(p, f)
  \/ \E p, q \in Paths : Rename(p, q)
  \/ \E d \in Docs : Own(d)

Spec == Init /\ [][Next]_vars

\* The loop polls again and again, the clock goes on, what runs comes back.
Fairness == WF_vars(Watcher) /\ WF_vars(Age) /\ \A w \in Workers : WF_vars(Work(w))
FairSpec == Spec /\ Fairness

----------------------------------------------------------------------------
(* Properties                                                              *)

Canonical(chunks) == {k \in Unprotected(chunks) : k.path \in Paths}

\* Between two polls the store holds what the snapshot says and what was
\* ingested, and so does Qdrant while none of its calls failed: the poll
\* replaces the old and the new place of whatever it found changed.  An
\* overlap of two operations, a failure, or a file that was away while the
\* default store was loaded breaks this until the next rescan.
IndexIsSnapshot ==
  clean /\ Busy = {} /\ snapshot # NoSnapshot =>
    /\ Canonical(local) = Unprotected(snapshot)
    /\ qdrant /\ synced => Canonical(primary) = Unprotected(snapshot)

\* Once the files rest, the store has exactly what a scan finds, unless one of
\* these or a stopped loop stands in the way.
IndexCatchesUp ==
  <>[](~clean \/ ~running \/ Canonical(local) = Scan)
=============================================================================
