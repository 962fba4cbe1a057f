---------------------------- MODULE ModelRegistry ----------------------------
(***************************************************************************)
(* The local model registry: packages/model_registry.  Every command is a  *)
(* process of its own.  It reads the artifact files and registry.json with *)
(* no lock, and takes the file lock for the one step that changes the      *)
(* registry or the selections; the locked section is one action, since all *)
(* writers take the lock and files are replaced atomically.  `lock' stays  *)
(* taken over several steps only while an inference batch leases the       *)
(* selection (PreferenceEvaluation).                                       *)
(*                                                                         *)
(* A file is its content, so size and digest of a file are its content     *)
(* too; the contents in GGUF pass the header check.                        *)
(***************************************************************************)
EXTENDS Integers

CONSTANTS
  Commands,        \* the processes, each running one command
  Jobs,            \* [Commands -> the command line]
  Roles, ModelPaths,
  GGUF,            \* contents that are complete GGUF files
  Missing,         \* the content of a file that is not there
  NoId,            \* no adapter, no model, no profile
  MaxContext,      \* [profiles -> the context a profile allows]
  AtFirst,         \* [ModelPaths -> content]
  Known,           \* records registered before the behaviour starts
  Chosen,          \* [Roles -> selection] before it starts
  MaxReplaced      \* how often a user overwrites or removes a file

\* Every role has a selection, which may be none.
ChosenAssumption == DOMAIN Chosen = Roles

VARIABLES
  file,      \* [ModelPaths -> content]
  registry,  \* the records of model-registry.local.json
  selected,  \* runtime-selection.local.json; its digest is the revision
  lock,      \* "free" or the holder of the selection lease
  at,        \* [Commands -> step]
  got,       \* [Commands -> what the command has read]
  server,    \* [Roles -> the artifacts llama-server was started with]
  replaced

registryVars == <<file, registry, selected, lock, at, got, server, replaced>>

NoSelection == [model |-> NoId, adapter |-> NoId]
NoServer == [model |-> NoId, adapter |-> NoId, context |-> 0]
Selection(j) == [model |-> j.model, adapter |-> j.adapter]
Models == {r \in registry : r.kind = "model"}
Adapters == {r \in registry : r.kind = "adapter"}

-----------------------------------------------------------------------------
(* Records and files.                                                      *)

\* inspect_artifact: a regular file with a complete GGUF header.
Inspects(path) == file[path] \in GGUF

\* verify: the file is still the one that was registered.
Intact(r) == Inspects(r.path) /\ file[r.path] = r.digest

\* The profile of a model: the one it names, else the one of its own id.
ProfileName(id, named) ==
  IF named # NoId THEN named ELSE IF id \in DOMAIN MaxContext THEN id ELSE NoId

KnownProfile(name) == name = NoId \/ name \in DOMAIN MaxContext

Fits(name, context) == name = NoId \/ context <= MaxContext[name]

\* profile_for_model and the context check of resolve.
ProfileAllows(m) ==
  LET name == ProfileName(m.id, m.profile)
  IN  KnownProfile(name) /\ Fits(name, m.context)

\* resolve: the model and the adapter a selection stands for.
ModelOf(s) == {m \in Models : m.id = s.model /\ ProfileAllows(m)}

AdapterOf(s, m) ==
  {a \in Adapters : a.id = s.adapter /\ a.base = m.id /\ a.baseDigest = m.digest}

Resolved(s) ==
  {pair \in [model : ModelOf(s), adapter : Adapters \cup {[id |-> NoId]}] :
     IF s.adapter = NoId THEN pair.adapter = [id |-> NoId]
     ELSE pair.adapter \in AdapterOf(s, pair.model)}

Verified(pair) ==
  Intact(pair.model) /\ (pair.adapter.id = NoId \/ Intact(pair.adapter))

\* model_overrides: what the gateway is configured with when it reads the selections.
Overrides ==
  [role \in Roles |-> {pair.model.id : pair \in Resolved(selected[role])}]

\* _register: an id keeps its first record for ever; the same one may come again.
Refused_never(r) == FALSE  \* mutant
Refused(r) == \E old \in registry : old.id = r.id /\ old # r

Registered(r) == {old \in registry : old.id # r.id} \cup {r}

-----------------------------------------------------------------------------
(* The commands.                                                           *)

Goes(p, step, what) ==
  /\ at' = [at EXCEPT ![p] = step]
  /\ got' = [got EXCEPT ![p] = what]

Fails(p) == Goes(p, "failed", NoId)

Kept == UNCHANGED <<registry, selected, lock, server, replaced>>

\* import: the file and the profile are examined before the lock is taken.
ImportModel(p) ==
  LET j == Jobs[p]
      name == ProfileName(j.id, j.profile)
      r == [kind |-> "model", id |-> j.id, path |-> j.path,
            digest |-> file[j.path], profile |-> name, context |-> j.context]
  IN  /\ \/ j.op = "import" /\ at[p] = "start"
         \/ j.op = "download" /\ at[p] = "linked"
      /\ IF Inspects(j.path) /\ KnownProfile(name) /\ Fits(name, j.context)
         THEN Goes(p, "inspected", r)
         ELSE Fails(p)
      /\ UNCHANGED file /\ Kept

\* import-adapter: the base must be registered and its file intact.
ImportAdapter(p) ==
  LET j == Jobs[p]
      base == {m \in Models : m.id = j.base /\ Intact(m)}
  IN  /\ j.op = "adapter" /\ at[p] = "start"
      /\ IF base # {} /\ Inspects(j.path)
         THEN \E m \in base :
                Goes(p, "inspected",
                     [kind |-> "adapter", id |-> j.id, path |-> j.path,
                      digest |-> file[j.path], base |-> m.id, baseDigest |-> m.digest])
         ELSE Fails(p)
      /\ UNCHANGED file /\ Kept

Register(p) ==
  /\ at[p] = "inspected" /\ lock = "free"
  /\ IF Refused(got[p]) THEN Fails(p) ELSE Goes(p, "done", NoId)
  /\ registry' = IF Refused(got[p]) THEN registry ELSE Registered(got[p])
  /\ UNCHANGED <<file, selected, lock, server, replaced>>

\* list: what the person who selects sees, the revision with it.
List(p) ==
  /\ Jobs[p].op = "select" /\ at[p] = "start" /\ lock = "free"
  /\ Goes(p, "listed", selected)
  /\ UNCHANGED file /\ Kept

\* check, and the first half of select: no lock is held.
Check(p) ==
  LET s == Selection(Jobs[p])
  IN  /\ \/ Jobs[p].op = "select" /\ at[p] = "listed"
         \/ Jobs[p].op = "check" /\ at[p] = "start"
      /\ IF s = NoSelection \/ \E pair \in Resolved(s) : Verified(pair)
         THEN Goes(p, IF Jobs[p].op = "check" THEN "done" ELSE "checked", got[p])
         ELSE Fails(p)
      /\ UNCHANGED file /\ Kept

\* select: refused when the selections are no longer those that were listed.
Current(p) == selected = got[p]

Select(p) ==
  /\ at[p] = "checked" /\ lock = "free"
  /\ IF Current(p)
     THEN /\ selected' = [selected EXCEPT ![Jobs[p].role] = Selection(Jobs[p])]
          /\ Goes(p, "done", NoId)
     ELSE UNCHANGED selected /\ Fails(p)
  /\ UNCHANGED <<file, registry, lock, server, replaced>>

\* plan_download: neither the id nor the destination may exist.
PlanDownload(p) ==
  /\ Jobs[p].op = "download" /\ at[p] = "start"
  /\ IF file[Jobs[p].path] = Missing /\ ~\E r \in registry : r.id = Jobs[p].id
     THEN Goes(p, "planned", NoId)
     ELSE Fails(p)
  /\ UNCHANGED file /\ Kept

\* The temporary file is checked against what was declared, then linked: a file
\* that came to be in the meantime is never overwritten.
Download(p) ==
  /\ at[p] = "planned"
  /\ \E c \in GGUF \cup {Missing} :
       IF c = Jobs[p].digest /\ file[Jobs[p].path] = Missing
       THEN file' = [file EXCEPT ![Jobs[p].path] = c] /\ Goes(p, "linked", NoId)
       ELSE UNCHANGED file /\ Fails(p)
  /\ Kept

\* launch: the command line the server is started with.  A role without a
\* selection falls back to the default file, if it is there.
LaunchCommand(role) ==
  {[model |-> pair.model.path, context |-> pair.model.context,
    adapter |-> IF pair.adapter.id = NoId THEN NoId ELSE pair.adapter.path] :
     pair \in {q \in Resolved(selected[role]) : Verified(q)}}

Launch(p) ==
  LET role == Jobs[p].role
  IN  /\ Jobs[p].op = "launch" /\ at[p] = "start"
      /\ IF selected[role] = NoSelection
         THEN \/ server' = [server EXCEPT ![role] = NoServer] /\ Goes(p, "done", NoId)
              \/ UNCHANGED server /\ Fails(p)
         ELSE \/ /\ LaunchCommand(role) = {}
                 /\ UNCHANGED server /\ Fails(p)
              \/ /\ \E c \in LaunchCommand(role) : server' = [server EXCEPT ![role] = c]
                 /\ Goes(p, "done", NoId)
      /\ UNCHANGED <<file, registry, selected, lock, replaced>>

\* A user overwrites or removes a file.
Replace(path) ==
  /\ replaced < MaxReplaced
  /\ replaced' = replaced + 1
  /\ \E c \in GGUF \cup {Missing} : file' = [file EXCEPT ![path] = c]
  /\ file' # file
  /\ UNCHANGED <<registry, selected, lock, at, got, server>>

-----------------------------------------------------------------------------
Init ==
  /\ file = AtFirst
  /\ registry = Known
  /\ selected = Chosen
  /\ lock = "free"
  /\ at = [p \in Commands |-> "start"]
  /\ got = [p \in Commands |-> NoId]
  /\ server = [role \in Roles |-> NoServer]
  /\ replaced = 0

Step(p) ==
  \/ ImportModel(p) \/ ImportAdapter(p) \/ Register(p)
  \/ List(p) \/ Check(p) \/ Select(p)
  \/ PlanDownload(p) \/ Download(p)
  \/ Launch(p)

Next == \/ \E p \in Commands : Step(p)
        \/ \E path \in ModelPaths : Replace(path)

Spec == Init /\ [][Next]_registryVars

-----------------------------------------------------------------------------
\* What is selected can be resolved at any later time: the model is registered
\* and within its profile, the adapter is for that very base.  Selections are
\* examined before the lock is taken, so this rests on records that never change
\* (packages/model_registry/service.py:311, 353).
SelectionResolves ==
  \A role \in Roles : selected[role] = NoSelection \/ Resolved(selected[role]) # {}

=============================================================================
