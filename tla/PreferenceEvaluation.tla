------------------------- MODULE PreferenceEvaluation -------------------------
(***************************************************************************)
(* The A/B evaluation of packages/eval_core: sessions over a dataset,      *)
(* generation of blind pairs, votes and their corrections, the result of a *)
(* comparison and the export for training; and what it needs of the model  *)
(* registry, which other processes change meanwhile.                       *)
(*                                                                         *)
(* The gateway runs every request on one event loop: between two awaits    *)
(* nothing else of it runs.  A batch holds two locks: the asyncio lock of  *)
(* its PreferenceService, which a reload replaces with the service, and    *)
(* the file lock of the registry, for which the whole loop waits.  One     *)
(* session is followed; a response is "a" or "b", as it was generated; a   *)
(* vote for neither is a tie or a skip.                                    *)
(***************************************************************************)
EXTENDS Integers, Sequences, FiniteSets

CONSTANTS
  Commands, Jobs, Roles, ModelPaths, GGUF, Missing, NoId, MaxContext, AtFirst, Known,
  Chosen, MaxReplaced,
  Calls,       \* calls of generate
  Limit,       \* [Calls -> pairs it asks for]
  Reviewers, Exports,
  Format,      \* [Exports -> "dpo" or "sft"]
  Datasets,    \* [place, scenarios]
  Modes, Target, Role,
  Orders,      \* display orders that are drawn
  Outcomes,    \* [again, same]: a pair took all its attempts, and still is a duplicate
  OtherBatches, \* whether the command line generates too
  MaxVotes, MaxReloads, MaxCrashes

EvaluationAssumption ==
  /\ Target \in Nat \ {0} /\ Role \in Roles
  /\ \A d \in Datasets : d.scenarios \in Seq({d.scenarios[n] : n \in DOMAIN d.scenarios})
  /\ Orders \subseteq {"ab", "ba"} /\ Format \in [Exports -> {"dpo", "sft"}]

VARIABLES
  file, registry, selected, lock, at, got, server, replaced,
  session,   \* NoSession or [mode, scenarios]
  pairs,     \* [generation indexes -> pair]
  votes,     \* [generation indexes -> the votes in order; a vote's place is its id]
  call,      \* [Calls -> [pc, service, next, until, arts, revision]]
  services,  \* the model each PreferenceService of the gateway was loaded with
  seen,      \* [Reviewers -> the pair in front of them and their own last vote]
  told,      \* what the last answer said of the comparison
  exporting, \* [Exports -> [pc, records]]
  exported,  \* the destination: NoExport or the records of the file
  crashes

M == INSTANCE ModelRegistry

registryVars == <<file, registry, selected, lock, at, got, server, replaced>>
others == <<file, registry, selected, at, got, server, replaced>>
evalVars == <<session, pairs, votes, call, services, seen, told, exporting, exported, crashes>>
vars == <<registryVars, evalVars>>

NoSession == [mode |-> "none", scenarios |-> <<>>]
NoArtifacts == [model |-> NoId, adapter |-> NoId]
Idle == [pc |-> "idle", service |-> 0, next |-> 0, until |-> 0,
         arts |-> NoArtifacts, revision |-> Chosen]
NoPair == [pair |-> -1, vote |-> 0, left |-> "a", right |-> "b"]
NoExport == [format |-> "none", records |-> {}]
Comparisons == {"prompt_v1_v2", "prompt_v2_v3", "base_vs_adapter"}

Blocked == \E c \in Calls : call[c].pc = "flock"

-----------------------------------------------------------------------------
(* Sessions.                                                               *)

\* _load_dataset: where it lies decides what it may contain.
Loads(d) ==
  /\ d.place \in {"configs", "data"}
  /\ \A s, t \in DOMAIN d.scenarios :
       d.scenarios[s].id = d.scenarios[t].id => s = t
  /\ \A s \in DOMAIN d.scenarios : d.scenarios[s].storage
  /\ d.place = "configs" => \A s \in DOMAIN d.scenarios : d.scenarios[s].synthetic

\* _current_artifacts: what the registry selects for the role now.
Artifacts == {[model |-> q.model.id, adapter |-> q.adapter.id] : q \in M!Resolved(selected[Role])}

\* A comparison of base and adapter never touches what may be trained on.
Usable(mode, scenarios) ==
  {n \in DOMAIN scenarios : mode = "base_vs_adapter" => scenarios[n].split # "train"}

\* The one way to go through a set of places in order.
InOrder(places) ==
  {f \in [1 .. Cardinality(places) -> places] : \A k, l \in DOMAIN f : k < l => f[k] < f[l]}

Opens(mode, scenarios) ==
  mode = "base_vs_adapter" =>
    /\ \E a \in Artifacts : a.adapter # NoId
    /\ Target <= Cardinality(Usable(mode, scenarios))

CreateSession ==
  /\ session = NoSession /\ ~Blocked
  /\ \E mode \in Modes, d \in Datasets :
       /\ Loads(d) /\ Opens(mode, d.scenarios)
       /\ \E f \in InOrder(Usable(mode, d.scenarios)) :
            session' = [mode |-> mode, scenarios |-> [k \in DOMAIN f |-> d.scenarios[f[k]]]]
  /\ UNCHANGED <<registryVars, pairs, votes, call, services, seen, told, exporting,
                 exported, crashes>>

ScenarioOf(i) == session.scenarios[(i % Len(session.scenarios)) + 1]

-----------------------------------------------------------------------------
(* Generation.                                                             *)

CallKept == UNCHANGED <<others, session, services, seen, told, exporting, exported, crashes>>

Call(c) ==
  /\ call[c].pc = "idle" /\ session # NoSession /\ ~Blocked
  /\ call' = [call EXCEPT ![c].pc = "waits", ![c].service = Len(services)]
  /\ UNCHANGED <<lock, pairs, votes>> /\ CallKept

\* The asyncio lock is the service's own.
ServiceFree(c) ==
  \A o \in Calls : call[o].service = call[c].service => call[o].pc \notin {"flock", "batch", "asks"}

\* The file lock is waited for on the event loop.
EnterService(c) ==
  /\ call[c].pc = "waits" /\ ServiceFree(c) /\ ~Blocked
  /\ call' = [call EXCEPT ![c].pc = "flock"]
  /\ UNCHANGED <<lock, pairs, votes>> /\ CallKept

Consistent_any(arts) == TRUE  \* mutant

\* _ensure_adapter_session_consistency, over all pairs of the session.
Consistent(arts) ==
  \A i \in DOMAIN pairs :
    /\ pairs[i].model = arts.model
    /\ pairs[i].adapterA = NoId
    /\ pairs[i].adapterB = arts.adapter

MayGenerate(arts) ==
  session.mode = "base_vs_adapter" => arts.adapter # NoId /\ Consistent(arts)

Least(x, y) == IF x <= y THEN x ELSE y

Quota(c) ==
  Least(Limit[c], IF Cardinality(DOMAIN pairs) >= Target THEN 0
                  ELSE Target - Cardinality(DOMAIN pairs))

Ends(c, pc) ==
  /\ call' = [call EXCEPT ![c] = [Idle EXCEPT !.pc = pc]]
  /\ lock' = "free"

\* selection_lease is taken; up to the first await nothing else runs.
TakeLease(c) ==
  /\ call[c].pc = "flock" /\ lock = "free"
  /\ LET existing == Cardinality(DOMAIN pairs)
     IN  IF \E arts \in Artifacts \cup {NoArtifacts} :
              (session.mode = "base_vs_adapter" => arts \in Artifacts) /\ MayGenerate(arts)
         THEN /\ lock' = "gateway"
              /\ call' = [call EXCEPT ![c] =
                   [@ EXCEPT !.pc = "batch", !.next = existing,
                             !.until = existing + Quota(c), !.revision = selected]]
         ELSE Ends(c, "failed")
  /\ UNCHANGED <<pairs, votes>> /\ CallKept

\* _route_request: the gateway must still be configured with the selected model.
Routed(c, arts) == services[call[c].service] = arts.model

\* The selected adapter is the one llama-server runs with.
Loaded(arts) ==
  \E a \in M!Adapters : a.id = arts.adapter /\ server[Role].adapter = a.path

\* What a pair needs before its first request, of the artifacts of this moment.
Ready(c, arts) ==
  /\ Routed(c, arts)
  /\ session.mode = "base_vs_adapter" => arts.adapter # NoId /\ Loaded(arts)

StartPair(c) ==
  /\ call[c].pc = "batch" /\ call[c].next < call[c].until /\ ~Blocked
  /\ \/ /\ \E arts \in Artifacts :
             /\ Ready(c, arts)
             /\ call' = [call EXCEPT ![c].pc = "asks", ![c].arts = arts]
        /\ UNCHANGED lock
     \/ /\ ~\E arts \in Artifacts : Ready(c, arts)
        /\ Ends(c, "failed")
  /\ UNCHANGED <<pairs, votes>> /\ CallKept

\* Every index has four seeds of its own.
Seed(i, offset) == i * 4 + offset

\* Responses that are the same after normalisation are generated again.
SamePrompt(i, k) == [seedA |-> Seed(i, 0), seedB |-> Seed(i, k + 1)]
SharedSeed(i, k) == [seedA |-> Seed(i, k), seedB |-> Seed(i, k)]
LastAttempt == IF session.mode = "same_prompt" THEN 2 ELSE 3
Seeds(i, k) == IF session.mode = "same_prompt" THEN SamePrompt(i, k) ELSE SharedSeed(i, k)

\* _candidate_spec: the base is generated with the adapter scaled to nothing.
Candidates(arts) ==
  [model |-> arts.model,
   adapterA |-> IF session.mode = "base_vs_adapter" THEN NoId ELSE arts.adapter,
   adapterB |-> arts.adapter]

\* The pair of _generate_pair, after k attempts that gave the same response.
NewPair(i, c, o, order) ==
  LET who   == Candidates(call[c].arts)
      seeds == Seeds(i, IF o.again THEN LastAttempt ELSE 0)
  IN  [model |-> who.model, adapterA |-> who.adapterA, adapterB |-> who.adapterB,
       seedA |-> seeds.seedA, seedB |-> seeds.seedB, order |-> order,
       status |-> IF o.same THEN "duplicate_generation" ELSE "pending"]

\* add_pair: one index, one pair.
Extend(f, i, x) == [j \in DOMAIN f \cup {i} |-> IF j = i THEN x ELSE f[j]]
AddPair(i, p) == pairs' = Extend(pairs, i, p) /\ votes' = Extend(votes, i, <<>>)

\* The answers have come, or llama-server or a condition of the prompts failed.
EndPair(c) ==
  LET i == call[c].next
  IN  /\ call[c].pc = "asks" /\ ~Blocked
      /\ \/ /\ i \notin DOMAIN pairs
            /\ \E o \in Outcomes, order \in Orders : AddPair(i, NewPair(i, c, o, order))
            /\ call' = [call EXCEPT ![c].pc = "batch", ![c].next = i + 1,
                                    ![c].arts = NoArtifacts]
            /\ UNCHANGED lock
         \/ Ends(c, "failed") /\ UNCHANGED <<pairs, votes>>
      /\ CallKept

\* The lease ends; a selection changed past the lock is reported.
EndBatch(c) ==
  /\ call[c].pc = "batch" /\ call[c].next = call[c].until /\ ~Blocked
  /\ Ends(c, IF selected = call[c].revision THEN "done" ELSE "failed")
  /\ UNCHANGED <<pairs, votes>> /\ CallKept

\* A batch of the command line, a process of its own, holds the lease too.
LeaseElsewhere ==
  /\ OtherBatches
  /\ \/ lock = "free" /\ lock' = "cli"
     \/ lock = "cli" /\ lock' = "free"
  /\ UNCHANGED <<others, evalVars>>

-----------------------------------------------------------------------------
(* Review.                                                                 *)

\* next_pair: the first pending pair, its responses in display order.
Pending == {i \in DOMAIN pairs : pairs[i].status = "pending"}

View(r) ==
  /\ ~Blocked /\ seen[r].pair = -1
  /\ \E i \in Pending :
       /\ \A j \in Pending : i <= j
       /\ seen' = [seen EXCEPT ![r] =
            [pair |-> i, vote |-> 0, left |-> IF pairs[i].order = "ab" THEN "a" ELSE "b",
             right |-> IF pairs[i].order = "ab" THEN "b" ELSE "a"]]
  /\ UNCHANGED <<registryVars, session, pairs, votes, call, services, told, exporting,
                 exported, crashes>>

\* vote: the side that was picked, as a response.
Canonical(i, selection) ==
  CASE selection = "left" -> IF pairs[i].order = "ab" THEN "a" ELSE "b"
    [] selection = "right" -> IF pairs[i].order = "ab" THEN "b" ELSE "a"
    [] OTHER -> selection

\* latest_vote: the vote no other supersedes; 0 when there is none.
Unsuperseded(log) == {n \in DOMAIN log : ~\E m \in DOMAIN log : log[m].over = n}

CurrentVotes(i) == Unsuperseded(votes[i])

Latest(i) ==
  IF CurrentVotes(i) = {} THEN 0
  ELSE CHOOSE n \in CurrentVotes(i) : \A m \in CurrentVotes(i) : m <= n

Accepts_unreplaced(i, over) ==  \* mutant
  pairs[i].status # "duplicate_generation" /\ (over = 0 \/ over = Latest(i))

\* add_vote, one transaction: a first vote where there is none, a correction of
\* the latest vote where there is one.
Accepts(i, over) == pairs[i].status # "duplicate_generation" /\ over = Latest(i)

\* session_rows: every pair with its current vote, 0 when there is none.
Rows(ps, vs) ==
  UNION {{[pair |-> i, vote |-> n] :
            n \in IF Unsuperseded(vs[i]) = {} THEN {0} ELSE Unsuperseded(vs[i])} : i \in DOMAIN ps}

\* stats and _comparison_stats, as the answer to the vote gives them.
VotedFor(ps, vs, x) == {r \in Rows(ps, vs) : r.vote # 0 /\ vs[r.pair][r.vote].pick = x}

Remaining(ps, vs) ==
  LET reviewed == Cardinality({r \in Rows(ps, vs) : r.vote # 0})
      duplicates == Cardinality({r \in Rows(ps, vs) : ps[r.pair].status = "duplicate_generation"})
  IN  IF reviewed + duplicates >= Target THEN 0 ELSE Target - reviewed - duplicates

Comparison(ps, vs) ==
  LET a == Cardinality(VotedFor(ps, vs, "a"))
      b == Cardinality(VotedFor(ps, vs, "b"))
  IN  CASE session.mode \notin Comparisons -> "nothing"
        [] session.mode \in Comparisons /\ Remaining(ps, vs) > 0 -> "blinded"
        [] OTHER -> IF a > b THEN "first" ELSE IF b > a THEN "second" ELSE "tie"

AddVote(i, vote) ==
  /\ votes' = [votes EXCEPT ![i] = Append(@, vote)]
  /\ pairs' = [pairs EXCEPT ![i].status = "reviewed"]

Vote(r) ==
  LET i == seen[r].pair
  IN  /\ ~Blocked /\ i # -1 /\ Len(votes[i]) < MaxVotes
      /\ \E selection \in {"left", "right", "neither"}, sft \in BOOLEAN :
           /\ sft => Canonical(i, selection) \in {"a", "b"}
           /\ IF Accepts(i, seen[r].vote)
              THEN /\ AddVote(i, [pick |-> Canonical(i, selection), over |-> seen[r].vote,
                                  sft |-> sft,
                                  liked |-> CASE selection = "left" -> seen[r].left
                                              [] selection = "right" -> seen[r].right
                                              [] OTHER -> selection])
                   /\ told' = Comparison(pairs', votes')
                   \* Z shows the pair again, to correct this vote
                   /\ \/ seen' = [seen EXCEPT ![r].vote = Len(votes'[i])]
                      \/ seen' = [seen EXCEPT ![r] = NoPair]
              ELSE /\ seen' = [seen EXCEPT ![r] = NoPair]
                   /\ UNCHANGED <<votes, pairs, told>>
      /\ UNCHANGED <<registryVars, session, call, services, exporting, exported, crashes>>

-----------------------------------------------------------------------------
(* Export.                                                                 *)

Trainable_storage(i) ==  \* mutant
  LET s == ScenarioOf(i)
  IN  s.storage /\ s.active /\ s.split = "train" /\ pairs[i].status # "duplicate_generation"

\* _records: what may be trained on, as the current votes have it.
Trainable(i) ==
  LET s == ScenarioOf(i)
  IN  s.training /\ s.active /\ s.split = "train" /\ pairs[i].status # "duplicate_generation"

Records(format) ==
  {[pair |-> r.pair, chosen |-> votes[r.pair][r.vote].pick] :
     r \in {q \in Rows(pairs, votes) :
              /\ Trainable(q.pair) /\ q.vote # 0
              /\ votes[q.pair][q.vote].pick \in {"a", "b"}
              /\ format = "sft" => votes[q.pair][q.vote].sft}}

ExportRead(x) ==
  /\ exporting[x].pc = "idle" /\ session # NoSession
  /\ exporting' = [exporting EXCEPT ![x] =
       IF exported = NoExport THEN [pc |-> "writing", records |-> Records(Format[x])]
       ELSE [pc |-> "failed", records |-> {}]]
  /\ UNCHANGED <<registryVars, session, pairs, votes, call, services, seen, told, exported,
                 crashes>>

\* The finished file is linked to its name, which never replaces a file.
ExportLink(x) ==
  /\ exporting[x].pc = "writing"
  /\ exported' = IF exported = NoExport
                 THEN [format |-> Format[x], records |-> exporting[x].records] ELSE exported
  /\ exporting' = [exporting EXCEPT ![x] = [pc |-> "done", records |-> {}]]
  /\ UNCHANGED <<registryVars, session, pairs, votes, call, services, seen, told, crashes>>

-----------------------------------------------------------------------------
(* The gateway.                                                            *)

\* reload: a new PreferenceService, with the selection of this moment.
Reload ==
  /\ ~Blocked /\ Len(services) <= MaxReloads
  /\ \E model \in M!Overrides[Role] : services' = Append(services, model)
  /\ UNCHANGED <<registryVars, session, pairs, votes, call, seen, told, exporting,
                 exported, crashes>>

Crash ==
  /\ crashes < MaxCrashes
  /\ crashes' = crashes + 1
  /\ call' = [c \in Calls |-> IF call[c].pc \in {"idle", "done", "failed"}
                              THEN call[c] ELSE [Idle EXCEPT !.pc = "failed"]]
  /\ lock' = IF lock = "gateway" THEN "free" ELSE lock
  /\ \E model \in M!Overrides[Role] : services' = [n \in DOMAIN services |-> model]
  /\ seen' = [r \in Reviewers |-> NoPair]
  /\ UNCHANGED <<others, session, pairs, votes, told, exporting, exported>>

\* The tables as they are created; an index has one pair.
EmptyStore == session = NoSession /\ pairs = <<>> /\ votes = <<>>

EvalInit ==
  /\ EmptyStore
  /\ call = [c \in Calls |-> Idle]
  /\ services = <<Chosen[Role].model>>
  /\ seen = [r \in Reviewers |-> NoPair]
  /\ told = "blinded"
  /\ exporting = [x \in Exports |-> [pc |-> "idle", records |-> {}]]
  /\ exported = NoExport
  /\ crashes = 0

Init == M!Init /\ EvalInit

Generation(c) ==
  \/ EnterService(c) \/ TakeLease(c) \/ StartPair(c) \/ EndPair(c) \/ EndBatch(c)

Next ==
  \/ M!Next /\ UNCHANGED evalVars
  \/ CreateSession
  \/ \E c \in Calls : Call(c) \/ Generation(c)
  \/ LeaseElsewhere
  \/ \E r \in Reviewers : View(r) \/ Vote(r)
  \/ \E x \in Exports : ExportRead(x) \/ ExportLink(x)
  \/ Reload \/ Crash

Spec == Init /\ [][Next]_vars

\* The event loop runs a call of generate whenever the call can go on.
Fairness == \A c \in Calls : WF_vars(Generation(c))

FairSpec == Spec /\ Fairness

-----------------------------------------------------------------------------
\* The selections of the registry can be resolved (ModelRegistry), also those that
\* batches lease and other processes change meanwhile.
SelectionResolves == M!SelectionResolves

\* The pairs of a session that compares a base with its adapter are all of one
\* model and one adapter, whatever is selected between and during its batches
\* (packages/eval_core/preference_service.py:126, model_registry/service.py:211).
SessionKeepsArtifacts ==
  session.mode = "base_vs_adapter" =>
    \A i, j \in DOMAIN pairs :
      /\ pairs[i].model = pairs[j].model
      /\ pairs[i].adapterB = pairs[j].adapterB /\ pairs[i].adapterB # NoId

\* Whoever votes and corrects at the same time, a pair has at most one current
\* vote, and is reviewed exactly when it has one (preference_store.py:316).
OneCurrentVote ==
  \A i \in DOMAIN pairs :
    /\ Cardinality(CurrentVotes(i)) <= 1
    /\ pairs[i].status = "reviewed" <=> CurrentVotes(i) # {}

\* What is exported for training is what a reviewer liked on the side it was shown
\* on, from a scenario that allows training; never from a held out one, so nothing
\* of a comparison with an adapter (preference_export.py:57, preference_service.py:174).
ExportAsReviewed ==
  \A e \in exported.records :
    /\ ScenarioOf(e.pair).training /\ ScenarioOf(e.pair).split = "train"
    /\ session.mode # "base_vs_adapter"
    /\ \E n \in DOMAIN votes[e.pair] :
         /\ votes[e.pair][n].liked = e.chosen
         /\ exported.format = "sft" => votes[e.pair][n].sft

\* The lease is for a bounded batch (model_registry/service.py:212): a batch ends.
LeaseEnds == (lock = "gateway") ~> (lock # "gateway")
=============================================================================
