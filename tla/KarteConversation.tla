------------------------- MODULE KarteConversation -------------------------
(***************************************************************************)
(* From a conversation to a proposal for the Karte (packages/karte_core:   *)
(* context, conversation, planning, contracts, outbox).  A call plans the  *)
(* proposal from what the Karte answers, the user reviews the plan that is *)
(* displayed, and a second call plans again, compares and puts the file    *)
(* into the outbox, from which the Karte takes it.  Calls run in threads;  *)
(* the files of the outbox are looked at one after the other.              *)
(*                                                                         *)
(* Abstracted: a candidate_id is a hash of its request and stands for it;  *)
(* plan_sha256 stands for the plan; a text is its set of tokens and the    *)
(* number of keywords of each kind; a version is a number.                 *)
(***************************************************************************)
EXTENDS Integers, Sequences, FiniteSets, FiniteSetsExt

CONSTANTS
  Threads,    \* threads of the gateway that ask for the status
  Publishers, \* those that plan and publish
  Requests,   \* conversations the user may want to keep
  Resolution, \* request -> "auto", "create" or "append"
  Project,    \* requests that name a project
  Kinds,      \* numbers in the order of SUPPORTED_KINDS; 0 is "note"
  Explicit,   \* request -> the kind it names, or NoKind
  Signals,    \* request -> kind -> how many of its keywords the text has
  Intended,   \* request -> intended_doc_id, or NoDoc
  Documents, NoDoc,
  Words,      \* request or document -> the tokens of its title and text
  KindOf,     \* document -> its kind, or NoKind without usable metadata
  MaxShown,   \* bound: different plans that are displayed
  MaxChanges  \* bound: changes of the canonical documents

NoKind == -1
Resolutions == {"auto", "create", "append"}
ValidRequest(r) ==
  /\ Resolution[r] \in Resolutions
  /\ Intended[r] \in Documents \cup {NoDoc}
  /\ Resolution[r] = "append" => Intended[r] # NoDoc
  /\ Resolution[r] = "create" => Intended[r] = NoDoc
\* Assumed of the constants.
RequestsAssumption == \A r \in Requests : ValidRequest(r)
ThreadsAssumption == Publishers \subseteq Threads

VARIABLES
  canon,     \* document -> the version the Karte has, 0 for none
  shown,     \* plans that were displayed
  outbox,    \* request -> directory -> the plan in its file
  receipts,  \* request -> result of its receipt
  calls,     \* thread -> its call
  changes

proposalVars == <<canon, shown, outbox, receipts, calls, changes>>

Directories_last == <<"accepted", "rejected", "pending">>  \* mutant
Directories == <<"pending", "accepted", "rejected">>
States == {"pending", "accepted", "rejected"}
Results == {"accepted", "rejected", "conflict", "invalid"}

NoPlan == [of |-> "none"]
NoCall == [pc |-> "idle", kind |-> "none", req |-> NoDoc, reviewed |-> NoPlan, plan |-> NoPlan,
           todo |-> {}, got |-> {}, failed |-> FALSE, at |-> 0, old |-> FALSE]

ProposalInit ==
  /\ canon = [d \in Documents |-> 1]
  /\ shown = {}
  /\ outbox = [r \in Requests |-> [s \in States |-> NoPlan]]
  /\ receipts = [r \in Requests |-> "none"]
  /\ calls = [t \in Threads |-> NoCall]
  /\ changes = 0

Became(t, c) == calls' = [calls EXCEPT ![t] = c]
Return(t) == Became(t, NoCall)

----------------------------------------------------------------------------
(* The exchange with the Karte                                             *)

\* A response: a regular file, for this request, its operation and status, what
\* it carries, for the right document, inside the requested scope.
Statuses == {"ok", "invalid", "denied", "not_found", "conflict"}
Responses ==
  [regular : BOOLEAN, same : BOOLEAN, op : {"search", "read", "invalid"}, status : Statuses,
   results : BOOLEAN, doc : BOOLEAN, right : BOOLEAN, inside : BOOLEAN, error : BOOLEAN]

WellFormed(x) ==
  /\ x.op = "search" => ~x.doc
  /\ x.op = "read" => ~x.results
  /\ x.status = "ok" /\ x.op = "read" => x.doc
  /\ x.status \in {"denied", "not_found"} => ~x.results /\ ~x.doc
  /\ x.status \in {"invalid", "conflict"} => x.error

Matching(x, op) ==
  /\ x.regular /\ WellFormed(x) /\ x.same /\ x.op \in {op, "invalid"}
  /\ op = "read" /\ x.doc => x.right
  /\ x.results \/ x.doc => x.inside
  /\ x.status \notin {"invalid", "conflict"}

\* exchange: a request file with a fresh id, and its response until the timeout.
Verdict(x, op) ==
  CASE ~Matching(x, op) -> "protocol_error"
    [] Matching(x, op) /\ x.status = "ok" /\ (op = "read" => x.doc) -> "ok"
    [] OTHER -> "denied"
Answers == {"timeout", "ok", "denied", "protocol_error"}
AnswersAssumption ==
  \A op \in {"search", "read"} : {Verdict(x, op) : x \in Responses} = Answers \ {"timeout"}

\* What _context_candidates needs from the Karte.
Begin(t, kind, r, reviewed) ==
  /\ calls[t].pc = "idle"
  /\ kind = "plan" => Cardinality(shown) < MaxShown    \* bound
  /\ reviewed = NoPlan \/ reviewed \in {p \in shown : p.of = r}
  /\ Became(t, [NoCall EXCEPT !.kind = kind, !.req = r, !.reviewed = reviewed,
       !.pc = CASE Resolution[r] = "create" \/ r \notin Project -> "plan"
                [] Resolution[r] = "append" /\ r \in Project -> "read"
                [] OTHER -> "search",
       !.todo = IF Resolution[r] = "append" /\ r \in Project THEN {Intended[r]} ELSE {}])
  /\ UNCHANGED <<canon, shown, outbox, receipts, changes>>

\* search: the hits in the project, of which at most three are read.
Searched(t, answer, hits) ==
  /\ calls[t].pc = "search"
  /\ hits \subseteq {d \in Documents : canon[d] > 0} /\ Cardinality(hits) <= 3
  /\ Became(t, IF answer = "ok"
               THEN [calls[t] EXCEPT !.todo = hits, !.pc = IF hits = {} THEN "plan" ELSE "read"]
               ELSE [calls[t] EXCEPT !.failed = TRUE, !.pc = "plan"])
  /\ UNCHANGED <<canon, shown, outbox, receipts, changes>>

\* read: the version the Karte has by now.  After a search, a document that is
\* denied or late falls back to its snippet, and an error loses the selection.
Read(t, d, answer) ==
  /\ calls[t].pc = "read" /\ d \in calls[t].todo
  /\ answer = "ok" => canon[d] > 0
  /\ LET c == calls[t]
         rest == c.todo \ {d}
         after == [c EXCEPT !.todo = rest, !.pc = IF rest = {} THEN "plan" ELSE "read"]
     IN Became(t, CASE answer = "ok" -> [after EXCEPT !.got = @ \cup {<<d, canon[d]>>}]
                    [] answer \in {"denied", "timeout"} -> [after EXCEPT !.failed = TRUE]
                    [] OTHER -> [c EXCEPT !.todo = {}, !.got = {}, !.failed = TRUE, !.pc = "plan"])
  /\ UNCHANGED <<canon, shown, outbox, receipts, changes>>

----------------------------------------------------------------------------
(* The plan                                                                *)

\* _text_similarity in percent: the larger of its two quotients is the one over
\* the smaller set.
Similarity(r, d) ==
  IF Words[r] = {} \/ Words[d] = {} THEN 0
  ELSE (100 * Cardinality(Words[r] \cap Words[d])) \div Min({Cardinality(Words[r]), Cardinality(Words[d])})

\* _classify_kind: the named kind, a note, or the one or two kinds with the
\* most keywords; each with its confidence in percent.
Top(r, kinds) == CHOOSE k \in kinds : \A l \in kinds :
                   Signals[r][k] > Signals[r][l] \/ (Signals[r][k] = Signals[r][l] /\ k <= l)
Scored(r) == {k \in Kinds : Signals[r][k] > 0}
Classes(r) ==
  IF Explicit[r] # NoKind THEN {<<Explicit[r], 100>>}
  ELSE IF Scored(r) = {} THEN {<<0, 80>>}
  ELSE LET first == Top(r, Scored(r))
           others == Scored(r) \ {first}
           confidence == Min({98, 82 + 4 * Signals[r][first]})
           second == Top(r, others)
       IN {<<first, confidence>>} \cup
          (IF others = {} THEN {}
           ELSE {<<second, Min({95, confidence - (IF Signals[r][second] = Signals[r][first] THEN 8 ELSE 20)})>>})

Selected(r, c) == Resolution[r] = "append" /\ c.got # {}
KindFor(r, c) ==
  IF Selected(r, c) /\ KindOf[Intended[r]] # NoKind THEN KindOf[Intended[r]]
  ELSE (CHOOSE k \in Classes(r) : \A l \in Classes(r) : k[2] >= l[2])[1]

\* _placement_candidates and the margin of the policy.
Placement_classified(r, kind) == Classes(r)  \* mutant
Placement(r, kind) ==
  IF \E k \in Classes(r) : k[1] = kind THEN Classes(r) ELSE Classes(r) \cup {<<kind, 100>>}
TooClose(r, kind) ==
  \E k, l \in Placement(r, kind) :
    k # l /\ k[2] - l[2] \in 0 .. 14 /\ \A m \in Placement(r, kind) : m[2] <= k[2]

\* The context could not be checked in full, no project, or no clear placement.
Consults(r, c) ==
  \/ c.failed \/ r \notin Project \/ TooClose(r, KindFor(r, c))
  \/ Selected(r, c) /\ KindOf[Intended[r]] = NoKind

\* The documents the planner compares with: none for an explicit create.
Matches(r, c) ==
  IF Resolution[r] = "create" THEN {}
  ELSE {g \in c.got : Similarity(r, g[1]) >= 5 \/ g[1] = Intended[r]}
Exact(r, c) == {g \in Matches(r, c) : g[1] = Intended[r]}

\* The planner may append: the intended document was read, fits, and either the
\* user chose it or its text is similar enough.
Appends(r, c) ==
  \E g \in Exact(r, c) : KindOf[g[1]] = KindFor(r, c) /\ (Resolution[r] = "append" \/ Similarity(r, g[1]) >= 12)

Unsettled(r, c) ==
  IF Intended[r] # NoDoc THEN ~Appends(r, c)
  ELSE \E g \in Matches(r, c) : Similarity(r, g[1]) >= 82

\* The proposal: its operation and base, the documents it rests on, and
\* whether the user must be consulted first.
PlanOf(r, c) ==
  [of |-> r, base |-> IF Appends(r, c) THEN Exact(r, c) ELSE {}, refs |-> c.got, kind |-> KindFor(r, c),
   places |-> {k[1] : k \in Placement(r, KindFor(r, c))}, consult |-> Consults(r, c) \/ Unsettled(r, c)]

\* What the validators of PlacementHint and KarteChangeProposal demand.
MeetsContract(p) ==
  /\ p.kind \in p.places /\ Cardinality(p.places) \in 1 .. 3
  /\ Cardinality(p.base) <= 1 /\ p.base \subseteq p.refs

Reviewed_id(c, p) == c.reviewed # NoPlan /\ c.reviewed.of = p.of  \* mutant
Reviewed(c, p) == c.reviewed = p

Publishable(c, p) == ~p.consult /\ Reviewed(c, p)

\* plan answers with the plan; publish compares it with the reviewed one.
Planned(t) ==
  /\ calls[t].pc = "plan"
  /\ LET c == calls[t]
         p == PlanOf(c.req, c)
     IN IF c.kind = "publish" /\ Publishable(c, p)
        THEN Became(t, [c EXCEPT !.plan = p, !.pc = "receipt"]) /\ UNCHANGED shown
        ELSE Return(t) /\ shown' = IF c.kind = "plan" THEN shown \cup {p} ELSE shown
  /\ UNCHANGED <<canon, outbox, receipts, changes>>

----------------------------------------------------------------------------
(* The outbox                                                              *)

Published(r) == receipts[r] # "none" \/ \E s \in States : outbox[r][s] # NoPlan

\* status of a candidate.
Status(t, r) ==
  /\ calls[t].pc = "idle"
  /\ Became(t, [NoCall EXCEPT !.kind = "status", !.req = r, !.pc = "receipt", !.old = Published(r)])
  /\ UNCHANGED <<canon, shown, outbox, receipts, changes>>

\* read_receipt: a receipt ends both.
LookReceipt(t) ==
  /\ calls[t].pc = "receipt"
  /\ IF receipts[calls[t].req] # "none" THEN Return(t)
     ELSE Became(t, [calls[t] EXCEPT !.pc = "look", !.at = 1])
  /\ UNCHANGED <<canon, shown, outbox, receipts, changes>>

\* The directories in their order.  After the last one publish writes, and
\* status has found nothing.
Look(t) ==
  LET c == calls[t]
      found == outbox[c.req][Directories[c.at]] # NoPlan
  IN /\ c.pc = "look"
     /\ CASE found /\ c.kind = "status" -> Return(t)
          [] found /\ c.kind = "publish" -> Became(t, [c EXCEPT !.pc = "compare"])
          [] ~found /\ c.at < Len(Directories) -> Became(t, [c EXCEPT !.at = @ + 1])
          [] OTHER -> Became(t, [c EXCEPT !.pc = IF c.kind = "status" THEN "missing" ELSE "write"])
     /\ UNCHANGED <<canon, shown, outbox, receipts, changes>>

\* The file that exists is read: the same content is answered, other content
\* or a file that is gone by now is an error.
Compare(t) ==
  /\ calls[t].pc = "compare"
  /\ Return(t)
  /\ UNCHANGED <<canon, shown, outbox, receipts, changes>>

\* _atomic_write_json, which fails before or after os.replace or succeeds.
Write(t) ==
  LET c == calls[t] IN
  /\ c.pc = "write"
  /\ \/ outbox' = [outbox EXCEPT ![c.req]["pending"] = c.plan]
     \/ UNCHANGED outbox
  /\ Return(t)
  /\ UNCHANGED <<canon, shown, receipts, changes>>

Missing(t) ==
  /\ calls[t].pc = "missing"
  /\ Return(t)
  /\ UNCHANGED <<canon, shown, outbox, receipts, changes>>

----------------------------------------------------------------------------
(* The Karte and its user                                                  *)

\* The Karte moves a reviewed proposal.
Take(r, s) ==
  /\ outbox[r]["pending"] # NoPlan /\ s # "pending"
  /\ outbox' = [outbox EXCEPT ![r]["pending"] = NoPlan, ![r][s] = outbox[r]["pending"]]
  /\ UNCHANGED <<canon, shown, receipts, calls, changes>>

\* It writes a receipt for a proposal that was put up.
Receive(r, result) ==
  /\ receipts[r] = "none" /\ Published(r)
  /\ result \in States => outbox[r][result] # NoPlan
  /\ receipts' = [receipts EXCEPT ![r] = result]
  /\ UNCHANGED <<canon, shown, outbox, calls, changes>>

\* A document is edited or removed.
Change(d, v) ==
  /\ changes < MaxChanges    \* bound
  /\ canon[d] > 0 /\ v \in {0, canon[d] + 1}
  /\ canon' = [canon EXCEPT ![d] = v]
  /\ changes' = changes + 1
  /\ UNCHANGED <<shown, outbox, receipts, calls>>

ProposalNext ==
  \/ \E t \in Publishers, r \in Requests, p \in shown \cup {NoPlan} :
       Begin(t, "plan", r, NoPlan) \/ Begin(t, "publish", r, p)
  \/ \E t \in Threads, r \in Requests : Status(t, r)
  \/ \E t \in Threads, answer \in Answers, hits \in SUBSET Documents : Searched(t, answer, hits)
  \/ \E t \in Threads, answer \in Answers, d \in Documents : Read(t, d, answer)
  \/ \E t \in Threads : Planned(t) \/ LookReceipt(t) \/ Look(t) \/ Compare(t) \/ Write(t) \/ Missing(t)
  \/ \E r \in Requests : (\E s \in States : Take(r, s)) \/ (\E x \in Results : Receive(r, x))
  \/ \E d \in Documents, v \in 0 .. MaxChanges + 1 : Change(d, v)

ProposalSpec == ProposalInit /\ [][ProposalNext]_proposalVars

----------------------------------------------------------------------------
(* Properties                                                              *)

\* What reaches the outbox is a plan that was displayed and needed no more
\* consultation: publish plans again and compares with what the user reviewed,
\* so a document that changed meanwhile never changes the proposal silently.
SentAsReviewed ==
  \A r \in Requests, s \in States :
    outbox[r][s] # NoPlan => outbox[r][s] \in shown /\ ~outbox[r][s].consult

\* Whatever was classified, searched and selected, the plan fits the contract
\* that its own validators and the Karte apply: a plan call never ends in a
\* validation error instead of a consultation.
PlansMeetContract == \A t \in Threads : calls[t].pc = "plan" => MeetsContract(PlanOf(calls[t].req, calls[t]))

\* The status of a proposal that was published before is never "missing",
\* however the Karte moves the file while the directories are looked at.
NeverMissing == \A t \in Threads : calls[t].pc = "missing" => ~calls[t].old
=============================================================================
