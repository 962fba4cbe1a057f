--------------------------- MODULE Participation ---------------------------
(***************************************************************************)
(* Spoken candidates of the resident (apps/gateway/resident_participation  *)
(* over packages/runtime_core/participation) and the gate they share with  *)
(* inference and with a switch of the local model (apps/gateway/           *)
(* model_transition).  One candidate at a time is searched, read and       *)
(* generated; a one-use ticket lets the desktop ask once more right before *)
(* it speaks.  Meanwhile the policy and the grants may change, the Karte   *)
(* may withdraw a version, the client may leave, a turn of the user may    *)
(* start and the deadline may pass.                                        *)
(*                                                                         *)
(* All of it runs on one event loop: an action is the code between two     *)
(* awaits.  Abstracted: a document is granted in one version, and the      *)
(* Karte holds that version until it is withdrawn; policy revision and     *)
(* grants file are one number; ids of a session are part of the operation. *)
(***************************************************************************)
EXTENDS Integers, FiniteSets

CONSTANTS
  Ops,            \* operations of the desktop that ask for a candidate
  NoOp,
  Docs,           \* documents the grants name
  MaxTools,       \* Run.max_tools of a candidate
  MaxForeground,  \* bound: inference requests at one time
  MaxChanges      \* bound: changes of policy or grants

\* Assumed of the constants.
OpsAssumption == IsFiniteSet(Ops) /\ NoOp \notin Ops
LimitsAssumption == MaxTools \in Nat /\ MaxForeground \in Nat /\ MaxChanges \in Nat

VARIABLES
  active,      \* InferenceGate.active
  token,       \* InferenceGate.token is held
  foreground,  \* inference requests inside the middleware
  revision,    \* policy revision and grants
  withdrawn,   \* documents whose granted version the Karte has no more
  cand,        \* ResidentParticipation.current and its task
  ticket,      \* ResidentParticipation.ticket
  checking,    \* ResidentParticipation.checking
  left,        \* operations that have not asked yet
  ready        \* operation -> how often the desktop was told to speak

participationVars == <<active, token, foreground, revision, withdrawn, cand, ticket, checking, left, ready>>

Working == {"search", "read", "model"}
NoCandidate == [op |-> NoOp, work |-> "none", rev |-> 0, tools |-> 0, todo |-> {},
                docs |-> {}, canceled |-> FALSE, used |-> {}]
NoTicket == [op |-> NoOp, rev |-> 0, evidence |-> {}, live |-> FALSE]
NoCheck == [op |-> NoOp, rev |-> 0, evidence |-> {}, todo |-> {}, docs |-> {}, stage |-> "none",
            live |-> FALSE, gone |-> {}]

ParticipationInit ==
  /\ active = 0 /\ token = FALSE /\ foreground = 0
  /\ revision = 0 /\ withdrawn = {}
  /\ cand = NoCandidate /\ ticket = NoTicket /\ checking = NoCheck
  /\ left = Ops
  /\ ready = [o \in Ops |-> 0]

----------------------------------------------------------------------------
(* The gate                                                                *)

Transitioning == token

\* begin of a model switch.
BeginSwitch ==
  /\ ~Transitioning /\ active = 0
  /\ token' = TRUE
  /\ UNCHANGED <<active, foreground, revision, withdrawn, cand, ticket, checking, left, ready>>

\* end, or the 600 seconds of the token are over.
EndSwitch ==
  /\ token
  /\ token' = FALSE
  /\ UNCHANGED <<active, foreground, revision, withdrawn, cand, ticket, checking, left, ready>>

\* task.cancel(): the task ends at its await, and nothing of it is used.
CancelWork(c) == IF c.work \in Working THEN [c EXCEPT !.work = "cancelled"] ELSE c

\* The middleware lets an inference request in; it goes before a candidate.
Enter ==
  /\ foreground < MaxForeground    \* bound
  /\ ~Transitioning
  /\ ticket' = NoTicket
  /\ cand' = CancelWork(cand)
  /\ checking' = NoCheck
  /\ active' = active + 1
  /\ foreground' = foreground + 1
  /\ UNCHANGED <<token, revision, withdrawn, left, ready>>

LeaveInference ==
  /\ foreground > 0
  /\ active' = active - 1
  /\ foreground' = foreground - 1
  /\ UNCHANGED <<token, revision, withdrawn, cand, ticket, checking, left, ready>>

----------------------------------------------------------------------------
(* A candidate                                                             *)

\* What load_grants, the state of the session and the participants say.
Granted == {"granted", "unavailable", "sharing_denied", "suppressed", "insufficient_evidence"}

Admits == ~Transitioning /\ active = 0

Ask(o, grants) ==
  /\ o \in left /\ left' = left \ {o}
  /\ IF cand.op # NoOp \/ checking.op # NoOp
     THEN UNCHANGED <<active, cand, ticket>>                   \* busy
     ELSE /\ ticket' = NoTicket
          /\ IF grants = "granted" /\ Admits
             THEN /\ cand' = [NoCandidate EXCEPT !.op = o, !.work = "search", !.rev = revision,
                                                 !.tools = 1]
                  /\ active' = active + 1
             ELSE UNCHANGED <<active, cand>>
  /\ UNCHANGED <<token, foreground, revision, withdrawn, checking, ready>>

\* Run.check: neither canceled nor invalid; the deadline is an action.
Valid(rev) == revision = rev

StillValid(c) == ~c.canceled /\ Valid(c.rev)

\* The rest of the workflow once a tool or the model answered.
NextTool(c) ==
  CASE c.todo # {} /\ c.tools < MaxTools -> [c EXCEPT !.work = "read", !.tools = @ + 1]
    [] c.todo # {} /\ c.tools >= MaxTools -> [c EXCEPT !.work = "failed"]
    [] c.todo = {} /\ c.docs = {} -> [c EXCEPT !.work = "empty"]
    [] OTHER -> [c EXCEPT !.work = "model"]

\* karte_search answers: the shareable documents among its hits.
SearchAnswers(hits) ==
  /\ cand.work = "search"
  /\ hits \subseteq Docs \ withdrawn
  /\ cand' = IF StillValid(cand) THEN NextTool([cand EXCEPT !.todo = hits])
             ELSE [cand EXCEPT !.work = "failed"]
  /\ UNCHANGED <<active, token, foreground, revision, withdrawn, ticket, checking, left, ready>>

\* karte_read answers with the version the Karte holds by then, or with a
\* version or size that is not granted.
ReadAnswers(d) ==
  /\ cand.work = "read" /\ d \in cand.todo
  /\ cand' = LET c == [cand EXCEPT !.todo = @ \ {d}] IN
             IF StillValid(cand)
             THEN NextTool([c EXCEPT !.docs = IF d \in withdrawn THEN @ ELSE @ \cup {d}])
             ELSE [cand EXCEPT !.work = "failed"]
  /\ UNCHANGED <<active, token, foreground, revision, withdrawn, ticket, checking, left, ready>>

\* The model answers: evidence that quotes what was read, nothing to say, or
\* something that validate_candidate and parse_candidate refuse.
ModelAnswers(evidence, fine) ==
  /\ cand.work = "model"
  /\ evidence \subseteq Docs
  /\ cand' = CASE evidence = {} /\ fine -> [cand EXCEPT !.work = "empty"]
               [] evidence # {} /\ fine /\ StillValid(cand) /\ evidence \subseteq cand.docs ->
                    [cand EXCEPT !.work = "text", !.used = evidence]
               [] OTHER -> [cand EXCEPT !.work = "failed"]
  /\ UNCHANGED <<active, token, foreground, revision, withdrawn, ticket, checking, left, ready>>

\* A call fails, or a deadline passes while it is out.
WorkFails ==
  /\ cand.work \in Working
  /\ cand' = [cand EXCEPT !.work = "failed"]
  /\ UNCHANGED <<active, token, foreground, revision, withdrawn, ticket, checking, left, ready>>

\* generate looks every 50 ms whether the client is there and all is valid.
Watch(disconnected) ==
  /\ cand.work \in Working
  /\ disconnected \/ ~Valid(cand.rev)
  /\ cand' = [CancelWork(cand) EXCEPT !.canceled = TRUE]
  /\ UNCHANGED <<active, token, foreground, revision, withdrawn, ticket, checking, left, ready>>

Released_kept(n) == IF cand.work = "cancelled" THEN n ELSE n - 1  \* mutant
Released(n) == n - 1

\* generate after its task ended, with the `finally`.
Conclude ==
  /\ cand.op # NoOp /\ cand.work \notin Working
  /\ ticket' = IF cand.work = "text" /\ StillValid(cand)
               THEN [op |-> cand.op, rev |-> cand.rev, evidence |-> cand.used, live |-> TRUE]
               ELSE ticket
  /\ cand' = NoCandidate
  /\ active' = Released(active)
  /\ UNCHANGED <<token, foreground, revision, withdrawn, checking, left, ready>>

\* The cancel route.
Cancel(o) ==
  /\ o \notin left
  /\ ticket' = IF ticket.op = o THEN NoTicket ELSE ticket
  /\ checking' = IF checking.op = o THEN NoCheck ELSE checking
  /\ cand' = IF cand.op = o THEN CancelWork(cand) ELSE cand
  /\ UNCHANGED <<active, token, foreground, revision, withdrawn, left, ready>>

----------------------------------------------------------------------------
(* The ticket                                                              *)

TicketExpires ==
  /\ ticket.live \/ checking.live
  /\ ticket' = [ticket EXCEPT !.live = FALSE]
  /\ checking' = [checking EXCEPT !.live = FALSE]
  /\ UNCHANGED <<active, token, foreground, revision, withdrawn, cand, left, ready>>

Taken_kept == ticket  \* mutant
Taken == NoTicket

NeedsReading(evidence) == evidence

\* check up to its first await: the ticket is consumed before it.
Check(o) ==
  /\ ticket.op = o /\ o # NoOp
  /\ cand.op = NoOp /\ checking.op = NoOp
  /\ checking' = [NoCheck EXCEPT !.op = o, !.rev = ticket.rev, !.evidence = ticket.evidence,
                                 !.todo = NeedsReading(ticket.evidence),
                                 !.docs = ticket.evidence \ NeedsReading(ticket.evidence),
                                 !.stage = "read", !.live = ticket.live, !.gone = withdrawn]
  /\ ticket' = Taken
  /\ UNCHANGED <<active, token, foreground, revision, withdrawn, cand, left, ready>>

CheckValid == checking.live /\ Valid(checking.rev)

\* A document is read again: karte_read under the rest of the ticket's time.
Reread(d) ==
  /\ checking.stage = "read" /\ d \in checking.todo
  /\ checking' = IF CheckValid
                 THEN [checking EXCEPT !.todo = @ \ {d}, !.docs = IF d \in withdrawn THEN @ ELSE @ \cup {d}]
                 ELSE NoCheck
  /\ UNCHANGED <<active, token, foreground, revision, withdrawn, cand, ticket, left, ready>>

\* All is read: validate_candidate, and one last look before the answer.
Answer(disconnected) ==
  /\ checking.stage = "read" /\ checking.todo = {}
  /\ ready' = IF CheckValid /\ checking.evidence \subseteq checking.docs /\ ~disconnected
              THEN [ready EXCEPT ![checking.op] = @ + 1] ELSE ready
  /\ checking' = NoCheck
  /\ UNCHANGED <<active, token, foreground, revision, withdrawn, cand, ticket, left>>

CheckFails ==
  /\ checking.op # NoOp
  /\ checking' = NoCheck
  /\ UNCHANGED <<active, token, foreground, revision, withdrawn, cand, ticket, left, ready>>

----------------------------------------------------------------------------
(* What changes around it                                                  *)

PolicyChanges ==
  /\ revision < MaxChanges    \* bound
  /\ revision' = revision + 1
  /\ UNCHANGED <<active, token, foreground, withdrawn, cand, ticket, checking, left, ready>>

Withdraw(d) ==
  /\ d \notin withdrawn
  /\ withdrawn' = withdrawn \cup {d}
  /\ UNCHANGED <<active, token, foreground, revision, cand, ticket, checking, left, ready>>

ParticipationNext ==
  \/ BeginSwitch \/ EndSwitch \/ Enter \/ LeaveInference
  \/ \E o \in Ops, grants \in Granted : Ask(o, grants)
  \/ \E hits \in SUBSET Docs : SearchAnswers(hits)
  \/ \E d \in Docs : ReadAnswers(d) \/ Reread(d) \/ Withdraw(d)
  \/ \E evidence \in SUBSET Docs, fine \in BOOLEAN : ModelAnswers(evidence, fine)
  \/ WorkFails \/ Conclude \/ TicketExpires \/ CheckFails \/ PolicyChanges
  \/ \E disconnected \in BOOLEAN : Watch(disconnected) \/ Answer(disconnected)
  \/ \E o \in Ops : Cancel(o) \/ Check(o)

ParticipationSpec == ParticipationInit /\ [][ParticipationNext]_participationVars

----------------------------------------------------------------------------
(* Properties                                                              *)

Cands ==
  [op : Ops \cup {NoOp}, work : Working \cup {"none", "text", "empty", "failed", "cancelled"},
   rev : 0 .. MaxChanges, tools : 0 .. MaxTools + 1, todo : SUBSET Docs, docs : SUBSET Docs,
   canceled : BOOLEAN, used : SUBSET Docs]
Tickets == [op : Ops \cup {NoOp}, rev : 0 .. MaxChanges, evidence : SUBSET Docs, live : BOOLEAN]
Checks ==
  [op : Ops \cup {NoOp}, rev : 0 .. MaxChanges, evidence : SUBSET Docs, todo : SUBSET Docs,
   docs : SUBSET Docs, stage : {"none", "read"}, live : BOOLEAN, gone : SUBSET Docs]

TypeOK ==
  /\ active \in Nat /\ token \in BOOLEAN /\ foreground \in 0 .. MaxForeground
  /\ revision \in 0 .. MaxChanges /\ withdrawn \subseteq Docs
  /\ cand \in Cands /\ ticket \in Tickets /\ checking \in Checks
  /\ left \subseteq Ops
  /\ ready \in [Ops -> Nat]

Running == IF cand.op = NoOp THEN 0 ELSE 1

\* The gate counts each inference request and the candidate once, however they
\* end (model_transition and the `finally` of generate), and so a switch of the
\* model holds its token only while none of them runs.
GateAccounts == active = foreground + Running /\ (token => foreground + Running = 0)

\* A candidate is spoken at most once: check consumes its ticket before the
\* first await, whoever calls check again meanwhile.
OneReadyPerCandidate == \A o \in Ops : ready[o] <= 1

\* What is spoken rests only on versions the Karte still had when the check
\* began, however long ago the candidate read them.
RereadBeforeReady ==
  [][ready' # ready => checking.evidence # {} /\ checking.evidence \cap checking.gone = {}]_participationVars

\* A document enters a run only while the policy and the grants are those the
\* run began with: an answer of the Karte that comes later is not used.
LateAnswerIgnored ==
  [][cand'.docs # cand.docs /\ cand'.op # NoOp => revision = cand.rev /\ ~cand.canceled]_participationVars
=============================================================================
