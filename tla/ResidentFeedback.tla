--------------------------- MODULE ResidentFeedback ---------------------------
(***************************************************************************)
(* Resident feedback: packages/eval_core/resident_service.py.  Feedback of *)
(* a session changes finite profile fields at three scopes; changes are    *)
(* numbered rows that are never removed, an undo is one more row, and a    *)
(* retracted feedback takes its change back unless a newer one stands.     *)
(*                                                                         *)
(* Every call is one IMMEDIATE transaction of SQLite, so an action; what   *)
(* interleaves is several windows, each acting on the revision it saw,     *)
(* retries of a request, restarts of the gateway and the clock.            *)
(***************************************************************************)
EXTENDS Integers, Sequences, FiniteSets, FiniteSetsExt, TLC

CONSTANTS
  Windows, SessionOf,   \* [Windows -> session]
  Offers,               \* what a window may say: [text, speaker, change, target]
  Selections,           \* what is chosen for a session: [owner, consent]
  NoValue,              \* a field that a layer leaves alone
  MaxRecords,           \* the capacity of each table
  MaxSwitches, MaxRestarts, MaxTime, Retention

VARIABLES
  sessions,   \* [sessions -> [known, owner, consent]]
  changes,    \* the rows; a row's place is its id and orders the revisions
  feedback,   \* the events; an event's place is its id
  operations, \* answers of undo and retract, by session and key
  latest,     \* the revision of the instance
  volatile,   \* [sessions -> [fields -> value or NoValue]], lost with the process
  boot, clock, switches,
  view,       \* [Windows -> what it was last shown]
  sent        \* [Windows -> its last request]

residentVars == <<sessions, changes, feedback, operations, latest, volatile, boot, clock,
                  switches, view, sent>>

Sessions == {SessionOf[w] : w \in Windows}
Fields == {"response_length", "proactive", "restricted_memory_ids"}
Scopes == {"owner", "expiring", "session"}
Default == [response_length |-> "default", proactive |-> "allowed", restricted_memory_ids |-> {}]
Unset == [f \in Fields |-> NoValue]
NoChange == [field |-> "none", value |-> NoValue, scope |-> "none", expires |-> 0]
NoRequest == [number |-> 0]

-----------------------------------------------------------------------------
(* What feedback asks for.                                                 *)

Change(field, value, scope) == [field |-> field, value |-> value, scope |-> scope, expires |-> 0]

Intent(recognized, change, undo, needs) ==
  [recognized |-> recognized, change |-> change, undo |-> undo, needs |-> needs]

\* classify_feedback: anchored commands; a quotation is never one.
Classify(o) ==
  CASE o.text = "quoted" -> Intent(FALSE, NoChange, FALSE, FALSE)
    [] o.text = "quiet" -> Intent(TRUE, Change("proactive", "suppressed", "session"), FALSE, FALSE)
    [] o.text = "shorter" -> Intent(TRUE, Change("response_length", "brief", "session"), FALSE, FALSE)
    [] o.text = "always shorter" ->
         Intent(TRUE, Change("response_length", "brief", "owner"), FALSE, FALSE)
    [] o.text = "not in public" ->
         Intent(TRUE, IF o.target = {} THEN NoChange
                      ELSE Change("restricted_memory_ids", o.target, "owner"), FALSE, o.target = {})
    [] o.text = "undo" -> Intent(TRUE, NoChange, TRUE, FALSE)
    [] o.text = "control" -> Intent(TRUE, o.change, FALSE, FALSE)

\* What ProfileChange admits: a field and a value for it; only what expires has a time.
OffersAssumption ==
  \A o \in Offers :
    LET c == Classify(o).change
    IN  c # NoChange => /\ c.field \in Fields /\ c.scope \in Scopes /\ c.value # NoValue
                        /\ c.expires \in Nat /\ (c.scope # "expiring" => c.expires = 0)

\* Restrictions are for the owner's sessions, as classify_feedback makes them.
Restricting == {o \in Offers : Classify(o).change.field = "restricted_memory_ids"}
Memories == UNION {Classify(o).change.value : o \in Restricting}
RestrictionsAssumption ==
  /\ \A o \in Restricting : Classify(o).change.scope = "owner"
  /\ \A S \in SUBSET Memories : S # NoValue

-----------------------------------------------------------------------------
(* The layers of a profile.                                                *)

Visible(c, s) ==
  IF c.scope = "session" THEN c.session = s /\ c.boot = boot ELSE sessions[s].owner

\* _layers: the row in force for a field, 0 when there is none.
Layer(scope, field, s) ==
  Max({0} \cup {n \in DOMAIN changes :
         changes[n].scope = scope /\ changes[n].field = field /\ Visible(changes[n], s)})

InForce(n) ==
  n # 0 /\ changes[n].after # NoValue /\ (changes[n].expires = 0 \/ changes[n].expires > clock)

\* _state: the owner's, then what expires, then the session's, then what was said
\* in a session that stores nothing.
Policy(s) ==
  [f \in Fields |->
     LET owner == Layer("owner", f, s)
         expiring == Layer("expiring", f, s)
         own == Layer("session", f, s)
     IN  CASE volatile[s][f] # NoValue -> volatile[s][f]
           [] volatile[s][f] = NoValue /\ InForce(own) -> changes[own].after
           [] volatile[s][f] = NoValue /\ ~InForce(own) /\ InForce(expiring) ->
                changes[expiring].after
           [] OTHER -> IF InForce(owner) THEN changes[owner].after ELSE Default[f]]

\* The row _add_change writes.
Row(s, source, field, scope, after, expires, undoes) ==
  LET current == Layer(scope, field, s)
  IN  [session |-> s, source |-> source, field |-> field, scope |-> scope,
       before |-> IF current = 0 THEN NoValue ELSE changes[current].after,
       beforeExpires |-> IF current = 0 THEN 0 ELSE changes[current].expires,
       after |-> after, expires |-> expires, boot |-> boot, undoes |-> undoes,
       status |-> IF undoes = 0 THEN "applied" ELSE "reverted"]

\* A restriction is only ever added to those in force.
Wanted(s, change) ==
  IF change.field = "restricted_memory_ids"
  THEN Policy(s)[change.field] \cup change.value
  ELSE change.value

\* What is in force already is not written again.
Superfluous(s, change) ==
  /\ Wanted(s, change) = Policy(s)[change.field]
  /\ Layer(change.scope, change.field, s) # 0 \/ change.scope = "session"

-----------------------------------------------------------------------------
(* Undo.                                                                   *)

Retracted == {n \in DOMAIN feedback : feedback[n].status = "retracted"}

Newer(n) ==
  \E m \in DOMAIN changes :
    /\ m > n /\ changes[m].status = "applied"
    /\ changes[m].field = changes[n].field /\ changes[m].scope = changes[n].scope
    /\ changes[n].scope = "session" => changes[m].session = changes[n].session

\* _undo_change: what it refuses as unknown, and what as superseded.
Reachable(s, n) ==
  /\ n \in DOMAIN changes /\ sessions[s].owner
  /\ changes[n].scope = "session" => changes[n].session = s

Undoable(s, n) ==
  LET t == changes[n]
      current == Layer(t.scope, t.field, s)
  IN  /\ current # 0
      /\ t.field # "restricted_memory_ids" => changes[current].after = t.after /\ ~Newer(n)
      /\ t.status = "applied"

\* The rows an undone change gives way to, those of retracted feedback apart.
Previous(n) ==
  {m \in DOMAIN changes :
     /\ m < n /\ changes[m].field = changes[n].field /\ changes[m].scope = changes[n].scope
     /\ changes[n].scope = "session" =>
          changes[m].session = changes[n].session /\ changes[m].boot = boot
     /\ changes[m].source \notin Retracted}

Ids(value) == IF value = NoValue THEN {} ELSE value

Lifted_all(t, current) == Ids(current.after) \ Ids(t.after)  \* mutant

\* Only what the undone instruction had added is lifted.
Lifted(t, current) == Ids(current.after) \ (Ids(t.after) \ Ids(t.before))

Undone(s, n, source) ==
  LET t == changes[n]
      current == changes[Layer(t.scope, t.field, s)]
      last == Max(Previous(n) \cup {0})
      row == CASE t.field = "restricted_memory_ids" ->
                    Row(s, source, t.field, t.scope,
                        Lifted(t, current), t.beforeExpires, n)
               [] t.field # "restricted_memory_ids" /\ t.before # NoValue /\ last # 0 ->
                    Row(s, source, t.field, t.scope, changes[last].after, changes[last].expires, n)
               [] t.field # "restricted_memory_ids" /\ t.before # NoValue /\ last = 0 ->
                    Row(s, source, t.field, t.scope, NoValue, 0, n)
               [] OTHER -> Row(s, source, t.field, t.scope, NoValue, t.beforeExpires, n)
  IN  Append([changes EXCEPT ![n].status = "reverted"], row)

-----------------------------------------------------------------------------
(* The calls.                                                              *)

Full == Len(feedback) >= MaxRecords \/ Len(changes) >= MaxRecords \/ Cardinality(operations) >= MaxRecords

\* _expire_payloads: after the retention time only the event's frame stays.
Expired(events) ==
  [n \in DOMAIN events |->
     IF events[n].created + Retention < clock THEN [events[n] EXCEPT !.text = FALSE] ELSE events[n]]

Bumped(rows) == latest + (Len(rows) - Len(changes))

\* An answer carries the state, and with it the revision, of the session.
Shows(w) ==
  view' = [view EXCEPT ![w] =
    [revision |-> latest', rows |-> Len(changes'), moment |-> <<boot, clock, switches'>>,
     policy |-> Policy(SessionOf[w])']]

Same == UNCHANGED <<boot, clock, switches>>

\* create_session: choosing another owner ends what the session had set.
Dropped(s, f, rows) ==
  LET place == Layer("session", f, s)
  IN  IF place # 0 /\ changes[place].after # NoValue
      THEN Append(rows, Row(s, 0, f, "session", NoValue, 0, 0)) ELSE rows

Cleared(s) ==
  Dropped(s, "restricted_memory_ids", Dropped(s, "proactive", Dropped(s, "response_length", changes)))

OpenSession(w) ==
  LET s == SessionOf[w]
  IN  /\ switches < MaxSwitches
      /\ switches' = switches + 1
      /\ \E chosen \in Selections :
           /\ sessions' = [sessions EXCEPT ![s] =
                             [known |-> TRUE, owner |-> chosen.owner, consent |-> chosen.consent]]
           /\ IF sessions[s].known /\ sessions[s].owner # chosen.owner
              THEN /\ changes' = Cleared(s)
                   /\ volatile' = [volatile EXCEPT ![s] = Unset]
                   /\ latest' = Bumped(Cleared(s))
              ELSE UNCHANGED <<changes, volatile, latest>>
      /\ UNCHANGED <<feedback, operations, boot, clock, sent>>
      /\ Shows(w)

\* state
ReadState(w) ==
  /\ sessions[SessionOf[w]].known
  /\ feedback' = Expired(feedback)
  /\ UNCHANGED <<sessions, changes, operations, latest, volatile, sent>> /\ Same
  /\ Shows(w)

FromOwner(s, r) == sessions[s].owner /\ r.offer.speaker = "owner"

Fresh_any(r) == TRUE  \* mutant

\* A change is made to what its author was shown.
Fresh(r) == r.view.revision = latest

\* submit in a session that stores nothing: only a session's own change counts.
Unsaved(s, r) ==
  LET change == Classify(r.offer).change
  IN  /\ IF change.scope = "session" /\ FromOwner(s, r) /\ Fresh(r)
         THEN /\ volatile' = [volatile EXCEPT ![s][change.field] = change.value]
              /\ latest' = IF Policy(s)[change.field] # change.value THEN latest + 1 ELSE latest
         ELSE UNCHANGED <<volatile, latest>>
      /\ UNCHANGED <<changes, feedback>>

Event(r, status, change) ==
  [session |-> SessionOf[r.window], window |-> r.window, number |-> r.number, status |-> status,
   change |-> change, created |-> clock, text |-> TRUE]

\* submit of new feedback: the event, and the change it makes if it may.
Saves(s, r) ==
  LET intent == Classify(r.offer)
      id == Len(feedback) + 1
      may == FromOwner(s, r) /\ Fresh(r)
      makes == /\ intent.change # NoChange /\ may
               /\ intent.change.expires = 0 \/ intent.change.expires > clock
               /\ ~Superfluous(s, intent.change)
      eligible == {n \in DOMAIN changes : changes[n].session = s /\ changes[n].status = "applied"}
      undoes == intent.undo /\ may /\ eligible # {} /\ Undoable(s, Max(eligible))
      made == Row(s, id, intent.change.field, intent.change.scope, Wanted(s, intent.change),
                  intent.change.expires, 0)
      rows == IF makes THEN Append(changes, made)
              ELSE IF undoes THEN Undone(s, Max(eligible), id) ELSE changes
      unclear == \/ intent.needs
                 \/ (intent.change # NoChange \/ intent.undo) /\ ~FromOwner(s, r)
                 \/ intent.undo /\ may /\ eligible = {}
  IN  /\ changes' = rows
      /\ latest' = Bumped(rows)
      /\ feedback' = Append(Expired(feedback),
                       Event(r, IF unclear THEN "needs_clarification" ELSE "recorded",
                             IF makes \/ undoes THEN Len(rows) ELSE 0))
      /\ UNCHANGED volatile

\* submit: a request that came before, known by its key, gets its old answer.
AlreadyHeld(r) ==
  \E n \in DOMAIN feedback :
    feedback[n].window = r.window /\ feedback[n].number = r.number

Receive(w, r) ==
  LET s == SessionOf[w]
  IN  /\ sessions[s].known
      /\ IF ~Classify(r.offer).recognized
         THEN feedback' = Expired(feedback) /\ UNCHANGED <<changes, latest, volatile>>
         ELSE \/ ~sessions[s].consent /\ Unsaved(s, r)
              \/ sessions[s].consent /\ ~AlreadyHeld(r) /\ ~Full /\ Saves(s, r)
              \/ /\ sessions[s].consent /\ (AlreadyHeld(r) \/ Full)
                 /\ UNCHANGED <<changes, feedback, latest, volatile>>
      /\ UNCHANGED <<sessions, operations>> /\ Same

Submit(w) ==
  \E o \in Offers :
    LET r == [window |-> w, number |-> sent[w].number + 1, view |-> view[w], offer |-> o]
    IN  /\ sent[w].number < MaxRecords
        /\ sent' = [sent EXCEPT ![w] = r]
        /\ Receive(w, r)
        /\ Shows(w)

\* The answer was lost: the window sends the request again.
Resend(w) ==
  /\ sent[w] # NoRequest
  /\ Receive(w, sent[w])
  /\ UNCHANGED <<sent, view>>

\* _operation: undo and retract, with their own keys.
Operates(w, action, target) ==
  /\ sessions[SessionOf[w]].known /\ sessions[SessionOf[w]].owner
  /\ view[w].revision = latest /\ ~Full
  /\ operations' = operations \cup {<<SessionOf[w], Cardinality(operations), action, target>>}
  /\ UNCHANGED <<sessions, volatile, sent>> /\ Same

Undo(w, n) ==
  /\ Reachable(SessionOf[w], n) /\ Undoable(SessionOf[w], n)
  /\ Operates(w, "undo", n)
  /\ changes' = Undone(SessionOf[w], n, 0)
  /\ latest' = Bumped(changes')
  /\ UNCHANGED feedback
  /\ Shows(w)

Retract(w, n) ==
  LET s == SessionOf[w]
      change == feedback[n].change
      takesBack == change # 0 /\ Reachable(s, change) /\ Undoable(s, change)
  IN  /\ Operates(w, "retract", n)
      /\ changes' = IF takesBack THEN Undone(s, change, 0) ELSE changes
      /\ latest' = Bumped(changes')
      /\ \E delete \in BOOLEAN :
           feedback' = [feedback EXCEPT ![n].status = "retracted",
                                        ![n].text = ~delete /\ feedback[n].text]
      /\ Shows(w)

Restart ==
  /\ boot < MaxRestarts
  /\ boot' = boot + 1
  /\ volatile' = [s \in Sessions |-> Unset]
  /\ UNCHANGED <<sessions, changes, feedback, operations, latest, clock, switches, view, sent>>

Tick ==
  /\ clock < MaxTime
  /\ clock' = clock + 1
  /\ UNCHANGED <<sessions, changes, feedback, operations, latest, volatile, boot, switches,
                 view, sent>>

ResidentInit ==
  /\ sessions = [s \in Sessions |-> [known |-> FALSE, owner |-> FALSE, consent |-> FALSE]]
  /\ changes = <<>> /\ feedback = <<>> /\ operations = {}
  /\ latest = 0 /\ boot = 0 /\ clock = 0 /\ switches = 0
  /\ volatile = [s \in Sessions |-> Unset]
  /\ view = [w \in Windows |->
       [revision |-> 0, rows |-> 0, moment |-> <<0, 0, 0>>, policy |-> Default]]
  /\ sent = [w \in Windows |-> NoRequest]

ResidentNext ==
  \/ \E w \in Windows :
       \/ OpenSession(w) \/ ReadState(w) \/ Submit(w) \/ Resend(w)
       \/ \E n \in DOMAIN changes : Undo(w, n)
       \/ \E n \in DOMAIN feedback : Retract(w, n)
  \/ Restart \/ Tick

ResidentSpec == ResidentInit /\ [][ResidentNext]_residentVars

-----------------------------------------------------------------------------
\* Feedback changes a profile only as its window was shown it: what another window
\* changed or took back in between, stored or not, makes it stale; and a request
\* that is sent again changes nothing again (resident_service.py:233, 283).
AppliedOnWhatWasSeen ==
  [][Len(feedback') > Len(feedback) /\ feedback'[Len(feedback')].change # 0 =>
       LET e == feedback'[Len(feedback')]
           seen == sent'[e.window].view
       IN  /\ seen.rows = Len(changes)
           /\ seen.moment = <<boot, clock, switches>> => seen.policy = Policy(e.session)]_residentVars

\* Taking a change back gives its field the value it had before, unless that was said in a
\* session of an earlier process or retracted since; a restriction that is lifted lifts no
\* other (resident_service.py:324).
UndoRestores ==
  [][Len(changes') > Len(changes) /\ changes'[Len(changes')].undoes # 0 =>
       LET u == changes'[Len(changes')]
           t == changes[u.undoes]
       IN  IF t.field = "restricted_memory_ids"
           THEN \A n \in DOMAIN changes' :
                  changes'[n].field = t.field /\ changes'[n].scope = t.scope
                    /\ changes'[n].status = "applied" =>
                  Ids(changes'[n].after) \ Ids(changes'[n].before) \subseteq u.after
           ELSE Retracted = {} /\ (t.scope = "session" => t.boot = boot) => u.after = t.before]_residentVars

=============================================================================
