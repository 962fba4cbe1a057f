----------------------------- MODULE RecordingSpool -----------------------------
(***************************************************************************)
(* desktop/recording: the private spool that carries what was said in a    *)
(* conversation to Karte, the canonical store.  A turn of a conversation   *)
(* is one file; it holds the accepted user event, a draft of the answer    *)
(* while the answer is being produced, and the result event afterwards.    *)
(* The dispatcher sends the oldest unconfirmed event of a conversation as  *)
(* a proposal, waits for Karte's receipt, reads the record back and only   *)
(* then drops the local copy.                                              *)
(*                                                                         *)
(* Memory and disk are separate: `turns', `heads', `completed', `enabled'  *)
(* are what the process holds, `file', `headsFile', `completedFile',       *)
(* `enabledFile' what a crash leaves.  A write of one file is atomic (temp *)
(* file, fsync, rename, directory fsync) but may report an error before    *)
(* the rename ("early": the disk has the old file) or after it ("late":    *)
(* the disk has the new one).                                              *)
(*                                                                         *)
(* Abstractions.  A text is its length in committed units, the last of     *)
(* which, MaxText, stands for the observed end of the generation; a        *)
(* continuation starts at the length it continues.  Draft.Epoch matters    *)
(* only where it is compared with Settings.Epoch, so `current' is the set  *)
(* of drafts for which the two are equal.  The backoff clock is left out:  *)
(* a pending item may be retried at any moment, and only whether an item   *)
(* is blocked (permission, conflict, failure) is kept of its state.        *)
(* Segments of a record are one growing record whose revision is its       *)
(* length.  Capacity counts events, not bytes.                             *)
(***************************************************************************)
EXTENDS Naturals, Sequences, FiniteSets

CONSTANTS Keys,           \* turn keys (a request's SHA-1 id)
          Convs,          \* conversation ids
          ConvOf,         \* the conversation each turn belongs to
          MaxText,        \* bound on the committed units; MaxText: complete
          MaxPending,     \* maxPendingEvents
          Candidates,     \* fresh proposal ids, enough for every rebuild
          NoCandidate,
          Faults,         \* ways a write may fail: a subset of {"early", "late"}
          KarteErrors,    \* error classes of an attempt other than a timeout
          MaxCrashes      \* bound on crashes and restarts

ASSUME ConvOfAssumption == ConvOf \in [Keys -> Convs]
ASSUME BoundsAssumption ==
  /\ MaxText \in Nat /\ MaxPending \in Nat /\ MaxCrashes \in Nat
ASSUME CandidateAssumption == NoCandidate \notin Candidates
ASSUME FaultAssumption ==
  /\ Faults \subseteq {"early", "late"}
  /\ KarteErrors \subseteq {"permission", "failed"}

Kinds  == {"user_final", "assistant_result"}
Events == Keys \X Kinds
NoEvent == <<"none", "none">>
Conv(e) == ConvOf[e[1]]

Texts == 0..MaxText
Steps == {"idle", "prepare", "send", "poll", "readback", "failed"}
Codes == {"none", "offline", "storage", "permission", "failed"}

\* A delivery.  seq = 0: the turn has no such item.
Items == [seq : Nat, cand : Candidates \cup {NoCandidate}, base : Nat,
          verified : BOOLEAN, blocked : BOOLEAN]
NoItem == [seq |-> 0, cand |-> NoCandidate, base |-> 0, verified |-> FALSE,
           blocked |-> FALSE]

\* A turn file.  open: its Draft is not nil; text and complete are then the
\* draft's, and once it is closed those of the result event, where complete
\* is Generation = "completed".
Turns == [open : BOOLEAN, skip : Texts, text : Texts, complete : BOOLEAN,
          items : [Kinds -> Items]]
NoTurn == [open |-> FALSE, skip |-> 0, text |-> 0, complete |-> FALSE,
           items |-> [kd \in Kinds |-> NoItem]]

Heads == [seq : Nat, rev : Nat]
Proposals == [event : Events, id : Candidates, base : Nat, seq : Nat]

VARIABLES
  \* the process
  phase,          \* "down", "loading", "up", "closing"
  todo,           \* turns New() has not recovered yet
  enabled,        \* Settings.Enabled
  current,        \* drafts whose Epoch is Settings.Epoch
  storageFailed,  \* Store.code = "recording_storage_failed"
  turns, seq, heads, completed,
  flight,         \* the attempt DispatchOnce has under way
  \* the spool directory
  file, headsFile, completedFile, enabledFile,
  \* Karte: proposals to read, answers, and the record of each conversation
  outbox, rejected, receipts, canon,
  \* the interaction that is recorded, and history for the properties
  said,           \* said[k]: committed units of k's answer so far
  limit,          \* limit[k]: units said before recording was first turned off
  acked,          \* events a caller was told are preserved
  crashes

life     == <<phase, todo>>
settings == <<enabled, current, storageFailed>>
store    == <<turns, seq, heads, completed>>
disk     == <<file, headsFile, completedFile, enabledFile>>
karte    == <<outbox, rejected, receipts, canon>>
ghost    == <<said, limit, acked, crashes>>
vars     == <<life, settings, store, flight, disk, karte, ghost>>

NoFlight == [event |-> NoEvent, step |-> "idle", code |-> "none"]
NoHead   == [seq |-> 0, rev |-> 0]

-----------------------------------------------------------------------------
(* Turns and items *)

Item(t, e) == t[e[1]].items[e[2]]
Has(t, e)  == Item(t, e).seq > 0
Present(t) == t.open \/ \E kd \in Kinds : t.items[kd].seq > 0
AllVerified_any(t) == \E kd \in Kinds : t.items[kd].verified   \* mutant
AllVerified(t) == \A kd \in Kinds : t.items[kd].seq > 0 => t.items[kd].verified

Unverified(e) == Has(turns, e) /\ ~Item(turns, e).verified

\* Begin* refuse a key that is live or was completed within the last day.
Known(k) == Present(turns[k]) \/ k \in completed

\* hasCapacity reserves room for the result of every open draft.
PendingEvents(t) ==
  Cardinality({k \in Keys : t[k].open})
    + Cardinality({e \in Events : Has(t, e) /\ ~Item(t, e).verified})
HasCapacity(extra) == PendingEvents(turns) + extra =< MaxPending

SetItem(t, kd, i) == [t EXCEPT !.items[kd] = i]
NewItem(n) == [NoItem EXCEPT !.seq = n]
Complete(k) == said[k] = MaxText

\* finishLocked: the draft becomes the result event.
Closed(t, n, complete) ==
  [SetItem(t, "assistant_result", NewItem(n)) EXCEPT !.open = FALSE,
                                                     !.complete = complete]

-----------------------------------------------------------------------------
(* Writing files and pausing *)

\* The file after a write that reported w.
Written(old, new, w) == IF w = "early" THEN old ELSE new

\* saveTurn(k): the caller continues with the file as `w' left it.
SaveTurn(k, t, w) == file' = [file EXCEPT ![k] = Written(@, t, w)]

\* saveSettings, whose error nobody looks at.
SaveEnabled(b) ==
  \E w \in {"ok"} \cup Faults : enabledFile' = Written(enabledFile, b, w)

\* Recording goes off: no draft can take more text, whatever happens later.
TurnOff ==
  /\ enabled' = FALSE
  /\ current' = {}
  /\ limit' = [k \in Keys |-> IF turns[k].open /\ said[k] < limit[k]
                              THEN said[k] ELSE limit[k]]
  /\ SaveEnabled(FALSE)

\* Store.pause(code)
Pause(isStorage) == TurnOff /\ storageFailed' = isStorage

NoPause == UNCHANGED <<settings, enabledFile, limit>>

-----------------------------------------------------------------------------
(* Begin, BeginCandidate, BeginContinuation, Checkpoint, Finish *)

\* A turn enters the spool: the file first, then memory.  n is the seq of the
\* user event, 0 when there is none.
StartTurn(k, skip, n, w) ==
  LET draft == [NoTurn EXCEPT !.open = TRUE, !.skip = skip]
      t == IF n = 0 THEN draft ELSE SetItem(draft, "user_final", NewItem(n))
  IN  /\ SaveTurn(k, t, w)
      /\ said' = [said EXCEPT ![k] = skip]
      /\ IF w = "ok"
           THEN /\ turns' = [turns EXCEPT ![k] = t]
                /\ current' = current \cup {k}
                /\ seq' = IF n = 0 THEN seq ELSE [seq EXCEPT ![ConvOf[k]] = n]
                /\ limit' = [limit EXCEPT ![k] = MaxText]
                /\ acked' = IF n = 0 THEN acked ELSE acked \cup {<<k, "user_final">>}
                /\ UNCHANGED <<enabled, storageFailed, enabledFile>>
           ELSE /\ Pause(TRUE)
                /\ UNCHANGED <<turns, seq, acked>>
      /\ UNCHANGED <<life, heads, completed, flight, headsFile, completedFile,
                     karte, crashes>>

Begin(k) ==
  /\ phase = "up" /\ enabled /\ ~Known(k)
  /\ HasCapacity(2)
  /\ \E w \in {"ok"} \cup Faults : StartTurn(k, 0, seq[ConvOf[k]] + 1, w)

BeginCandidate(k) ==
  /\ phase = "up" /\ enabled /\ ~Known(k)
  /\ HasCapacity(1)
  /\ \E w \in {"ok"} \cup Faults : StartTurn(k, 0, 0, w)

\* k continues the turn `orig', which must be in the spool or delivered.
BeginContinuation(k, orig) ==
  /\ phase = "up" /\ enabled /\ ~Known(k)
  /\ Known(orig) /\ ConvOf[orig] = ConvOf[k]
  /\ HasCapacity(1)
  /\ \E w \in {"ok"} \cup Faults : StartTurn(k, said[orig], 0, w)

\* Begin* with an input they reject, or a full queue: recording is paused.
BeginRefused(k) ==
  /\ phase = "up" /\ enabled /\ ~Known(k)
  /\ Pause(FALSE)
  /\ UNCHANGED <<life, store, flight, file, headsFile, completedFile, karte,
                 said, acked, crashes>>

\* The interaction commits one more unit of the answer, or its end.
Commit(k) ==
  /\ phase \in {"up", "closing"} /\ turns[k].open /\ said[k] < MaxText
  /\ said' = [said EXCEPT ![k] = @ + 1]
  /\ UNCHANGED <<life, settings, store, flight, disk, karte, limit, acked,
                 crashes>>

\* What a checkpoint takes over: the text so far without the continued prefix,
\* unless recording is off or was off since the turn began.
Captured_always(k) == said[k] - turns[k].skip   \* mutant
Captured(k) ==
  IF enabled /\ k \in current THEN said[k] - turns[k].skip ELSE turns[k].text

Checkpoint(k) ==
  LET t == turns[k]
      d == [t EXCEPT !.text = Captured(k), !.complete = Complete(k)]
  IN
  /\ phase \in {"up", "closing"} /\ t.open
  /\ \E w \in {"ok"} \cup Faults :
       /\ SaveTurn(k, d, w)
       /\ \/ w = "ok" /\ turns' = [turns EXCEPT ![k] = d] /\ NoPause
          \/ w # "ok" /\ UNCHANGED turns /\ Pause(TRUE)
  /\ UNCHANGED <<life, seq, heads, completed, flight, headsFile, completedFile,
                 karte, said, acked, crashes>>

\* A text that is too long, or shorter than the prefix it should continue.
CheckpointRefused(k) ==
  /\ phase \in {"up", "closing"} /\ turns[k].open /\ enabled /\ k \in current
  /\ Pause(FALSE)
  /\ UNCHANGED <<life, store, flight, file, headsFile, completedFile, karte,
                 said, acked, crashes>>

\* Not gated by Enabled or by a storage failure: the end of a turn is recorded.
Finish(k) ==
  LET n == seq[ConvOf[k]] + 1
      t == Closed(turns[k], n, Complete(k))
  IN
  /\ phase \in {"up", "closing"} /\ turns[k].open
  /\ \E w \in {"ok"} \cup Faults :
       /\ SaveTurn(k, t, w)
       /\ \/ /\ w = "ok"
             /\ turns' = [turns EXCEPT ![k] = t]
             /\ seq' = [seq EXCEPT ![ConvOf[k]] = n]
             /\ acked' = acked \cup {<<k, "assistant_result">>}
             /\ NoPause
          \/ /\ w # "ok"
             /\ UNCHANGED <<turns, seq, acked>>
             /\ Pause(TRUE)
  /\ UNCHANGED <<life, heads, completed, flight, headsFile, completedFile,
                 karte, said, crashes>>

-----------------------------------------------------------------------------
(* Configure and Retry *)

ConfigureOff ==
  /\ phase = "up"
  /\ TurnOff
  /\ UNCHANGED <<life, storageFailed, store, flight, file, headsFile,
                 completedFile, karte, said, acked, crashes>>

\* Takes dispatchMu, so no attempt is under way.
ConfigureOn ==
  /\ phase = "up" /\ flight.step = "idle" /\ ~storageFailed
  /\ enabled' = TRUE
  /\ current' = IF enabled THEN current ELSE {}
  /\ SaveEnabled(TRUE)
  /\ UNCHANGED <<life, storageFailed, store, flight, file, headsFile,
                 completedFile, karte, ghost>>

\* Every unverified item may be sent again.  The turns are saved one by one,
\* in map order; the first error ends the loop.
ResetItem(i) ==
  [i EXCEPT !.blocked = IF i.seq > 0 /\ ~i.verified THEN FALSE ELSE @]
ResetItems(t) ==
  [t EXCEPT !.items = [kd \in Kinds |-> ResetItem(t.items[kd])]]

Retry ==
  /\ phase = "up" /\ ~storageFailed
  /\ \E visited \in SUBSET {k \in Keys : Present(turns[k])},
        w \in {"ok"} \cup Faults :
       \E last \in visited :
         /\ w = "ok" => visited = {k \in Keys : Present(turns[k])}
         /\ turns' = [k \in Keys |-> IF k \in visited THEN ResetItems(turns[k])
                                                      ELSE turns[k]]
         /\ file' = [k \in Keys |->
              CASE k \in visited /\ k # last -> turns'[k]
                [] k \in visited /\ k = last -> Written(file[k], turns'[k], w)
                [] OTHER -> file[k]]
  /\ UNCHANGED <<life, settings, seq, heads, completed, flight, headsFile,
                 completedFile, enabledFile, karte, ghost>>

-----------------------------------------------------------------------------
(* DispatchOnce: choose, prepare, send, wait, read back, and record the end *)

\* The oldest unverified item of its conversation, in the order of seq.
Oldest(e) ==
  /\ Unverified(e)
  /\ \A f \in Events : Conv(f) = Conv(e) /\ Unverified(f)
                         => Item(turns, e).seq =< Item(turns, f).seq

\* Proposal ids of an event that somebody may still know.
UsedIds(e) ==
  {p.id : p \in {q \in outbox \cup rejected \cup receipts : q.event = e}}
    \cup {Item(file, e).cand} \cup {Item(turns, e).cand}

Proposal(e) == LET i == Item(turns, e) IN
  [event |-> e, id |-> i.cand, base |-> i.base, seq |-> i.seq]

Goto(step, code) == flight' = [flight EXCEPT !.step = step, !.code = code]

\* The choice, under mu.  The turn is saved before anything is sent.
Dispatch(e) ==
  /\ phase = "up" /\ flight.step = "idle" /\ ~storageFailed
  /\ Oldest(e) /\ ~Item(turns, e).blocked
  /\ \E w \in {"ok"} \cup Faults :
       /\ SaveTurn(e[1], turns[e[1]], w)
       /\ \/ /\ w = "ok" /\ NoPause
             /\ flight' = [event |-> e, step |-> "prepare", code |-> "none"]
          \/ w # "ok" /\ Pause(TRUE) /\ UNCHANGED flight
  /\ UNCHANGED <<life, store, headsFile, completedFile, karte, said, acked,
                 crashes>>

\* The attempt fails before its proposal is sent or after it was answered:
\* no credential, guard or capability, an unreadable reply, a timeout.
AttemptFails ==
  /\ flight.step \in {"prepare", "send", "poll", "readback"}
  /\ \E code \in {"offline"} \cup KarteErrors : Goto("failed", code)
  /\ UNCHANGED <<life, settings, store, disk, karte, ghost>>

\* buildProposal once per event: the id and the target revision are saved
\* before the first send, and every later attempt sends the same bytes.
Prepare ==
  LET e == flight.event
      i == Item(turns, e)
  IN
  /\ flight.step = "prepare"
  /\ \/ /\ i.cand # NoCandidate
        /\ Goto("send", "none")
        /\ UNCHANGED <<turns, file>>
     \/ /\ i.cand = NoCandidate
        /\ \E id \in Candidates \ UsedIds(e), w \in {"ok"} \cup Faults :
             LET t == SetItem(turns[e[1]], e[2],
                        [i EXCEPT !.cand = id, !.base = heads[Conv(e)].rev])
             IN  /\ SaveTurn(e[1], t, w)
                 /\ \/ /\ w = "ok"
                       /\ turns' = [turns EXCEPT ![e[1]] = t]
                       /\ Goto("send", "none")
                    \/ w # "ok" /\ UNCHANGED turns /\ Goto("failed", "storage")
  /\ UNCHANGED <<life, settings, seq, heads, completed, headsFile,
                 completedFile, enabledFile, karte, ghost>>

\* An answer that is already there is not asked for again.
Send ==
  LET p == Proposal(flight.event) IN
  /\ flight.step = "send"
  /\ \/ p \in receipts /\ Goto("readback", "none") /\ UNCHANGED outbox
     \/ p \notin receipts /\ Goto("poll", "none") /\ outbox' = outbox \cup {p}
  /\ UNCHANGED <<life, settings, store, disk, rejected, receipts, canon, ghost>>

\* A receipt wins over a rejection.
Poll ==
  LET p == Proposal(flight.event) IN
  /\ flight.step = "poll"
  /\ \/ p \in receipts /\ Goto("readback", "none")
     \/ /\ p \notin receipts /\ p \in rejected
        /\ \E code \in KarteErrors : Goto("failed", code)
  /\ UNCHANGED <<life, settings, store, disk, karte, ghost>>

\* What memory holds once the process is gone.
Gone ==
  /\ phase' = "down" /\ todo' = {} /\ flight' = NoFlight
  /\ enabled' = FALSE /\ current' = {} /\ storageFailed' = FALSE
  /\ turns' = [k \in Keys |-> NoTurn]
  /\ seq' = [c \in Convs |-> 0]
  /\ heads' = [c \in Convs |-> NoHead]
  /\ completed' = {}

Confirmed(e) ==
  SetItem(turns[e[1]], e[2],
          [Item(turns, e) EXCEPT !.cand = NoCandidate, !.verified = TRUE,
                                 !.blocked = FALSE])

\* advanceHead
Advanced_staleBase(h, i) ==   \* mutant
  IF h.seq >= i.seq THEN h ELSE [seq |-> i.seq, rev |-> i.base]
Advanced(h, i) == IF h.seq >= i.seq THEN h ELSE [seq |-> i.seq, rev |-> i.base + 1]

\* The verified state, the heads, the completed keys and the removal of the
\* turn file: two writes, or four when nothing of the turn is left to deliver.
ConfirmWrites_early(t) == IF ~t.open THEN 4 ELSE 2   \* mutant
ConfirmWrites(t) == IF ~t.open /\ AllVerified(t) THEN 4 ELSE 2

\* The disk after the first n of these writes.
ConfirmDisk(e, n) ==
  LET k == e[1]
      t == Confirmed(e)
      h == [heads EXCEPT ![Conv(e)] = Advanced(@, Item(turns, e))]
  IN
  /\ file' = [file EXCEPT ![k] = CASE n = 4 -> NoTurn
                                   [] n \in 1..3 -> t
                                   [] n = 0 -> @]
  /\ headsFile' = IF n >= 2 THEN h ELSE headsFile
  /\ completedFile' = IF n >= 3 THEN completed \cup {k} ELSE completedFile

\* The record was read back and holds the event: the local copy goes.
Confirm ==
  LET e == flight.event
      k == e[1]
      t == Confirmed(e)
      h == [heads EXCEPT ![Conv(e)] = Advanced(@, Item(turns, e))]
      all == ConfirmWrites(t)
  IN
  /\ flight.step = "readback"
  /\ ConfirmDisk(e, all)
  /\ turns' = [turns EXCEPT ![k] = IF all = 4 THEN NoTurn ELSE t]
  /\ heads' = h
  /\ completed' = IF all = 4 THEN completed \cup {k} ELSE completed
  /\ flight' = NoFlight
  /\ UNCHANGED <<life, settings, seq, enabledFile, karte, ghost>>

\* One of the writes reports an error.  Memory went as far as the write before.
ConfirmFails ==
  LET e == flight.event
      k == e[1]
      h == [heads EXCEPT ![Conv(e)] = Advanced(@, Item(turns, e))]
  IN
  /\ flight.step = "readback"
  /\ \E n \in 0..(ConfirmWrites(Confirmed(e)) - 1), w \in Faults :
       /\ ConfirmDisk(e, IF w = "late" THEN n + 1 ELSE n)
       /\ turns' = IF n = 0 THEN turns ELSE [turns EXCEPT ![k] = Confirmed(e)]
       /\ heads' = IF n = 0 THEN heads ELSE h
       /\ completed' = IF n >= 2 THEN completed \cup {k} ELSE completed
  /\ Goto("failed", "storage")
  /\ UNCHANGED <<life, settings, seq, enabledFile, karte, ghost>>

\* The process dies between two of them.
ConfirmCrashes ==
  /\ flight.step = "readback" /\ crashes < MaxCrashes
  /\ \E n \in 1..(ConfirmWrites(Confirmed(flight.event)) - 1) :
       ConfirmDisk(flight.event, n)
  /\ Gone
  /\ crashes' = crashes + 1
  /\ UNCHANGED <<enabledFile, karte, said, limit, acked>>

\* The failed attempt is recorded, under mu again.  A failure to save it
\* leaves recording on.
RecordFailure ==
  LET e == flight.event
      t == SetItem(turns[e[1]], e[2],
             [Item(turns, e) EXCEPT !.blocked = (flight.code # "offline")])
  IN
  /\ flight.step = "failed"
  /\ flight' = NoFlight
  /\ turns' = [turns EXCEPT ![e[1]] = t]
  /\ \E w \in {"ok"} \cup Faults :
       /\ SaveTurn(e[1], t, w)
       /\ IF flight.code \in {"permission", "storage"}
            THEN /\ TurnOff
                 /\ storageFailed' = (flight.code = "storage" \/ w # "ok")
            ELSE /\ storageFailed' = (storageFailed \/ w # "ok")
                 /\ UNCHANGED <<enabled, current, enabledFile, limit>>
  /\ UNCHANGED <<life, seq, heads, completed, headsFile, completedFile, karte,
                 said, acked, crashes>>

-----------------------------------------------------------------------------
(* Close, crash and New *)

Close ==
  /\ phase = "up" /\ phase' = "closing"
  /\ crashes < MaxCrashes /\ crashes' = crashes + 1
  /\ UNCHANGED <<todo, settings, store, flight, disk, karte, said, limit, acked>>

\* Close waits for the attempt under way before it gives the directory up.
Exit ==
  /\ phase = "closing" /\ flight.step = "idle"
  /\ Gone
  /\ UNCHANGED <<disk, karte, ghost>>

Crash ==
  /\ phase \in {"loading", "up"} /\ crashes < MaxCrashes
  /\ Gone
  /\ crashes' = crashes + 1
  /\ UNCHANGED <<disk, karte, said, limit, acked>>

\* What saved heads and verified items together say of the head of c: New()
\* takes one with the highest seq.
KnownHeads(c) ==
  {headsFile[c]} \cup
  {Advanced(headsFile[c], Item(file, e)) :
     e \in {f \in Events : Conv(f) = c /\ Has(file, f) /\ Item(file, f).verified}}
LoadedHeads(c) ==
  {h \in KnownHeads(c) : \A g \in KnownHeads(c) : g.seq =< h.seq}

\* seq[c] resumes after the highest number the head or a file names.
NumbersOf_filesOnly(c, h) ==   \* mutant
  {0} \cup {Item(file, e).seq : e \in {f \in Events : Conv(f) = c}}
NumbersOf(c, h) ==
  {h.seq} \cup {Item(file, e).seq : e \in {f \in Events : Conv(f) = c}}
LoadedSeqs(c, h) ==
  {n \in NumbersOf(c, h) : \A m \in NumbersOf(c, h) : m =< n}

\* New(), up to saveHeads: the process knows what the files say.
Open ==
  /\ phase = "down"
  /\ phase' = "loading"
  /\ turns' = file
  /\ completed' = completedFile
  /\ \E h \in [Convs -> UNION {LoadedHeads(c) : c \in Convs}] :
       /\ \A c \in Convs : h[c] \in LoadedHeads(c)
       /\ heads' = h
       /\ headsFile' = h
       /\ \E n \in [Convs -> UNION {NumbersOf(c, h[c]) : c \in Convs}] :
            /\ \A c \in Convs : n[c] \in LoadedSeqs(c, h[c])
            /\ seq' = n
  /\ todo' = {k \in Keys : Present(file[k])}
  /\ enabled' = enabledFile
  /\ UNCHANGED <<current, storageFailed, flight, file, completedFile,
                 enabledFile, karte, ghost>>

\* New() stops half-way: the process dies, or a write reports an error and
\* New() gives up; the disk has what the steps before it wrote.
Interrupted ==
  \/ crashes < MaxCrashes /\ crashes' = crashes + 1
  \/ Faults # {} /\ UNCHANGED crashes

LoadFails ==
  /\ phase = "loading" /\ Faults # {}
  /\ Gone
  /\ UNCHANGED <<disk, karte, ghost>>

\* An interrupted answer is closed with the text that was checkpointed.
RecoverDraft(k) ==
  LET n == seq[ConvOf[k]] + 1
      t == Closed(turns[k], n, turns[k].complete)
  IN
  /\ phase = "loading" /\ k \in todo /\ turns[k].open
  /\ \E w \in {"ok"} \cup Faults :
       /\ SaveTurn(k, t, w)
       /\ \/ /\ w = "ok"
             /\ turns' = [turns EXCEPT ![k] = t]
             /\ seq' = [seq EXCEPT ![ConvOf[k]] = n]
             /\ todo' = todo \ {k}
             /\ UNCHANGED <<phase, settings, heads, completed, flight,
                            enabledFile>>
          \/ w # "ok" /\ SaveEnabled(FALSE) /\ Gone
  /\ UNCHANGED <<headsFile, completedFile, karte, ghost>>

\* A turn whose last item was verified before the crash is removed now.
RecoverVerified(k) ==
  /\ phase = "loading" /\ k \in todo
  /\ ~turns[k].open /\ AllVerified(turns[k])
  /\ completedFile' = completed \cup {k}
  /\ \/ /\ file' = [file EXCEPT ![k] = NoTurn]
        /\ turns' = [turns EXCEPT ![k] = NoTurn]
        /\ completed' = completed \cup {k}
        /\ todo' = todo \ {k}
        /\ UNCHANGED <<phase, settings, seq, heads, flight, crashes>>
     \/ /\ Interrupted \* between the two writes
        /\ Gone
        /\ UNCHANGED file
  /\ UNCHANGED <<headsFile, enabledFile, karte, said, limit, acked>>

\* A turn with something to deliver stays as it is.
RecoverPending(k) ==
  /\ phase = "loading" /\ k \in todo
  /\ ~turns[k].open /\ ~AllVerified(turns[k])
  /\ todo' = todo \ {k}
  /\ UNCHANGED <<phase, settings, store, flight, disk, karte, ghost>>

Loaded ==
  /\ phase = "loading" /\ todo = {}
  /\ phase' = "up"
  /\ enabledFile' = enabled
  /\ UNCHANGED <<todo, settings, store, flight, file, headsFile, completedFile,
                 karte, ghost>>

-----------------------------------------------------------------------------
(* Karte (external).  It appends a proposal to the record whose current     *)
(* revision the proposal names, once; it may refuse anything.  It does not  *)
(* look at seq: the order of events is the spool's business.                *)

InRecord(c, p) == \E i \in 1..Len(canon[c]) : canon[c][i] = p
Applied(p) == InRecord(Conv(p.event), p)

KarteApply(p) ==
  /\ p \in outbox /\ ~Applied(p)
  /\ p.base = Len(canon[Conv(p.event)])
  /\ canon' = [canon EXCEPT ![Conv(p.event)] = Append(@, p)]
  /\ UNCHANGED <<life, settings, store, flight, disk, outbox, rejected,
                 receipts, ghost>>

KarteReceipt(p) ==
  /\ p \in outbox /\ Applied(p)
  /\ receipts' = receipts \cup {p}
  /\ outbox' = outbox \ {p}
  /\ UNCHANGED <<life, settings, store, flight, disk, rejected, canon, ghost>>

KarteReject(p) ==
  /\ KarteErrors # {}
  /\ p \in outbox /\ ~Applied(p)
  /\ rejected' = rejected \cup {p}
  /\ outbox' = outbox \ {p}
  /\ UNCHANGED <<life, settings, store, flight, disk, receipts, canon, ghost>>

-----------------------------------------------------------------------------

Init ==
  /\ phase = "up" /\ todo = {} /\ enabled = TRUE /\ current = {}
  /\ storageFailed = FALSE
  /\ turns = [k \in Keys |-> NoTurn] /\ file = turns
  /\ seq = [c \in Convs |-> 0]
  /\ heads = [c \in Convs |-> NoHead] /\ headsFile = heads
  /\ completed = {} /\ completedFile = {} /\ enabledFile = TRUE
  /\ flight = NoFlight
  /\ outbox = {} /\ rejected = {} /\ receipts = {}
  /\ canon = [c \in Convs |-> <<>>]
  /\ said = [k \in Keys |-> 0]
  /\ limit = [k \in Keys |-> MaxText]
  /\ acked = {} /\ crashes = 0

Interaction ==
  \E k \in Keys : \/ Begin(k) \/ BeginCandidate(k) \/ BeginRefused(k)
                  \/ \E orig \in Keys : BeginContinuation(k, orig)
                  \/ Commit(k) \/ Checkpoint(k) \/ CheckpointRefused(k)
                  \/ Finish(k)
Settings == ConfigureOff \/ ConfigureOn \/ Retry
Dispatcher == \/ \E e \in Events : Dispatch(e)
              \/ Prepare \/ Send \/ Poll \/ Confirm \/ ConfirmFails
              \/ AttemptFails \/ RecordFailure
Restart == \/ Open \/ Loaded
           \/ \E k \in Keys : \/ RecoverDraft(k) \/ RecoverVerified(k)
                              \/ RecoverPending(k)
Failure == ConfirmCrashes \/ Crash \/ Close \/ Exit \/ LoadFails
Karte == \E p \in outbox : KarteApply(p) \/ KarteReceipt(p) \/ KarteReject(p)

Next == Interaction \/ Settings \/ Dispatcher \/ Restart \/ Failure \/ Karte

Spec == Init /\ [][Next]_vars

\* Store.Start's goroutine tries again every second for as long as the process
\* lives, an attempt ends within its timeout, New() runs to its end, and Karte
\* answers what it was sent.  The strong fairness is the assumption that the
\* guard, the disk and Karte are not unavailable every single time.
Fairness ==
  /\ \A e \in Events : SF_vars(Dispatch(e))
  /\ WF_vars(RecordFailure) /\ WF_vars(Exit)
  /\ SF_vars(Prepare) /\ SF_vars(Send) /\ SF_vars(Poll) /\ SF_vars(Confirm)
  /\ WF_vars(Restart)
  /\ WF_vars(\E p \in outbox : KarteApply(p))
  /\ WF_vars(\E p \in outbox : KarteReceipt(p))

FairSpec == Spec /\ Fairness

-----------------------------------------------------------------------------
(* Properties *)

\* Every variable stays in its range.
TypeOK ==
  /\ phase \in {"down", "loading", "up", "closing"}
  /\ todo \subseteq Keys /\ current \subseteq Keys
  /\ enabled \in BOOLEAN /\ storageFailed \in BOOLEAN /\ enabledFile \in BOOLEAN
  /\ turns \in [Keys -> Turns] /\ file \in [Keys -> Turns]
  /\ seq \in [Convs -> Nat]
  /\ heads \in [Convs -> Heads] /\ headsFile \in [Convs -> Heads]
  /\ completed \subseteq Keys /\ completedFile \subseteq Keys
  /\ flight \in [event : Events \cup {NoEvent}, step : Steps, code : Codes]
  /\ flight.step # "idle" => flight.event \in Events
  /\ outbox \subseteq Proposals /\ rejected \subseteq Proposals
  /\ receipts \subseteq Proposals
  /\ canon \in [Convs -> Seq(Proposals)]
  /\ said \in [Keys -> Texts]
  /\ limit \in [Keys -> Texts]
  /\ acked \subseteq Events /\ crashes \in 0..MaxCrashes

\* Everything a caller was told is preserved is on disk or canonical, whatever
\* crashed or failed since (Begin "returns only after the final input ... is
\* durable"; Confirm drops a body only after the read-back).
Canonical(e) ==
  \E i \in 1..Len(canon[Conv(e)]) : canon[Conv(e)][i].event = e
AckedDurable ==
  \A e \in acked : (Has(file, e) /\ ~Item(file, e).verified) \/ Canonical(e)

\* What keeps it true.  An open draft has no result yet; the event of an attempt
\* stays in memory and keeps its proposal; a draft in use started no later than
\* its text; New() visits every open draft.
Wellformed ==
  /\ \A k \in Keys :
       /\ turns[k].open => turns[k].items["assistant_result"].seq = 0
       /\ file[k].open => file[k].items["assistant_result"].seq = 0
       /\ turns[k].open /\ phase \in {"up", "closing"} => turns[k].skip =< said[k]
       /\ turns[k].open /\ phase = "loading" => k \in todo
  /\ flight.step # "idle" =>
       phase \in {"up", "closing"} /\ Has(turns, flight.event)
  /\ flight.step \in {"send", "poll", "readback"} =>
       Item(turns, flight.event).cand \in Candidates

\* A receipt is for an event in Karte's record, the read-back is of the event
\* whose receipt was found, what is marked verified is canonical, and an
\* acknowledged event is held until then, in memory too while there is one.
Handoff ==
  /\ \A p \in receipts : Applied(p)
  /\ flight.step = "readback" => Proposal(flight.event) \in receipts
  /\ \A e \in Events : Item(turns, e).verified \/ Item(file, e).verified
                          => Canonical(e)
  /\ \A e \in acked : Canonical(e) \/ (Has(file, e) /\ (phase # "down" => Has(turns, e)))

\* No text that was said while recording was off, or after it had been off
\* once in the life of the turn, is in memory, on disk, or in a result event
\* (Checkpoint's test of Enabled and Epoch).
OffTextNotRecorded ==
  \A k \in Keys : /\ turns[k].skip + turns[k].text =< limit[k]
                  /\ file[k].text > 0 => file[k].skip + file[k].text =< limit[k]

\* A result never claims more than was observed: a completed generation was
\* seen to end, and its text was committed (New() closes the drafts a crash
\* interrupted from their last checkpoint).
NoInventedCompletion ==
  \A k \in Keys : LET t == file[k] IN
    /\ t.complete => said[k] = MaxText
    /\ t.text > 0 => t.skip + t.text =< said[k]

RecordedAsSaid == OffTextNotRecorded /\ NoInventedCompletion

\* While the queue waits for a restart, nothing is accepted, switched on or
\* sent: a storage failure is cleared by New() only (RUNTIME_RECORDING.md,
\* `recording_restart_required').
StorageFailureLatched ==
  [][storageFailed => storageFailed' \/ phase' \in {"down", "loading"}]_vars

\* Two events of one conversation never share a number on disk, where the
\* order of delivery is read from after a restart.
SeqsDistinct ==
  \A e, f \in Events : Conv(e) = Conv(f) /\ e # f /\ Has(file, e) /\ Has(file, f)
                         => Item(file, e).seq # Item(file, f).seq

\* Every event the spool holds is delivered in the end, unless it or an older
\* one of its conversation is blocked (a person must retry), the queue waits
\* for a restart, or the process is gone.
HeldUp(e) == \E f \in Events : /\ Conv(f) = Conv(e) /\ Unverified(f)
                                /\ Item(turns, f).blocked
                                /\ Item(turns, f).seq =< Item(turns, e).seq
EventuallyDelivered ==
  \A e \in Events : (phase = "up" /\ Unverified(e))
    ~> (Canonical(e) \/ HeldUp(e) \/ storageFailed \/ phase = "down")

===============================================================================
