-------------------------- MODULE RecordingSpoolProofs --------------------------
(***************************************************************************)
(* What RecordingSpool guarantees for every set of turns, every length of  *)
(* an answer, every way a write can fail and any number of crashes.        *)
(***************************************************************************)
EXTENDS RecordingSpool, TLAPS

-----------------------------------------------------------------------------
(* Turns *)

\* The default values have their types.
LEMMA NoTurnType == NoItem \in Items /\ NoTurn \in Turns
  BY BoundsAssumption DEF NoItem, Items, NoTurn, Turns, Texts

\* Replacing one item of a turn touches nothing else of it.
LEMMA SetItemType ==
  ASSUME NEW t \in Turns, NEW kd \in Kinds, NEW i \in Items
  PROVE  /\ SetItem(t, kd, i) \in Turns
         /\ SetItem(t, kd, i).open = t.open
         /\ SetItem(t, kd, i).skip = t.skip
         /\ SetItem(t, kd, i).text = t.text
         /\ SetItem(t, kd, i).items[kd] = i
         /\ \A x \in Kinds \ {kd} : SetItem(t, kd, i).items[x] = t.items[x]
  BY DEF SetItem, Turns

\* A new item has a number and has not been sent.
LEMMA NewItemType ==
  ASSUME NEW n \in Nat
  PROVE  /\ NewItem(n) \in Items
         /\ NewItem(n).seq = n
         /\ ~NewItem(n).verified
  BY DEF NewItem, NoItem, Items

\* Closing a draft adds its result and keeps the other item.
LEMMA ClosedType ==
  ASSUME NEW t \in Turns, NEW n \in Nat, NEW c \in BOOLEAN
  PROVE  /\ Closed(t, n, c) \in Turns
         /\ ~Closed(t, n, c).open
         /\ Closed(t, n, c).items["assistant_result"] = NewItem(n)
         /\ Closed(t, n, c).items["user_final"] = t.items["user_final"]
  <1> DEFINE s == SetItem(t, "assistant_result", NewItem(n))
  <1>1. "assistant_result" \in Kinds /\ "user_final" \in Kinds
    BY DEF Kinds
  <1>2. s \in Turns /\ s.items["assistant_result"] = NewItem(n)
          /\ s.items["user_final"] = t.items["user_final"]
    BY <1>1, SetItemType, NewItemType
  <1>3. Closed(t, n, c) = [s EXCEPT !.open = FALSE, !.complete = c]
    BY DEF Closed
  <1> QED BY <1>2, <1>3 DEF Turns

\* Marking an item delivered leaves the draft and the other item alone.
LEMMA ConfirmedType ==
  ASSUME TypeOK, NEW e \in Events, Has(turns, e)
  PROVE  /\ Confirmed(e) \in Turns
         /\ Confirmed(e).open = turns[e[1]].open
         /\ Confirmed(e).skip = turns[e[1]].skip
         /\ Confirmed(e).items[e[2]].verified
         /\ Confirmed(e).items[e[2]].seq = Item(turns, e).seq
         /\ \A x \in Kinds \ {e[2]} :
              Confirmed(e).items[x] = turns[e[1]].items[x]
  <1> DEFINE i == Item(turns, e)
             j == [i EXCEPT !.cand = NoCandidate, !.verified = TRUE,
                            !.blocked = FALSE]
  <1>1. e[1] \in Keys /\ e[2] \in Kinds /\ turns[e[1]] \in Turns
    BY DEF Events, TypeOK
  <1>2. i \in Items
    BY <1>1 DEF Item, Turns
  <1>3. j \in Items /\ j.verified /\ j.seq = i.seq
    BY <1>2 DEF Items
  <1>4. PICK x \in Items : /\ x.verified /\ x.seq = i.seq
                           /\ Confirmed(e) = SetItem(turns[e[1]], e[2], x)
    BY <1>3 DEF Confirmed
  <1> HIDE DEF j
  <1> QED BY <1>1, <1>4, SetItemType

\* Retry changes only which items are blocked.
LEMMA ResetItemsType ==
  ASSUME NEW t \in Turns
  PROVE  /\ ResetItems(t) \in Turns
         /\ ResetItems(t).open = t.open /\ ResetItems(t).skip = t.skip
         /\ \A x \in Kinds :
              /\ ResetItems(t).items[x].seq = t.items[x].seq
              /\ ResetItems(t).items[x].cand = t.items[x].cand
              /\ ResetItems(t).items[x].base = t.items[x].base
              /\ ResetItems(t).items[x].verified = t.items[x].verified
  <1>1. ASSUME NEW i \in Items
        PROVE  /\ ResetItem(i) \in Items /\ ResetItem(i).seq = i.seq
               /\ ResetItem(i).cand = i.cand /\ ResetItem(i).base = i.base
               /\ ResetItem(i).verified = i.verified
    BY DEF ResetItem, Items
  <1>2. \A x \in Kinds : t.items[x] \in Items
    BY DEF Turns
  <1>3. [kd \in Kinds |-> ResetItem(t.items[kd])] \in [Kinds -> Items]
    BY <1>1, <1>2
  <1>4. /\ ResetItems(t) \in Turns /\ ResetItems(t).open = t.open
        /\ ResetItems(t).skip = t.skip
        /\ ResetItems(t).items = [kd \in Kinds |-> ResetItem(t.items[kd])]
    BY <1>3 DEF ResetItems, Turns
  <1> QED BY <1>1, <1>2, <1>4

-----------------------------------------------------------------------------
(* Writing and pausing *)

\* A write leaves one file as it was or as it should be.
LEMMA SaveTurnType ==
  ASSUME TypeOK, NEW k \in Keys, NEW t \in Turns, NEW w, SaveTurn(k, t, w)
  PROVE  /\ file' \in [Keys -> Turns]
         /\ \A j \in Keys \ {k} : file'[j] = file[j]
         /\ file'[k] = t \/ file'[k] = file[k]
         /\ w = "ok" => file'[k] = t
  BY DEF SaveTurn, Written, TypeOK

\* Turning off touches the settings only.
LEMMA TurnOffType ==
  ASSUME TypeOK, TurnOff
  PROVE  /\ enabled' \in BOOLEAN /\ enabledFile' \in BOOLEAN
         /\ current' \subseteq Keys /\ limit' \in [Keys -> Texts]
  BY DEF TurnOff, SaveEnabled, Written, TypeOK, Texts

-----------------------------------------------------------------------------
(* Every action keeps the types and the shape of the spool *)

SpoolInv == TypeOK /\ Wellformed

\* The empty spool is well-formed.
LEMMA InitSpoolInv == Init => SpoolInv
  <1> SUFFICES ASSUME Init PROVE SpoolInv
    OBVIOUS
  <1>1. turns \in [Keys -> Turns] /\ file \in [Keys -> Turns]
          /\ \A k \in Keys : ~turns[k].open /\ ~file[k].open
    BY NoTurnType DEF Init, NoTurn
  <1>2. NoFlight \in [event : Events \cup {NoEvent}, step : Steps, code : Codes]
          /\ NoFlight.step = "idle"
    BY DEF NoFlight, Steps, Codes
  <1>3. NoHead \in Heads
    BY DEF NoHead, Heads
  <1>4. canon \in [Convs -> Seq(Proposals)]
    BY DEF Init
  <1>5. /\ said \in [Keys -> Texts] /\ limit \in [Keys -> Texts]
        /\ acked \subseteq Events /\ crashes \in 0..MaxCrashes
    BY BoundsAssumption DEF Init, Texts
  <1>6. /\ seq \in [Convs -> Nat]
        /\ heads \in [Convs -> Heads] /\ headsFile \in [Convs -> Heads]
    BY <1>3 DEF Init
  <1>7. flight \in [event : Events \cup {NoEvent}, step : Steps, code : Codes]
          /\ flight.step = "idle"
    BY <1>2 DEF Init
  <1>8. TypeOK
    BY <1>1, <1>4, <1>5, <1>6, <1>7 DEF Init, TypeOK
  <1>9. Wellformed
    BY <1>1, <1>7 DEF Init, Wellformed
  <1> QED BY <1>8, <1>9 DEF SpoolInv

\* Switching recording off keeps types and shape.
LEMMA ConfigureOffInv == SpoolInv /\ ConfigureOff => SpoolInv'
  BY TurnOffType
  DEF ConfigureOff, SpoolInv, TypeOK, Wellformed, life, store, karte, Has, Item

\* So does switching it on.
LEMMA ConfigureOnInv == SpoolInv /\ ConfigureOn => SpoolInv'
  BY DEF ConfigureOn, SaveEnabled, Written, SpoolInv, TypeOK, Wellformed, life, store, karte, ghost, Has, Item

\* So does a refused Begin.
LEMMA BeginRefusedInv ==
  ASSUME SpoolInv, NEW k \in Keys, BeginRefused(k)
  PROVE  SpoolInv'
  BY FaultAssumption, BoundsAssumption, TurnOffType
  DEF BeginRefused, Pause, SpoolInv, TypeOK, Wellformed, life, store, karte, Has, Item

\* A committed unit only moves `said' up.
LEMMA CommitInv ==
  ASSUME SpoolInv, NEW k \in Keys, Commit(k)
  PROVE  SpoolInv'
  <1>1. said' \in [Keys -> Texts] /\ \A j \in Keys : said[j] =< said'[j]
    BY BoundsAssumption DEF Commit, SpoolInv, TypeOK, Texts
  <1>2. TypeOK'
    BY <1>1 DEF Commit, SpoolInv, TypeOK, life, settings, store, disk, karte
  <1>3. \A j \in Keys : turns[j].skip \in Nat /\ said[j] \in Nat /\ said'[j] \in Nat
    BY <1>1, BoundsAssumption DEF SpoolInv, TypeOK, Turns, Texts
  <1>4. Wellformed'
    BY <1>1, <1>3
    DEF Commit, SpoolInv, Wellformed, life, settings, store, disk, karte, Has, Item
  <1> QED BY <1>2, <1>4 DEF SpoolInv

\* A refused checkpoint only turns recording off.
LEMMA CheckpointRefusedInv ==
  ASSUME SpoolInv, NEW k \in Keys, CheckpointRefused(k)
  PROVE  SpoolInv'
  BY FaultAssumption, BoundsAssumption, TurnOffType
  DEF CheckpointRefused, Pause, SpoolInv, TypeOK, Wellformed, life, store, karte, Has, Item

\* Close starts: nothing in the spool moves.
LEMMA CloseInv == SpoolInv /\ Close => SpoolInv'
  BY FaultAssumption, BoundsAssumption, TurnOffType
  DEF Close, SpoolInv, TypeOK, Wellformed, settings, store, disk, karte, ghost, Has, Item

\* A failing attempt still names its event.
LEMMA AttemptFailsInv == SpoolInv /\ AttemptFails => SpoolInv'
  BY FaultAssumption, BoundsAssumption, TurnOffType
  DEF AttemptFails, Goto, SpoolInv, TypeOK, Wellformed, life, settings, store, disk, karte, ghost, Has, Item, Steps, Codes

\* New() returns: every open draft was visited.
LEMMA LoadedInv == SpoolInv /\ Loaded => SpoolInv'
  BY FaultAssumption, BoundsAssumption, TurnOffType
  DEF Loaded, SpoolInv, TypeOK, Wellformed, settings, store, karte, ghost, Has, Item

\* A turn with something to deliver is left as it is.
LEMMA RecoverPendingInv ==
  ASSUME SpoolInv, NEW k \in Keys, RecoverPending(k)
  PROVE  SpoolInv'
  BY FaultAssumption, BoundsAssumption, TurnOffType
  DEF RecoverPending, SpoolInv, TypeOK, Wellformed, settings, store, disk, karte, ghost, Has, Item

\* An answer only moves the attempt on.
LEMMA PollInv == SpoolInv /\ Poll => SpoolInv'
  BY FaultAssumption, BoundsAssumption, TurnOffType
  DEF Poll, Goto, SpoolInv, TypeOK, Wellformed, life, settings, store, disk, karte, ghost, Has, Item, Steps, Codes

\* A checkpoint keeps the items of the turn, saved or not.
LEMMA CheckpointInv ==
  ASSUME SpoolInv, NEW k \in Keys, Checkpoint(k)
  PROVE  SpoolInv'
  <1> DEFINE t == turns[k]
             d == [t EXCEPT !.text = Captured(k), !.complete = Complete(k)]
  <1>1. t \in Turns /\ said[k] \in Texts /\ t.open /\ t.skip =< said[k]
    BY DEF Checkpoint, SpoolInv, TypeOK, Wellformed
  <1>2. Captured(k) \in Texts
    BY <1>1, BoundsAssumption DEF Captured, Texts, Turns
  <1>3. d \in Turns /\ d.open = t.open /\ d.skip = t.skip /\ d.items = t.items
    BY <1>1, <1>2 DEF Turns, Complete
  <1> HIDE DEF d
  <1>4. PICK w : /\ SaveTurn(k, d, w)
                 /\ \/ turns' = [turns EXCEPT ![k] = d] /\ NoPause
                    \/ UNCHANGED turns /\ Pause(TRUE)
    BY DEF Checkpoint, d
  <1>5. /\ file' \in [Keys -> Turns]
        /\ \A j \in Keys \ {k} : file'[j] = file[j]
        /\ file'[k] = d \/ file'[k] = file[k]
    BY <1>3, <1>4, SaveTurnType DEF SpoolInv
  <1>6. /\ turns' \in [Keys -> Turns]
        /\ \A j \in Keys : /\ turns'[j].open = turns[j].open
                            /\ turns'[j].skip = turns[j].skip
                            /\ turns'[j].items = turns[j].items
    <2>1. turns \in [Keys -> Turns]
      BY DEF SpoolInv, TypeOK
    <2>2. turns' = [turns EXCEPT ![k] = d] \/ turns' = turns
      BY <1>4
    <2> QED BY <1>1, <1>3, <2>1, <2>2
  <1>7. /\ enabled' \in BOOLEAN /\ storageFailed' \in BOOLEAN
        /\ enabledFile' \in BOOLEAN /\ current' \subseteq Keys
        /\ limit' \in [Keys -> Texts]
    BY <1>4, TurnOffType DEF SpoolInv, TypeOK, NoPause, Pause, settings
  <1>8. TypeOK'
    BY <1>5, <1>6, <1>7 DEF Checkpoint, SpoolInv, TypeOK, life, karte
  <1>9. Wellformed'
    <2>1. \A j \in Keys : file'[j].open => file'[j].items["assistant_result"].seq = 0
      BY <1>1, <1>3, <1>5 DEF SpoolInv, Wellformed
    <2>2. flight.step # "idle" => flight.event[1] \in Keys
      BY DEF SpoolInv, TypeOK, Events
    <2> QED BY <1>6, <2>1, <2>2 DEF Checkpoint, SpoolInv, Wellformed, life, Has, Item
  <1> QED BY <1>8, <1>9 DEF SpoolInv

\* A finished turn has its result and no draft.
LEMMA FinishInv ==
  ASSUME SpoolInv, NEW k \in Keys, Finish(k)
  PROVE  SpoolInv'
  <1> DEFINE n == seq[ConvOf[k]] + 1
             t == Closed(turns[k], n, Complete(k))
  <1>1. /\ turns[k] \in Turns /\ turns[k].open /\ n \in Nat
        /\ turns[k].items["assistant_result"].seq = 0
    BY ConvOfAssumption DEF Finish, SpoolInv, TypeOK, Wellformed
  <1>2. /\ t \in Turns /\ ~t.open
        /\ t.items["user_final"] = turns[k].items["user_final"]
    BY <1>1, ClosedType DEF Complete
  <1> HIDE DEF t, n
  <1>3. PICK w :
          /\ SaveTurn(k, t, w)
          /\ \/ /\ turns' = [turns EXCEPT ![k] = t]
                /\ seq' = [seq EXCEPT ![ConvOf[k]] = n]
                /\ acked' = acked \cup {<<k, "assistant_result">>}
                /\ NoPause
             \/ UNCHANGED <<turns, seq, acked>> /\ Pause(TRUE)
    BY DEF Finish, t, n
  <1>4. /\ file' \in [Keys -> Turns]
        /\ \A j \in Keys \ {k} : file'[j] = file[j]
        /\ file'[k] = t \/ file'[k] = file[k]
    BY <1>2, <1>3, SaveTurnType DEF SpoolInv
  <1>5. /\ turns' \in [Keys -> Turns]
        /\ \A j \in Keys \ {k} : turns'[j] = turns[j]
        /\ turns'[k] = t \/ turns'[k] = turns[k]
    BY <1>2, <1>3 DEF SpoolInv, TypeOK
  <1>6. seq' \in [Convs -> Nat] /\ acked' \subseteq Events
    <2>1. seq \in [Convs -> Nat] /\ acked \subseteq Events
      BY DEF SpoolInv, TypeOK
    <2>2. \/ seq' = [seq EXCEPT ![ConvOf[k]] = n] /\ acked' = acked \cup {<<k, "assistant_result">>}
          \/ seq' = seq /\ acked' = acked
      BY <1>3
    <2> QED BY <1>1, <2>1, <2>2 DEF Events, Kinds
  <1>7. /\ enabled' \in BOOLEAN /\ storageFailed' \in BOOLEAN
        /\ enabledFile' \in BOOLEAN /\ current' \subseteq Keys
        /\ limit' \in [Keys -> Texts]
    BY <1>3, TurnOffType DEF SpoolInv, TypeOK, NoPause, Pause, settings
  <1>8. TypeOK'
    BY <1>4, <1>5, <1>6, <1>7 DEF Finish, SpoolInv, TypeOK, life, karte
  <1>9. Wellformed'
    <2>1. \A j \in Keys :
            /\ turns'[j].open => turns[j].open /\ turns'[j] = turns[j]
            /\ file'[j].open => file[j].open /\ file'[j] = file[j]
      BY <1>2, <1>4, <1>5
    <2>2. ASSUME flight.step # "idle"
          PROVE  /\ flight.event \in Events
                 /\ Item(turns', flight.event) = Item(turns, flight.event)
      <3>1. flight.event \in Events /\ Has(turns, flight.event)
        BY <2>2 DEF SpoolInv, TypeOK, Wellformed
      <3>2. flight.event[1] = k => flight.event[2] = "user_final"
        BY <1>1, <3>1 DEF Events, Kinds, Has, Item
      <3> QED BY <1>2, <1>5, <3>1, <3>2 DEF Events, Item
    <2> QED BY <2>1, <2>2 DEF Finish, SpoolInv, Wellformed, life, Has
  <1> QED BY <1>8, <1>9 DEF SpoolInv

\* StartTurn for all three ways a turn begins.
LEMMA StartTurnInv ==
  ASSUME SpoolInv, phase = "up", NEW k \in Keys, ~Known(k), NEW s \in Texts,
         NEW n \in Nat, NEW w, StartTurn(k, s, n, w)
  PROVE  SpoolInv'
  <1> DEFINE draft == [NoTurn EXCEPT !.open = TRUE, !.skip = s]
             t == IF n = 0 THEN draft ELSE SetItem(draft, "user_final", NewItem(n))
  <1>1. /\ draft \in Turns /\ draft.open = TRUE /\ draft.skip = s
        /\ draft.items["assistant_result"].seq = 0
    BY NoTurnType DEF NoTurn, Turns, NoItem, Kinds
  <1>2. /\ t \in Turns /\ t.open = TRUE /\ t.skip = s
        /\ t.items["assistant_result"].seq = 0
    <2> DEFINE u == SetItem(draft, "user_final", NewItem(n))
    <2> HIDE DEF draft
    <2>1. "user_final" \in Kinds /\ "assistant_result" \in Kinds \ {"user_final"}
      BY DEF Kinds
    <2>2. NewItem(n) \in Items
      BY NewItemType
    <2>3. /\ u \in Turns /\ u.open = draft.open /\ u.skip = draft.skip
          /\ u.items["assistant_result"] = draft.items["assistant_result"]
      BY <1>1, <2>1, <2>2, SetItemType
    <2> HIDE DEF u
    <2>4. t = draft \/ t = u
      BY DEF u
    <2> QED BY <1>1, <2>3, <2>4
  <1> HIDE DEF t
  <1>3. /\ SaveTurn(k, t, w)
        /\ said' = [said EXCEPT ![k] = s]
        /\ \/ /\ turns' = [turns EXCEPT ![k] = t]
              /\ current' = current \cup {k}
              /\ seq' = IF n = 0 THEN seq ELSE [seq EXCEPT ![ConvOf[k]] = n]
              /\ limit' = [limit EXCEPT ![k] = MaxText]
              /\ acked' = IF n = 0 THEN acked ELSE acked \cup {<<k, "user_final">>}
              /\ enabled' = enabled /\ storageFailed' = storageFailed
              /\ enabledFile' = enabledFile
           \/ Pause(TRUE) /\ turns' = turns /\ seq' = seq /\ acked' = acked
        /\ UNCHANGED <<life, heads, completed, flight, headsFile, completedFile,
                       karte, crashes>>
    BY DEF StartTurn, t
  <1>4. /\ file' \in [Keys -> Turns]
        /\ \A j \in Keys \ {k} : file'[j] = file[j]
        /\ file'[k] = t \/ file'[k] = file[k]
    BY <1>2, <1>3, SaveTurnType DEF SpoolInv
  <1>5. /\ turns' \in [Keys -> Turns]
        /\ \A j \in Keys \ {k} : turns'[j] = turns[j]
        /\ turns'[k] = t \/ turns'[k] = turns[k]
    <2>1. turns \in [Keys -> Turns]
      BY DEF SpoolInv, TypeOK
    <2> QED BY <1>2, <1>3, <2>1
  <1>6. /\ seq' \in [Convs -> Nat] /\ acked' \subseteq Events
        /\ said' \in [Keys -> Texts]
    <2>1. seq \in [Convs -> Nat] /\ acked \subseteq Events /\ said \in [Keys -> Texts]
      BY DEF SpoolInv, TypeOK
    <2>2. seq' \in [Convs -> Nat]
      BY <1>3, <2>1
    <2>3. <<k, "user_final">> \in Events
      BY DEF Events, Kinds
    <2>4. acked' \subseteq Events
      BY <1>3, <2>1, <2>3
    <2>5. said' \in [Keys -> Texts]
      BY <1>3, <2>1
    <2> QED BY <2>2, <2>4, <2>5
  <1>7. /\ enabled' \in BOOLEAN /\ storageFailed' \in BOOLEAN
        /\ enabledFile' \in BOOLEAN /\ current' \subseteq Keys
        /\ limit' \in [Keys -> Texts]
    <2>1. /\ enabled \in BOOLEAN /\ storageFailed \in BOOLEAN /\ limit \in [Keys -> Texts]
          /\ enabledFile \in BOOLEAN /\ current \subseteq Keys /\ MaxText \in Texts
      BY BoundsAssumption DEF SpoolInv, TypeOK, Texts
    <2> QED BY <1>3, <2>1, TurnOffType DEF SpoolInv, Pause
  <1>8. TypeOK'
    BY <1>3, <1>4, <1>5, <1>6, <1>7 DEF SpoolInv, TypeOK, life, karte
  <1>9. Wellformed'
    <2>1. ~turns[k].open /\ \A kd \in Kinds : turns[k].items[kd].seq \in Nat /\ ~(turns[k].items[kd].seq > 0)
      <3>1. turns[k] \in Turns
        BY DEF SpoolInv, TypeOK
      <3>2. \A kd \in Kinds : turns[k].items[kd] \in Items
        BY <3>1 DEF Turns
      <3>3. \A kd \in Kinds : turns[k].items[kd].seq \in Nat
        BY <3>2 DEF Items
      <3>4. ~Present(turns[k])
        BY DEF Known
      <3> QED BY <3>3, <3>4 DEF Present
    <2>2. ASSUME flight.step # "idle"
          PROVE  /\ flight.event \in Events
                 /\ Item(turns', flight.event) = Item(turns, flight.event)
      <3>1. flight.event \in Events /\ Has(turns, flight.event)
        BY <2>2 DEF SpoolInv, TypeOK, Wellformed
      <3>2. flight.event[1] # k
        BY <2>1, <3>1 DEF Events, Has, Item
      <3> QED BY <1>5, <3>1, <3>2 DEF Events, Item
    <2>3. \A j \in Keys :
            /\ turns'[j].open => turns'[j].items["assistant_result"].seq = 0
            /\ file'[j].open => file'[j].items["assistant_result"].seq = 0
      BY <1>2, <1>4, <1>5 DEF SpoolInv, Wellformed
    <2>4. \A j \in Keys : turns'[j].open => turns'[j].skip =< said'[j]
      <3>1. said'[k] = s /\ s \in Nat /\ \A j \in Keys \ {k} : said'[j] = said[j]
        BY <1>3, BoundsAssumption DEF SpoolInv, TypeOK, Texts
      <3>2. turns'[k].open => turns'[k].skip = s
        BY <1>2, <1>5, <2>1
      <3> QED BY <1>5, <3>1, <3>2 DEF SpoolInv, Wellformed
    <2>5. phase' = "up" /\ flight' = flight
      BY <1>3 DEF life
    <2> QED BY <2>2, <2>3, <2>4, <2>5 DEF SpoolInv, Wellformed, Has
  <1> QED BY <1>8, <1>9 DEF SpoolInv

\* Each of them starts a turn that is not known yet.
LEMMA BeginInv ==
  ASSUME SpoolInv, NEW k \in Keys,
         Begin(k) \/ BeginCandidate(k) \/ \E orig \in Keys : BeginContinuation(k, orig)
  PROVE  SpoolInv'
  <1>1. seq[ConvOf[k]] + 1 \in Nat /\ 0 \in Texts /\ \A j \in Keys : said[j] \in Texts
    BY ConvOfAssumption, BoundsAssumption DEF SpoolInv, TypeOK, Texts
  <1>2. CASE Begin(k)
    BY <1>1, <1>2, StartTurnInv DEF Begin
  <1>3. CASE BeginCandidate(k)
    BY <1>1, <1>3, StartTurnInv DEF BeginCandidate
  <1>4. CASE \E orig \in Keys : BeginContinuation(k, orig)
    BY <1>1, <1>4, StartTurnInv DEF BeginContinuation
  <1> QED BY <1>2, <1>3, <1>4

\* A step that replaces turn k by one whose items have the same numbers and ids
\* keeps the shape, whatever the write leaves in the file.
LEMMA RetryInv == SpoolInv /\ Retry => SpoolInv'
  <1> SUFFICES ASSUME SpoolInv, Retry PROVE SpoolInv'
    OBVIOUS
  <1>1. turns \in [Keys -> Turns] /\ file \in [Keys -> Turns]
    BY DEF SpoolInv, TypeOK
  <1>2. \A k \in Keys : turns'[k] \in {turns[k], ResetItems(turns[k])}
          /\ turns' \in [Keys -> Turns]
    BY <1>1, ResetItemsType DEF Retry
  <1>3. file' \in [Keys -> Turns]
          /\ \A k \in Keys : file'[k] = file[k] \/ file'[k] = turns'[k]
    BY <1>1, <1>2 DEF Retry, Written
  <1>4. \A k \in Keys :
          /\ turns'[k].open = turns[k].open /\ turns'[k].skip = turns[k].skip
          /\ \A kd \in Kinds :
               /\ turns'[k].items[kd].seq = turns[k].items[kd].seq
               /\ turns'[k].items[kd].cand = turns[k].items[kd].cand
    BY <1>1, <1>2, ResetItemsType
  <1>5. TypeOK'
    BY <1>2, <1>3 DEF Retry, SpoolInv, TypeOK, life, settings, karte, ghost
  <1>6. \A e \in Events : /\ Has(turns', e) <=> Has(turns, e)
                          /\ Item(turns', e).cand = Item(turns, e).cand
    BY <1>4 DEF Has, Item, Events
  <1>7. UNCHANGED <<phase, todo, flight, said>>
    BY DEF Retry, life, ghost
  <1>8. "assistant_result" \in Kinds
    BY DEF Kinds
  <1>9. flight.step # "idle" => flight.event \in Events
    BY DEF SpoolInv, TypeOK
  <1>10. flight.step \in {"send", "poll", "readback"} => flight.step # "idle"
    OBVIOUS
  <1>11. Wellformed'
    BY <1>3, <1>4, <1>6, <1>7, <1>8, <1>9, <1>10 DEF SpoolInv, Wellformed
  <1> QED BY <1>5, <1>11 DEF SpoolInv

\* A chosen event is one the turns in memory have.
LEMMA DispatchInv ==
  ASSUME SpoolInv, NEW e \in Events, Dispatch(e)
  PROVE  SpoolInv'
  <1>1. /\ e[1] \in Keys /\ turns \in [Keys -> Turns] /\ turns[e[1]] \in Turns
        /\ phase = "up" /\ Has(turns, e)
    BY DEF Dispatch, Oldest, Unverified, Events, SpoolInv, TypeOK
  <1>2. PICK w : /\ SaveTurn(e[1], turns[e[1]], w)
                 /\ \/ /\ NoPause
                       /\ flight' = [event |-> e, step |-> "prepare", code |-> "none"]
                    \/ Pause(TRUE) /\ UNCHANGED flight
    BY DEF Dispatch
  <1>3. /\ file' \in [Keys -> Turns]
        /\ \A k \in Keys : file'[k] = turns[k] \/ file'[k] = file[k]
    BY <1>1, <1>2, SaveTurnType DEF SpoolInv
  <1>4. /\ enabled' \in BOOLEAN /\ storageFailed' \in BOOLEAN
        /\ enabledFile' \in BOOLEAN /\ current' \subseteq Keys
        /\ limit' \in [Keys -> Texts]
    BY <1>2, TurnOffType DEF SpoolInv, TypeOK, NoPause, Pause, settings
  <1>5. /\ flight' \in [event : Events \cup {NoEvent}, step : Steps, code : Codes]
        /\ \/ flight'.step = "prepare" /\ flight'.event = e
           \/ flight' = flight
    <2>1. flight \in [event : Events \cup {NoEvent}, step : Steps, code : Codes]
      BY DEF SpoolInv, TypeOK
    <2>2. e \in Events \cup {NoEvent} /\ "prepare" \in Steps /\ "none" \in Codes
      BY DEF Steps, Codes
    <2>3. \/ flight' = [event |-> e, step |-> "prepare", code |-> "none"]
          \/ flight' = flight
      BY <1>2
    <2> QED BY <2>1, <2>2, <2>3
  <1>6. TypeOK'
    BY <1>3, <1>4, <1>5 DEF Dispatch, SpoolInv, TypeOK, life, store, karte
  <1>7. Wellformed'
    <2>1. UNCHANGED <<phase, todo, turns, said>>
      BY DEF Dispatch, life, store
    <2>2. flight'.step # "idle" => Has(turns, flight'.event)
      BY <1>1, <1>5 DEF SpoolInv, Wellformed
    <2>3. flight'.step \in {"send", "poll", "readback"} =>
            Item(turns, flight'.event).cand \in Candidates
      BY <1>5 DEF SpoolInv, Wellformed
    <2>4. flight'.step # "idle" => phase \in {"up", "closing"}
      BY <1>1
    <2>5. \A k \in Keys :
            /\ turns[k].open => turns[k].items["assistant_result"].seq = 0
            /\ file'[k].open => file'[k].items["assistant_result"].seq = 0
            /\ turns[k].open /\ phase \in {"up", "closing"} => turns[k].skip =< said[k]
            /\ turns[k].open /\ phase = "loading" => k \in todo
      BY <1>3 DEF SpoolInv, Wellformed
    <2> QED BY <2>1, <2>2, <2>3, <2>4, <2>5 DEF Wellformed, Has, Item
  <1> QED BY <1>6, <1>7 DEF SpoolInv

\* Every step of an attempt: the turn of its event stays, and has a proposal
\* when it is sent.
LEMMA PrepareInv == SpoolInv /\ Prepare => SpoolInv'
  <1> SUFFICES ASSUME SpoolInv, Prepare PROVE SpoolInv'
    OBVIOUS
  <1> DEFINE e == flight.event
             i == Item(turns, e)
  <1>1. /\ e \in Events /\ e[1] \in Keys /\ e[2] \in Kinds
        /\ turns \in [Keys -> Turns] /\ turns[e[1]] \in Turns /\ Has(turns, e)
        /\ phase \in {"up", "closing"}
    BY DEF Prepare, Events, SpoolInv, TypeOK, Wellformed
  <1>2. i \in Items
    BY <1>1 DEF Item, Turns
  <1>3. Conv(e) \in Convs /\ heads[Conv(e)].rev \in Nat
    BY <1>1, ConvOfAssumption DEF Conv, SpoolInv, TypeOK, Heads
  <1>4. CASE i.cand # NoCandidate /\ Goto("send", "none") /\ UNCHANGED <<turns, file>>
    <2>1. i.cand \in Candidates
      BY <1>2, <1>4 DEF Items
    <2>2. flight' \in [event : Events \cup {NoEvent}, step : Steps, code : Codes]
            /\ flight'.event = e
      BY <1>4 DEF Goto, SpoolInv, TypeOK, Steps, Codes
    <2>3. TypeOK'
      BY <1>1, <1>4, <2>2
      DEF Prepare, SpoolInv, TypeOK, life, settings, karte, ghost
    <2>4. Wellformed'
      BY <1>1, <1>4, <2>1, <2>2
      DEF Prepare, SpoolInv, Wellformed, life, ghost, Has, Item
    <2> QED BY <2>3, <2>4 DEF SpoolInv
  <1>5. ASSUME NEW id \in Candidates, NEW w,
               SaveTurn(e[1], SetItem(turns[e[1]], e[2],
                 [i EXCEPT !.cand = id, !.base = heads[Conv(e)].rev]), w),
               \/ /\ turns' = [turns EXCEPT ![e[1]] = SetItem(turns[e[1]], e[2],
                       [i EXCEPT !.cand = id, !.base = heads[Conv(e)].rev])]
                  /\ Goto("send", "none")
               \/ UNCHANGED turns /\ Goto("failed", "storage")
        PROVE  SpoolInv'
    <2> DEFINE j == [i EXCEPT !.cand = id, !.base = heads[Conv(e)].rev]
               t == SetItem(turns[e[1]], e[2], j)
    <2>1. j \in Items /\ j.seq = i.seq /\ j.cand = id
      BY <1>2, <1>3 DEF Items
    <2> HIDE DEF j
    <2>2. /\ t \in Turns /\ t.open = turns[e[1]].open /\ t.skip = turns[e[1]].skip
          /\ t.items[e[2]] = j
          /\ \A x \in Kinds \ {e[2]} : t.items[x] = turns[e[1]].items[x]
      BY <1>1, <2>1, SetItemType
    <2> HIDE DEF t
    <2>3. /\ SaveTurn(e[1], t, w)
          /\ \/ turns' = [turns EXCEPT ![e[1]] = t] /\ Goto("send", "none")
             \/ turns' = turns /\ Goto("failed", "storage")
      BY <1>5 DEF t, j
    <2>4. /\ file' \in [Keys -> Turns]
          /\ \A k \in Keys \ {e[1]} : file'[k] = file[k]
          /\ file'[e[1]] = t \/ file'[e[1]] = file[e[1]]
      BY <1>1, <2>2, <2>3, SaveTurnType DEF SpoolInv
    <2>5. /\ turns' \in [Keys -> Turns]
          /\ \A k \in Keys \ {e[1]} : turns'[k] = turns[k]
          /\ \/ turns'[e[1]] = t
             \/ turns'[e[1]] = turns[e[1]] /\ flight'.step = "failed"
      <3>1. \/ turns' = [turns EXCEPT ![e[1]] = t]
            \/ turns' = turns /\ flight' = [flight EXCEPT !.step = "failed", !.code = "storage"]
        BY <2>3 DEF Goto
      <3>2. flight \in [event : Events \cup {NoEvent}, step : Steps, code : Codes]
        BY DEF SpoolInv, TypeOK
      <3> QED BY <1>1, <2>2, <3>1, <3>2
    <2>6. /\ flight' \in [event : Events \cup {NoEvent}, step : Steps, code : Codes]
          /\ flight'.event = e /\ flight'.step \in {"send", "failed"}
      BY <2>3 DEF Goto, SpoolInv, TypeOK, Steps, Codes
    <2>7. TypeOK'
      BY <1>1, <2>4, <2>5, <2>6
      DEF Prepare, SpoolInv, TypeOK, life, settings, karte, ghost
    <2>8. t.items["assistant_result"].seq = turns[e[1]].items["assistant_result"].seq
      BY <2>1, <2>2 DEF Kinds, Item
    <2>9. UNCHANGED <<phase, todo, said>>
      BY DEF Prepare, life, ghost
    <2>10. Has(turns', e) /\ (flight'.step = "send" => Item(turns', e).cand \in Candidates)
      BY <1>1, <2>1, <2>2, <2>5 DEF Has, Item
    <2>11. \A k \in Keys :
             /\ turns'[k].open => turns'[k].items["assistant_result"].seq = 0
             /\ file'[k].open => file'[k].items["assistant_result"].seq = 0
             /\ turns'[k].open = turns[k].open /\ turns'[k].skip = turns[k].skip
      BY <1>1, <2>2, <2>4, <2>5, <2>8 DEF SpoolInv, Wellformed
    <2>12. Wellformed'
      BY <1>1, <2>6, <2>9, <2>10, <2>11 DEF SpoolInv, Wellformed
    <2> QED BY <2>7, <2>12 DEF SpoolInv
  <1> QED BY <1>4, <1>5 DEF Prepare

\* What is sent is a proposal with a prepared candidate.
LEMMA SendInv == SpoolInv /\ Send => SpoolInv'
  <1> SUFFICES ASSUME SpoolInv, Send PROVE SpoolInv'
    OBVIOUS
  <1> DEFINE e == flight.event
             i == Item(turns, e)
  <1>1. /\ e \in Events /\ e[1] \in Keys /\ e[2] \in Kinds
        /\ turns[e[1]] \in Turns /\ i.cand \in Candidates
        /\ Has(turns, e) /\ phase \in {"up", "closing"}
    BY DEF Send, Events, SpoolInv, TypeOK, Wellformed
  <1>2. i \in Items
    BY <1>1 DEF Item, Turns
  <1>3. Proposal(e) \in Proposals
    BY <1>1, <1>2 DEF Proposal, Proposals, Items
  <1>4. outbox' \subseteq Proposals
    BY <1>3 DEF Send, SpoolInv, TypeOK
  <1>5. /\ flight' \in [event : Events \cup {NoEvent}, step : Steps, code : Codes]
        /\ flight'.event = e
    BY DEF Send, Goto, SpoolInv, TypeOK, Steps, Codes
  <1>6. TypeOK'
    BY <1>1, <1>4, <1>5
    DEF Send, SpoolInv, TypeOK, life, settings, store, disk, ghost
  <1>7. UNCHANGED <<phase, todo, turns, file, said>>
    BY DEF Send, life, store, disk, ghost
  <1>8. Wellformed'
    BY <1>1, <1>5, <1>7 DEF SpoolInv, Wellformed, Has, Item
  <1> QED BY <1>6, <1>8 DEF SpoolInv

\* The head of a conversation stays a head.
LEMMA AdvancedType ==
  ASSUME NEW h \in Heads, NEW i \in Items
  PROVE  Advanced(h, i) \in Heads
  BY DEF Advanced, Heads, Items

\* What a confirmation has written after any number of its writes.
LEMMA ConfirmDiskType ==
  ASSUME SpoolInv, NEW e \in Events, Has(turns, e), NEW n \in 0..4,
         ConfirmDisk(e, n)
  PROVE  /\ file' \in [Keys -> Turns]
         /\ headsFile' \in [Convs -> Heads]
         /\ completed \in SUBSET Keys => completedFile' \subseteq Keys
         /\ \A k \in Keys : file'[k].open => file'[k].items["assistant_result"].seq = 0
  <1> DEFINE t == Confirmed(e)
             h == Advanced(heads[Conv(e)], Item(turns, e))
  <1>1. /\ e[1] \in Keys /\ e[2] \in Kinds /\ turns[e[1]] \in Turns /\ TypeOK
        /\ file \in [Keys -> Turns]
    BY DEF Events, SpoolInv, TypeOK
  <1>2. Item(turns, e) \in Items /\ Conv(e) \in Convs
    BY <1>1, ConvOfAssumption DEF Item, Turns, Conv
  <1>3. h \in Heads
    BY <1>1, <1>2, AdvancedType DEF TypeOK
  <1>4. t \in Turns /\ (t.open => t.items["assistant_result"].seq = 0)
    <2>1. /\ t \in Turns /\ t.open = turns[e[1]].open
          /\ t.items[e[2]].seq = Item(turns, e).seq
          /\ \A x \in Kinds \ {e[2]} : t.items[x] = turns[e[1]].items[x]
      BY <1>1, ConfirmedType
    <2>2. t.items["assistant_result"].seq = turns[e[1]].items["assistant_result"].seq
      BY <2>1 DEF Item, Kinds
    <2> QED BY <1>1, <2>1, <2>2 DEF SpoolInv, Wellformed
  <1> HIDE DEF t, h
  <1>5. /\ \A k \in Keys \ {e[1]} : file'[k] = file[k]
        /\ file' \in [Keys -> Turns]
        /\ file'[e[1]] \in {NoTurn, t, file[e[1]]}
    <2>1. \E x \in {NoTurn, t, file[e[1]]} : file' = [file EXCEPT ![e[1]] = x]
      <3>1. CASE n = 4
        BY <3>1 DEF ConfirmDisk
      <3>2. CASE n \in 1..3
        <4>1. n # 4 /\ (CASE n = 4 -> NoTurn [] n \in 1..3 -> t [] n = 0 -> file[e[1]]) = t
          BY <3>2
        <4>2. file' = [file EXCEPT ![e[1]] =
                CASE n = 4 -> NoTurn [] n \in 1..3 -> t [] n = 0 -> file[e[1]]]
          BY DEF ConfirmDisk, t
        <4> QED BY <4>1, <4>2
      <3>3. CASE n = 0
        BY <3>3 DEF ConfirmDisk
      <3> QED BY <3>1, <3>2, <3>3
    <2> QED BY <1>1, <1>4, <2>1, NoTurnType
  <1>6. headsFile' \in [Convs -> Heads]
    <2>1. headsFile' = headsFile \/ headsFile' = [heads EXCEPT ![Conv(e)] = h]
      BY DEF ConfirmDisk, h
    <2> QED BY <1>2, <1>3, <2>1 DEF SpoolInv, TypeOK
  <1>7. completed \subseteq Keys => completedFile' \subseteq Keys
    BY <1>1 DEF ConfirmDisk, TypeOK
  <1>8. ~NoTurn.open
    BY DEF NoTurn
  <1> QED BY <1>1, <1>4, <1>5, <1>6, <1>7, <1>8 DEF SpoolInv, Wellformed

\* A confirmation is two writes, or four.
LEMMA ConfirmWritesType ==
  ASSUME NEW t
  PROVE  ConfirmWrites(t) \in {2, 4}
  BY DEF ConfirmWrites

\* Confirming an event keeps the shape of its turn, or removes the turn.
LEMMA ConfirmInv == SpoolInv /\ Confirm => SpoolInv'
  <1> SUFFICES ASSUME SpoolInv, Confirm PROVE SpoolInv'
    OBVIOUS
  <1> DEFINE e == flight.event
             t == Confirmed(e)
             h == Advanced(heads[Conv(e)], Item(turns, e))
             all == ConfirmWrites(t)
  <1>1. /\ e \in Events /\ e[1] \in Keys /\ e[2] \in Kinds /\ TypeOK
        /\ turns \in [Keys -> Turns] /\ turns[e[1]] \in Turns /\ Has(turns, e)
        /\ phase \in {"up", "closing"}
    BY DEF Confirm, Events, SpoolInv, TypeOK, Wellformed
  <1>2. all \in 0..4
    BY ConfirmWritesType
  <1>3. /\ file' \in [Keys -> Turns] /\ headsFile' \in [Convs -> Heads]
        /\ completedFile' \subseteq Keys
        /\ \A k \in Keys : file'[k].open => file'[k].items["assistant_result"].seq = 0
    <2>1. ConfirmDisk(e, all) /\ completed \in SUBSET Keys
      BY <1>1 DEF Confirm, TypeOK
    <2> QED BY <1>1, <1>2, <2>1, ConfirmDiskType
  <1>4. /\ t \in Turns /\ t.open = turns[e[1]].open /\ t.skip = turns[e[1]].skip
        /\ t.items[e[2]].seq = Item(turns, e).seq
        /\ \A x \in Kinds \ {e[2]} : t.items[x] = turns[e[1]].items[x]
    BY <1>1, ConfirmedType
  <1>5. t.items["assistant_result"].seq = turns[e[1]].items["assistant_result"].seq
    BY <1>4 DEF Item, Kinds
  <1>6. h \in Heads /\ Conv(e) \in Convs
    <2>1. Item(turns, e) \in Items /\ Conv(e) \in Convs
      BY <1>1, ConvOfAssumption DEF Item, Turns, Conv
    <2> QED BY <1>1, <2>1, AdvancedType DEF TypeOK
  <1>7. heads' \in [Convs -> Heads]
    <2>1. heads' = [heads EXCEPT ![Conv(e)] = h]
      BY DEF Confirm
    <2> HIDE DEF h
    <2> QED BY <1>1, <1>6, <2>1 DEF TypeOK
  <1>8. /\ turns' \in [Keys -> Turns]
        /\ \A k \in Keys \ {e[1]} : turns'[k] = turns[k]
        /\ turns'[e[1]] \in {NoTurn, t}
    <2>1. \E x \in {NoTurn, t} : turns' = [turns EXCEPT ![e[1]] = x]
      BY DEF Confirm
    <2> HIDE DEF t
    <2> QED BY <1>1, <1>4, <2>1, NoTurnType
  <1>9. /\ completed' \subseteq Keys /\ flight' = NoFlight
        /\ UNCHANGED <<life, settings, seq, enabledFile, karte, ghost>>
    BY <1>1 DEF Confirm, TypeOK
  <1>10. NoFlight \in [event : Events \cup {NoEvent}, step : Steps, code : Codes]
           /\ NoFlight.step = "idle" /\ ~NoTurn.open
    BY DEF NoFlight, Steps, Codes, NoTurn
  <1> HIDE DEF t, h, all, e
  <1>11. TypeOK'
    BY <1>1, <1>3, <1>7, <1>8, <1>9, <1>10
    DEF TypeOK, life, settings, karte, ghost
  <1>12. \A k \in Keys :
           /\ turns'[k].open => turns'[k].items["assistant_result"].seq = 0
           /\ turns'[k].open => turns[k].open /\ turns'[k].skip = turns[k].skip
    BY <1>4, <1>5, <1>8, <1>10 DEF SpoolInv, Wellformed
  <1>13. Wellformed'
    BY <1>1, <1>3, <1>9, <1>10, <1>12 DEF SpoolInv, Wellformed, life, ghost
  <1> QED BY <1>11, <1>13 DEF SpoolInv

\* So does a confirmation that stops at a failed write.
LEMMA ConfirmFailsInv == SpoolInv /\ ConfirmFails => SpoolInv'
  <1> SUFFICES ASSUME SpoolInv, ConfirmFails PROVE SpoolInv'
    OBVIOUS
  <1> DEFINE e == flight.event
             t == Confirmed(e)
             h == Advanced(heads[Conv(e)], Item(turns, e))
  <1>1. /\ e \in Events /\ e[1] \in Keys /\ e[2] \in Kinds /\ TypeOK
        /\ turns \in [Keys -> Turns] /\ turns[e[1]] \in Turns /\ Has(turns, e)
        /\ phase \in {"up", "closing"}
    BY DEF ConfirmFails, Events, SpoolInv, TypeOK, Wellformed
  <1>2. PICK n \in 0..3, w \in Faults :
          /\ ConfirmDisk(e, IF w = "late" THEN n + 1 ELSE n)
          /\ turns' = turns \/ turns' = [turns EXCEPT ![e[1]] = t]
          /\ heads' = heads \/ heads' = [heads EXCEPT ![Conv(e)] = h]
          /\ completed' = IF n >= 2 THEN completed \cup {e[1]} ELSE completed
    <2>1. ConfirmWrites(t) \in {2, 4}
      BY ConfirmWritesType
    <2>2. PICK n \in 0..(ConfirmWrites(t) - 1), w \in Faults :
          /\ ConfirmDisk(e, IF w = "late" THEN n + 1 ELSE n)
          /\ turns' = IF n = 0 THEN turns ELSE [turns EXCEPT ![e[1]] = t]
          /\ heads' = IF n = 0 THEN heads ELSE [heads EXCEPT ![Conv(e)] = h]
          /\ completed' = IF n >= 2 THEN completed \cup {e[1]} ELSE completed
      BY DEF ConfirmFails
    <2>3. n \in 0..3
      BY <2>1, <2>2
    <2> QED BY <2>2, <2>3
  <1>3. /\ file' \in [Keys -> Turns] /\ headsFile' \in [Convs -> Heads]
        /\ completedFile' \subseteq Keys
        /\ \A k \in Keys : file'[k].open => file'[k].items["assistant_result"].seq = 0
    <2>1. (IF w = "late" THEN n + 1 ELSE n) \in 0..4 /\ completed \in SUBSET Keys
      BY <1>1 DEF TypeOK
    <2> QED BY <1>1, <1>2, <2>1, ConfirmDiskType
  <1>4. /\ t \in Turns /\ t.open = turns[e[1]].open /\ t.skip = turns[e[1]].skip
        /\ t.items[e[2]].seq = Item(turns, e).seq
        /\ \A x \in Kinds \ {e[2]} : t.items[x] = turns[e[1]].items[x]
    BY <1>1, ConfirmedType
  <1>5. t.items["assistant_result"].seq = turns[e[1]].items["assistant_result"].seq
    BY <1>4 DEF Item, Kinds
  <1>6. h \in Heads /\ Conv(e) \in Convs
    <2>1. Item(turns, e) \in Items /\ Conv(e) \in Convs
      BY <1>1, ConvOfAssumption DEF Item, Turns, Conv
    <2> QED BY <1>1, <2>1, AdvancedType DEF TypeOK
  <1> HIDE DEF t, h
  <1>7. heads' \in [Convs -> Heads] /\ completed' \subseteq Keys
    <2>1. heads \in [Convs -> Heads] /\ completed \subseteq Keys
      BY <1>1 DEF TypeOK
    <2>2. heads' \in [Convs -> Heads]
      BY <1>2, <1>6, <2>1
    <2>3. completed' = completed \cup {e[1]} \/ completed' = completed
      BY <1>2
    <2> QED BY <1>1, <2>1, <2>2, <2>3
  <1>8. /\ turns' \in [Keys -> Turns]
        /\ \A k \in Keys \ {e[1]} : turns'[k] = turns[k]
        /\ turns'[e[1]] \in {turns[e[1]], t}
    BY <1>1, <1>2, <1>4
  <1>9. /\ flight' = [flight EXCEPT !.step = "failed", !.code = "storage"]
        /\ UNCHANGED <<life, settings, seq, enabledFile, karte, ghost>>
    BY DEF ConfirmFails, Goto
  <1>10. /\ flight' \in [event : Events \cup {NoEvent}, step : Steps, code : Codes]
         /\ flight'.step = "failed" /\ flight'.event = e
    <2>1. flight \in [event : Events \cup {NoEvent}, step : Steps, code : Codes]
      BY <1>1 DEF TypeOK
    <2>2. "failed" \in Steps /\ "storage" \in Codes
      BY DEF Steps, Codes
    <2> QED BY <1>9, <2>1, <2>2
  <1>11. Has(turns', e)
    BY <1>1, <1>4, <1>8 DEF Has, Item
  <1> HIDE DEF e
  <1>12. TypeOK'
    BY <1>1, <1>3, <1>7, <1>8, <1>9, <1>10
    DEF TypeOK, life, settings, karte, ghost
  <1>13. \A k \in Keys :
           /\ turns'[k].open => turns'[k].items["assistant_result"].seq = 0
           /\ turns'[k].open = turns[k].open /\ turns'[k].skip = turns[k].skip
    BY <1>4, <1>5, <1>8 DEF SpoolInv, Wellformed
  <1>14. Wellformed'
    BY <1>1, <1>3, <1>9, <1>10, <1>11, <1>13 DEF SpoolInv, Wellformed, life, ghost
  <1> QED BY <1>12, <1>14 DEF SpoolInv

\* The end of a failed attempt changes only whether its item is blocked.
LEMMA RecordFailureInv == SpoolInv /\ RecordFailure => SpoolInv'
  <1> SUFFICES ASSUME SpoolInv, RecordFailure PROVE SpoolInv'
    OBVIOUS
  <1> DEFINE e == flight.event
             i == [Item(turns, e) EXCEPT !.blocked = (flight.code # "offline")]
             t == SetItem(turns[e[1]], e[2], i)
  <1>1. /\ e \in Events /\ e[1] \in Keys /\ e[2] \in Kinds /\ TypeOK
        /\ turns \in [Keys -> Turns] /\ turns[e[1]] \in Turns
    BY DEF RecordFailure, Events, SpoolInv, TypeOK
  <1>2. i \in Items /\ i.seq = Item(turns, e).seq
    <2>1. Item(turns, e) \in Items
      BY <1>1 DEF Item, Turns
    <2> QED BY <2>1 DEF Items
  <1> HIDE DEF i
  <1>3. /\ t \in Turns /\ t.open = turns[e[1]].open /\ t.skip = turns[e[1]].skip
        /\ t.items[e[2]] = i
        /\ \A x \in Kinds \ {e[2]} : t.items[x] = turns[e[1]].items[x]
    BY <1>1, <1>2, SetItemType
  <1> HIDE DEF t
  <1>4. t.items["assistant_result"].seq = turns[e[1]].items["assistant_result"].seq
    BY <1>2, <1>3 DEF Item, Kinds
  <1>5. PICK w :
          /\ SaveTurn(e[1], t, w)
          /\ storageFailed' \in {flight.code = "storage" \/ w # "ok", storageFailed \/ w # "ok"}
          /\ TurnOff \/ UNCHANGED <<enabled, current, enabledFile, limit>>
    BY DEF RecordFailure, t, i
  <1>6. /\ file' \in [Keys -> Turns]
        /\ \A k \in Keys \ {e[1]} : file'[k] = file[k]
        /\ file'[e[1]] = t \/ file'[e[1]] = file[e[1]]
    BY <1>1, <1>3, <1>5, SaveTurnType
  <1>7. /\ turns' \in [Keys -> Turns] /\ turns'[e[1]] = t
        /\ \A k \in Keys \ {e[1]} : turns'[k] = turns[k]
    BY <1>1, <1>3 DEF RecordFailure, t, i
  <1>8. /\ enabled' \in BOOLEAN /\ storageFailed' \in BOOLEAN
        /\ enabledFile' \in BOOLEAN /\ current' \subseteq Keys
        /\ limit' \in [Keys -> Texts]
    <2>1. /\ enabled \in BOOLEAN /\ storageFailed \in BOOLEAN /\ limit \in [Keys -> Texts]
          /\ enabledFile \in BOOLEAN /\ current \subseteq Keys
      BY <1>1 DEF TypeOK
    <2>2. storageFailed' \in BOOLEAN
      BY <1>5
    <2> QED BY <1>1, <1>5, <2>1, <2>2, TurnOffType
  <1>9. /\ flight' \in [event : Events \cup {NoEvent}, step : Steps, code : Codes]
        /\ flight'.step = "idle"
    BY DEF RecordFailure, NoFlight, Steps, Codes
  <1>10. TypeOK'
    BY <1>1, <1>6, <1>7, <1>8, <1>9 DEF RecordFailure, TypeOK, life, karte
  <1>11. \A k \in Keys :
           /\ turns'[k].open => turns'[k].items["assistant_result"].seq = 0
           /\ file'[k].open => file'[k].items["assistant_result"].seq = 0
           /\ turns'[k].open = turns[k].open /\ turns'[k].skip = turns[k].skip
    BY <1>1, <1>3, <1>4, <1>6, <1>7 DEF SpoolInv, Wellformed
  <1>12. UNCHANGED <<phase, todo, said>>
    BY DEF RecordFailure, life
  <1>13. Wellformed'
    BY <1>9, <1>11, <1>12 DEF SpoolInv, Wellformed
  <1> QED BY <1>10, <1>13 DEF SpoolInv

\* Memory is gone; only the disk has to be as it should be.
LEMMA GoneInv ==
  ASSUME SpoolInv, Gone,
         file' \in [Keys -> Turns], headsFile' \in [Convs -> Heads],
         completedFile' \subseteq Keys, enabledFile' \in BOOLEAN,
         \A k \in Keys : file'[k].open => file'[k].items["assistant_result"].seq = 0,
         crashes' \in 0..MaxCrashes, UNCHANGED <<karte, said, limit, acked>>
  PROVE  SpoolInv'
  <1>1. /\ turns' \in [Keys -> Turns] /\ \A k \in Keys : ~turns'[k].open
    BY NoTurnType DEF Gone, NoTurn
  <1>2. seq' \in [Convs -> Nat] /\ heads' \in [Convs -> Heads] /\ completed' \subseteq Keys
    BY DEF Gone, NoHead, Heads
  <1>3. /\ flight' \in [event : Events \cup {NoEvent}, step : Steps, code : Codes]
        /\ flight'.step = "idle"
    BY DEF Gone, NoFlight, Steps, Codes
  <1>4. TypeOK'
    BY <1>1, <1>2, <1>3 DEF Gone, SpoolInv, TypeOK, karte
  <1>5. Wellformed'
    BY <1>1, <1>3 DEF Wellformed
  <1> QED BY <1>4, <1>5 DEF SpoolInv

\* The process dies outside its writes.
LEMMA CrashInv == SpoolInv /\ (Crash \/ Exit \/ LoadFails) => SpoolInv'
  <1> SUFFICES ASSUME SpoolInv, Crash \/ Exit \/ LoadFails PROVE SpoolInv'
    OBVIOUS
  <1>1. Gone /\ UNCHANGED <<disk, karte, said, limit, acked>>
    BY DEF Crash, Exit, LoadFails, ghost
  <1>2. crashes' \in 0..MaxCrashes
    BY BoundsAssumption DEF Crash, Exit, LoadFails, SpoolInv, TypeOK, ghost
  <1>3. /\ file' \in [Keys -> Turns] /\ headsFile' \in [Convs -> Heads]
        /\ completedFile' \subseteq Keys /\ enabledFile' \in BOOLEAN
        /\ \A k \in Keys : file'[k].open => file'[k].items["assistant_result"].seq = 0
    BY <1>1 DEF SpoolInv, TypeOK, Wellformed, disk
  <1> QED BY <1>1, <1>2, <1>3, GoneInv

\* A crash between the writes of a confirmation leaves typed files.
LEMMA ConfirmCrashesInv == SpoolInv /\ ConfirmCrashes => SpoolInv'
  <1> SUFFICES ASSUME SpoolInv, ConfirmCrashes PROVE SpoolInv'
    OBVIOUS
  <1>1. flight.event \in Events /\ Has(turns, flight.event)
    BY DEF ConfirmCrashes, SpoolInv, TypeOK, Wellformed
  <1>2. PICK n \in 1..(ConfirmWrites(Confirmed(flight.event)) - 1) :
          ConfirmDisk(flight.event, n)
    BY DEF ConfirmCrashes
  <1>3. n \in 0..4
    BY <1>2, ConfirmWritesType
  <1>4. /\ file' \in [Keys -> Turns] /\ headsFile' \in [Convs -> Heads]
        /\ completedFile' \subseteq Keys
        /\ \A k \in Keys : file'[k].open => file'[k].items["assistant_result"].seq = 0
    <2>1. completed \in SUBSET Keys
      BY DEF SpoolInv, TypeOK
    <2> QED BY <1>1, <1>2, <1>3, <2>1, ConfirmDiskType
  <1>5. Gone /\ UNCHANGED <<enabledFile, karte, said, limit, acked>>
    BY DEF ConfirmCrashes
  <1>6. crashes' \in 0..MaxCrashes /\ enabledFile' \in BOOLEAN
    <2>1. crashes \in Nat /\ crashes < MaxCrashes /\ crashes' = crashes + 1
      BY BoundsAssumption DEF ConfirmCrashes, SpoolInv, TypeOK
    <2> QED BY <1>5, <2>1, BoundsAssumption DEF SpoolInv, TypeOK
  <1> QED BY <1>4, <1>5, <1>6, GoneInv

\* What New() reads from the disk has its type.
LEMMA OpenInv == SpoolInv /\ Open => SpoolInv'
  <1> SUFFICES ASSUME SpoolInv, Open PROVE SpoolInv'
    OBVIOUS
  <1>1. file \in [Keys -> Turns] /\ headsFile \in [Convs -> Heads] /\ turns' = file
    BY DEF Open, SpoolInv, TypeOK
  <1>2. \A e \in Events : Item(file, e) \in Items /\ Item(file, e).seq \in Nat
    <2>1. \A e \in Events : Item(file, e) \in Items
      BY <1>1 DEF Item, Events, Turns
    <2> QED BY <2>1 DEF Items
  <1>3. \A c \in Convs : LoadedHeads(c) \subseteq Heads
    <2>1. \A c \in Convs : KnownHeads(c) \subseteq Heads
      BY <1>1, <1>2, AdvancedType DEF KnownHeads
    <2> QED BY <2>1 DEF LoadedHeads
  <1>4. PICK h : /\ h \in [Convs -> UNION {LoadedHeads(c) : c \in Convs}]
                 /\ heads' = h /\ headsFile' = h
                 /\ \E n \in [Convs -> UNION {NumbersOf(c, h[c]) : c \in Convs}] : seq' = n
    BY DEF Open
  <1>5. h \in [Convs -> Heads]
    BY <1>3, <1>4
  <1>6. seq' \in [Convs -> Nat]
    <2>1. \A c \in Convs : h[c].seq \in Nat
      BY <1>5 DEF Heads
    <2>2. \A c \in Convs : NumbersOf(c, h[c]) \subseteq Nat
      BY <1>2, <2>1 DEF NumbersOf
    <2> QED BY <1>4, <2>2
  <1>7. /\ phase' = "loading" /\ todo' = {k \in Keys : Present(file[k])}
        /\ UNCHANGED <<current, storageFailed, flight, file, completedFile,
                       enabledFile, karte, ghost>>
        /\ completed' = completedFile /\ enabled' = enabledFile
    BY DEF Open
  <1>8. TypeOK'
    BY <1>1, <1>4, <1>5, <1>6, <1>7 DEF SpoolInv, TypeOK, karte, ghost
  <1>9. flight.step = "idle"
    BY DEF Open, SpoolInv, Wellformed
  <1>10. flight.step \notin {"send", "poll", "readback"}
    BY <1>9
  <1>11. \A k \in Keys : turns'[k].open => k \in todo'
    BY <1>1, <1>7 DEF Present
  <1>12. Wellformed'
    BY <1>1, <1>7, <1>9, <1>10, <1>11 DEF SpoolInv, Wellformed
  <1> QED BY <1>8, <1>12 DEF SpoolInv

\* New() closes an open draft, or gives up.
LEMMA RecoverDraftInv ==
  ASSUME SpoolInv, NEW k \in Keys, RecoverDraft(k)
  PROVE  SpoolInv'
  <1> DEFINE n == seq[ConvOf[k]] + 1
             t == Closed(turns[k], n, turns[k].complete)
  <1>1. /\ turns[k] \in Turns /\ n \in Nat /\ turns[k].complete \in BOOLEAN
        /\ turns \in [Keys -> Turns] /\ file \in [Keys -> Turns]
        /\ phase = "loading" /\ flight.step = "idle"
    BY ConvOfAssumption DEF RecoverDraft, SpoolInv, TypeOK, Wellformed, Turns
  <1>2. t \in Turns /\ ~t.open
    BY <1>1, ClosedType
  <1>3. PICK w :
          /\ SaveTurn(k, t, w)
          /\ \/ /\ turns' = [turns EXCEPT ![k] = t]
                /\ seq' = [seq EXCEPT ![ConvOf[k]] = n]
                /\ todo' = todo \ {k}
                /\ UNCHANGED <<phase, settings, heads, completed, flight,
                               enabledFile>>
             \/ SaveEnabled(FALSE) /\ Gone
    BY DEF RecoverDraft
  <1>4. UNCHANGED <<headsFile, completedFile, karte, ghost>>
    BY DEF RecoverDraft
  <1> HIDE DEF t, n
  <1>5. /\ file' \in [Keys -> Turns]
        /\ \A j \in Keys \ {k} : file'[j] = file[j]
        /\ file'[k] = t \/ file'[k] = file[k]
    BY <1>2, <1>3, SaveTurnType DEF SpoolInv
  <1>6. \A j \in Keys : file'[j].open => file'[j].items["assistant_result"].seq = 0
    BY <1>2, <1>5 DEF SpoolInv, Wellformed
  <1>7. CASE SaveEnabled(FALSE) /\ Gone
    <2>1. enabledFile' \in BOOLEAN
      BY <1>7 DEF SaveEnabled, Written, SpoolInv, TypeOK
    <2>2. headsFile' \in [Convs -> Heads] /\ completedFile' \subseteq Keys
            /\ crashes' \in 0..MaxCrashes
      BY <1>4 DEF SpoolInv, TypeOK, ghost
    <2>3. UNCHANGED <<karte, said, limit, acked>>
      BY <1>4 DEF ghost
    <2> QED BY <1>5, <1>6, <1>7, <2>1, <2>2, <2>3, GoneInv
  <1>8. CASE /\ turns' = [turns EXCEPT ![k] = t]
             /\ seq' = [seq EXCEPT ![ConvOf[k]] = n]
             /\ todo' = todo \ {k}
             /\ UNCHANGED <<phase, settings, heads, completed, flight, enabledFile>>
    <2>1. /\ turns' \in [Keys -> Turns] /\ turns'[k] = t
          /\ \A j \in Keys \ {k} : turns'[j] = turns[j]
      BY <1>1, <1>2, <1>8
    <2>2. seq' \in [Convs -> Nat] /\ todo' \subseteq Keys
      BY <1>1, <1>8 DEF SpoolInv, TypeOK
    <2>3. TypeOK'
      BY <1>4, <1>5, <1>8, <2>1, <2>2 DEF SpoolInv, TypeOK, settings, karte, ghost
    <2>4. Wellformed'
      BY <1>1, <1>2, <1>6, <1>8, <2>1 DEF SpoolInv, Wellformed
    <2> QED BY <2>3, <2>4 DEF SpoolInv
  <1> QED BY <1>3, <1>7, <1>8

\* New() removes a delivered turn, or dies between its two writes.
LEMMA RecoverVerifiedInv ==
  ASSUME SpoolInv, NEW k \in Keys, RecoverVerified(k)
  PROVE  SpoolInv'
  <1>1. /\ turns \in [Keys -> Turns] /\ file \in [Keys -> Turns]
        /\ phase = "loading" /\ flight.step = "idle"
    BY DEF RecoverVerified, SpoolInv, TypeOK, Wellformed
  <1>2. UNCHANGED <<headsFile, enabledFile, karte, said, limit, acked>>
          /\ completedFile' \subseteq Keys
    BY DEF RecoverVerified, SpoolInv, TypeOK
  <1>3. NoTurn \in Turns /\ ~NoTurn.open
    BY NoTurnType DEF NoTurn
  <1>4. CASE /\ file' = [file EXCEPT ![k] = NoTurn]
             /\ turns' = [turns EXCEPT ![k] = NoTurn]
             /\ completed' = completed \cup {k}
             /\ todo' = todo \ {k}
             /\ UNCHANGED <<phase, settings, seq, heads, flight, crashes>>
    <2>1. /\ turns' \in [Keys -> Turns] /\ file' \in [Keys -> Turns]
          /\ turns'[k] = NoTurn /\ file'[k] = NoTurn
          /\ \A j \in Keys \ {k} : turns'[j] = turns[j] /\ file'[j] = file[j]
      BY <1>1, <1>3, <1>4
    <2>2. TypeOK'
      BY <1>2, <1>4, <2>1 DEF SpoolInv, TypeOK, settings, karte
    <2>3. Wellformed'
      BY <1>1, <1>3, <1>4, <2>1 DEF SpoolInv, Wellformed
    <2> QED BY <2>2, <2>3 DEF SpoolInv
  <1>5. CASE Interrupted /\ Gone /\ UNCHANGED file
    <2>1. crashes' \in 0..MaxCrashes
      BY <1>5, BoundsAssumption DEF Interrupted, SpoolInv, TypeOK
    <2>2. /\ file' \in [Keys -> Turns] /\ headsFile' \in [Convs -> Heads]
          /\ enabledFile' \in BOOLEAN
          /\ \A j \in Keys : file'[j].open => file'[j].items["assistant_result"].seq = 0
      BY <1>1, <1>2, <1>5 DEF SpoolInv, TypeOK, Wellformed
    <2> QED BY <1>2, <1>5, <2>1, <2>2, GoneInv
  <1> QED BY <1>4, <1>5 DEF RecoverVerified

\* Karte keeps proposals only.
LEMMA KarteInv ==
  ASSUME SpoolInv, NEW p \in outbox, KarteApply(p) \/ KarteReceipt(p) \/ KarteReject(p)
  PROVE  SpoolInv'
  <1>1. p \in Proposals /\ p.event \in Events
    BY DEF SpoolInv, TypeOK, Proposals
  <1>2. Conv(p.event) \in Convs
    BY <1>1, ConvOfAssumption DEF Events, Conv
  <1>3. UNCHANGED <<life, settings, store, flight, disk, ghost>>
    BY DEF KarteApply, KarteReceipt, KarteReject
  <1>4. /\ outbox' \subseteq Proposals /\ rejected' \subseteq Proposals
        /\ receipts' \subseteq Proposals
    BY <1>1 DEF KarteApply, KarteReceipt, KarteReject, SpoolInv, TypeOK
  <1>5. canon' \in [Convs -> Seq(Proposals)]
    <2>1. canon \in [Convs -> Seq(Proposals)]
      BY DEF SpoolInv, TypeOK
    <2>2. canon' = canon \/ canon' = [canon EXCEPT ![Conv(p.event)] = Append(@, p)]
      BY DEF KarteApply, KarteReceipt, KarteReject
    <2>3. Append(canon[Conv(p.event)], p) \in Seq(Proposals)
      BY <1>1, <1>2, <2>1
    <2> QED BY <1>2, <2>1, <2>2, <2>3
  <1>6. TypeOK'
    BY <1>3, <1>4, <1>5
    DEF SpoolInv, TypeOK, life, settings, store, disk, ghost
  <1>7. Wellformed'
    BY <1>3 DEF SpoolInv, Wellformed, life, store, disk, ghost, Has, Item
  <1> QED BY <1>6, <1>7 DEF SpoolInv

\* A step that changes nothing.
LEMMA StutterInv == SpoolInv /\ UNCHANGED vars => SpoolInv'
  BY DEF SpoolInv, TypeOK, Wellformed, vars, life, settings, store, disk, karte,
         ghost, Has, Item

\* Every step keeps types and shape.
LEMMA SpoolInvStep == SpoolInv /\ [Next]_vars => SpoolInv'
  <1> SUFFICES ASSUME SpoolInv, [Next]_vars PROVE SpoolInv'
    OBVIOUS
  <1>1. CASE Interaction
    BY <1>1, BeginInv, BeginRefusedInv, CommitInv, CheckpointInv,
       CheckpointRefusedInv, FinishInv DEF Interaction
  <1>2. CASE Settings
    BY <1>2, ConfigureOffInv, ConfigureOnInv, RetryInv DEF Settings
  <1>3. CASE Dispatcher
    BY <1>3, DispatchInv, PrepareInv, SendInv, PollInv, ConfirmInv,
       ConfirmFailsInv, AttemptFailsInv, RecordFailureInv DEF Dispatcher
  <1>4. CASE Restart
    BY <1>4, OpenInv, LoadedInv, RecoverDraftInv, RecoverVerifiedInv,
       RecoverPendingInv DEF Restart
  <1>5. CASE Failure
    BY <1>5, ConfirmCrashesInv, CrashInv, CloseInv DEF Failure
  <1>6. CASE Karte
    BY <1>6, KarteInv DEF Karte
  <1>7. CASE UNCHANGED vars
    BY <1>7, StutterInv
  <1> QED BY <1>1, <1>2, <1>3, <1>4, <1>5, <1>6, <1>7 DEF Next

\* Every reachable state of the spool is well typed, and well formed: an open
\* draft has no result yet, an attempt's event stays in memory with its
\* proposal, a draft in use started no later than its text, and New() visits
\* every open draft.
THEOREM TypeInvariant == Spec => []TypeOK /\ []Wellformed
  <1>1. Spec => []SpoolInv
    BY InitSpoolInv, SpoolInvStep, PTL DEF Spec
  <1>2. SpoolInv => TypeOK /\ Wellformed
    BY DEF SpoolInv
  <1> QED BY <1>1, <1>2, PTL

-----------------------------------------------------------------------------
(* Nothing that was acknowledged is lost.  AckedDurable is not inductive: it *)
(* says nothing of memory, from which the files are rewritten, nor of the    *)
(* receipt that justifies a removal.  SpoolInv /\ Handoff is.                *)

IInv == SpoolInv /\ Handoff

\* t may take the place of the turn k that memory holds: it lacks no event and
\* marks none verified unless that event is canonical.
MayReplace(k, t) ==
  \A kd \in Kinds :
    /\ turns[k].items[kd].seq > 0 => t.items[kd].seq > 0 \/ Canonical(<<k, kd>>)
    /\ t.items[kd].verified => turns[k].items[kd].verified \/ Canonical(<<k, kd>>)

\* The inductive invariant holds of the empty spool.
LEMMA InitIInv == Init => IInv
  <1> SUFFICES ASSUME Init PROVE IInv
    OBVIOUS
  <1>1. \A e \in Events : ~Item(turns, e).verified /\ ~Item(file, e).verified
    BY DEF Init, NoTurn, NoItem, Item, Events
  <1>2. receipts = {} /\ acked = {} /\ flight.step = "idle"
    BY DEF Init, NoFlight
  <1>3. Handoff
    BY <1>1, <1>2 DEF Handoff
  <1> QED BY <1>3, InitSpoolInv DEF IInv

\* An event is a pair of a key and a kind.
LEMMA EventPair ==
  ASSUME NEW e \in Events
  PROVE  /\ e[1] \in Keys /\ e[2] \in Kinds /\ e = <<e[1], e[2]>>
  BY DEF Events

\* The hand-off survives every step that replaces turns by ones that may
\* replace them and reads back only what has a receipt.
LEMMA KeepsHandoff ==
  ASSUME Handoff, phase # "down", UNCHANGED <<canon, receipts>>,
         \A k \in Keys : turns'[k] = turns[k] \/ MayReplace(k, turns'[k]),
         \A k \in Keys : file'[k] = file[k] \/ MayReplace(k, file'[k]),
         \A e \in acked' \ acked : Has(file', e) /\ Has(turns', e),
         acked \subseteq Events, acked' \subseteq Events,
         flight'.step = "readback" => Proposal(flight.event)' \in receipts
  PROVE  Handoff'
  <1>1. \A e : Canonical(e)' <=> Canonical(e)
    BY DEF Canonical
  <1>2. ASSUME NEW e \in Events, Item(turns', e).verified \/ Item(file', e).verified
        PROVE  Canonical(e)
    <2>1. \/ Item(turns, e).verified \/ Item(file, e).verified \/ Canonical(e)
      BY <1>2, EventPair DEF MayReplace, Item
    <2> QED BY <2>1 DEF Handoff
  <1>3. ASSUME NEW e \in acked'
        PROVE  Canonical(e) \/ (Has(file', e) /\ Has(turns', e))
    <2>1. CASE e \notin acked
      BY <1>3, <2>1
    <2>2. CASE e \in acked /\ ~Canonical(e)
      <3>1. e \in Events /\ Has(file, e) /\ Has(turns, e)
        BY <2>2 DEF Handoff
      <3>2. e[1] \in Keys /\ e[2] \in Kinds /\ e = <<e[1], e[2]>>
        BY <3>1, EventPair
      <3>3. Has(turns', e)
        BY <2>2, <3>1, <3>2 DEF MayReplace, Has, Item
      <3>4. Has(file', e)
        BY <2>2, <3>1, <3>2 DEF MayReplace, Has, Item
      <3> QED BY <3>3, <3>4
    <2> QED BY <2>1, <2>2
  <1>4. \A p \in receipts' : Applied(p)'
    BY DEF Handoff, Applied, InRecord
  <1>5. (flight.step = "readback" => Proposal(flight.event) \in receipts)'
    OBVIOUS
  <1>6. \A e \in Events : (Item(turns, e).verified \/ Item(file, e).verified => Canonical(e))'
    BY <1>1, <1>2
  <1>7. \A e \in acked' : (Canonical(e) \/ (Has(file, e) /\ (phase # "down" => Has(turns, e))))'
    BY <1>1, <1>3
  <1> QED BY <1>4, <1>5, <1>6, <1>7 DEF Handoff

\* The loss of memory does, when no file is replaced by less than memory held.
LEMMA GoneKeepsHandoff ==
  ASSUME Handoff, Gone, UNCHANGED <<canon, receipts, acked>>, acked \subseteq Events,
         \A k \in Keys : file'[k] = file[k] \/ (phase # "down" /\ MayReplace(k, file'[k]))
  PROVE  Handoff'
  <1>1. \A e : Canonical(e)' <=> Canonical(e)
    BY DEF Canonical
  <1>2. \A e \in Events : ~Item(turns', e).verified
    BY EventPair DEF Gone, NoTurn, NoItem, Item
  <1>3. ASSUME NEW e \in Events, Item(file', e).verified
        PROVE  Canonical(e)
    <2>1. \/ Item(turns, e).verified \/ Item(file, e).verified \/ Canonical(e)
      BY <1>3, EventPair DEF MayReplace, Item
    <2> QED BY <2>1 DEF Handoff
  <1>4. ASSUME NEW e \in acked
        PROVE  Canonical(e) \/ Has(file', e)
    <2>1. e \in Events /\ e[1] \in Keys /\ e[2] \in Kinds /\ e = <<e[1], e[2]>>
      BY EventPair
    <2>2. Canonical(e) \/ (Has(file, e) /\ (phase # "down" => Has(turns, e)))
      BY DEF Handoff
    <2> QED BY <2>1, <2>2 DEF MayReplace, Has, Item
  <1>5. \A p \in receipts' : Applied(p)'
    BY DEF Handoff, Applied, InRecord
  <1>6. phase' = "down" /\ flight'.step = "idle"
    BY DEF Gone, NoFlight
  <1>7. \A e \in Events : (Item(turns, e).verified \/ Item(file, e).verified => Canonical(e))'
    BY <1>1, <1>2, <1>3
  <1>8. \A e \in acked' : (Canonical(e) \/ (Has(file, e) /\ (phase # "down" => Has(turns, e))))'
    BY <1>1, <1>4, <1>6
  <1> QED BY <1>5, <1>6, <1>7, <1>8 DEF Handoff

\* A turn may replace itself.
LEMMA ReplaceSelf == \A k : MayReplace(k, turns[k])
  BY DEF MayReplace

\* A step that leaves turns, files and receipts alone, and reads back only what
\* has a receipt.
LEMMA QuietHandoff ==
  ASSUME Handoff, UNCHANGED <<turns, file, canon, receipts, acked>>,
         (phase' = "down") <=> (phase = "down"),
         flight'.step = "readback" =>
           \/ flight' = flight
           \/ flight'.event = flight.event /\ Proposal(flight.event) \in receipts
  PROVE  Handoff'
  BY DEF Handoff, Applied, InRecord, Canonical, Proposal, Has, Item

\* The actions that do not touch a turn.
LEMMA SettingsHandoff ==
  ASSUME IInv,
         \/ ConfigureOff \/ ConfigureOn \/ Close \/ Loaded
         \/ \E k \in Keys : \/ BeginRefused(k) \/ Commit(k)
                            \/ CheckpointRefused(k) \/ RecoverPending(k)
  PROVE  Handoff'
  <1>1. UNCHANGED <<turns, file, canon, receipts, acked, flight>>
    BY DEF ConfigureOff, ConfigureOn, Close, Loaded, BeginRefused, Commit,
           CheckpointRefused, RecoverPending, store, disk, karte, ghost
  <1>2. phase # "down" /\ phase' # "down"
    BY DEF ConfigureOff, ConfigureOn, Close, Loaded, BeginRefused, Commit,
           CheckpointRefused, RecoverPending, life
  <1> QED BY <1>1, <1>2, QuietHandoff DEF IInv

\* The steps of an attempt that only ask.
LEMMA AskHandoff ==
  ASSUME IInv, AttemptFails \/ Send \/ Poll
  PROVE  Handoff'
  <1>1. UNCHANGED <<turns, file, canon, receipts, acked, phase>>
    BY DEF AttemptFails, Send, Poll, life, store, disk, karte, ghost
  <1>2. flight \in [event : Events \cup {NoEvent}, step : Steps, code : Codes]
    BY DEF IInv, SpoolInv, TypeOK
  <1>3. flight'.step = "readback" =>
          flight'.event = flight.event /\ Proposal(flight.event) \in receipts
    BY <1>2 DEF AttemptFails, Send, Poll, Goto
  <1> QED BY <1>1, <1>3, QuietHandoff DEF IInv

\* The read-back of an attempt is not disturbed by a step of somebody else that
\* keeps the items of its turn.
LEMMA SameReadback ==
  ASSUME IInv, UNCHANGED <<flight, receipts>>,
         flight.step # "idle" =>
           /\ Item(turns', flight.event).seq = Item(turns, flight.event).seq
           /\ Item(turns', flight.event).cand = Item(turns, flight.event).cand
           /\ Item(turns', flight.event).base = Item(turns, flight.event).base
  PROVE  flight'.step = "readback" => Proposal(flight.event)' \in receipts
  BY DEF IInv, Handoff, Proposal, Item

\* A new turn takes the place of one that memory does not hold.
LEMMA StartTurnHandoff ==
  ASSUME IInv, phase = "up", NEW k \in Keys, ~Known(k), NEW s \in Texts,
         NEW n \in Nat, NEW w, StartTurn(k, s, n, w)
  PROVE  Handoff'
  <1> DEFINE draft == [NoTurn EXCEPT !.open = TRUE, !.skip = s]
             t == IF n = 0 THEN draft ELSE SetItem(draft, "user_final", NewItem(n))
  <1>1. \A kd \in Kinds : /\ turns[k].items[kd].seq \in Nat
                          /\ ~(turns[k].items[kd].seq > 0)
    <2>1. \A kd \in Kinds : turns[k].items[kd] \in Items
      BY DEF IInv, SpoolInv, TypeOK, Turns
    <2>2. \A kd \in Kinds : turns[k].items[kd].seq \in Nat
      BY <2>1 DEF Items
    <2> QED BY <2>2 DEF Known, Present
  <1>2. /\ draft \in Turns
        /\ \A kd \in Kinds : ~draft.items[kd].verified
    BY NoTurnType DEF NoTurn, Turns, NoItem, Kinds
  <1> HIDE DEF draft
  <1>3. "user_final" \in Kinds
    BY DEF Kinds
  <1>4. /\ \A kd \in Kinds : ~t.items[kd].verified
        /\ n # 0 => t.items["user_final"].seq = n
    <2>1. CASE n = 0
      BY <1>2, <2>1
    <2>2. CASE n # 0
      <3> DEFINE u == SetItem(draft, "user_final", NewItem(n))
      <3>1. /\ u.items["user_final"] = NewItem(n)
            /\ \A x \in Kinds \ {"user_final"} : u.items[x] = draft.items[x]
        BY <1>2, <1>3, NewItemType, SetItemType
      <3>2. t = u
        BY <2>2
      <3> HIDE DEF t, u
      <3> QED BY <1>2, <3>1, <3>2, NewItemType
    <2> QED BY <2>1, <2>2
  <1> HIDE DEF t
  <1>5. /\ file' = [file EXCEPT ![k] = Written(@, t, w)]
        /\ \/ /\ turns' = [turns EXCEPT ![k] = t] /\ w = "ok"
              /\ acked' = IF n = 0 THEN acked ELSE acked \cup {<<k, "user_final">>}
           \/ turns' = turns /\ acked' = acked
        /\ UNCHANGED <<phase, flight, canon, receipts>>
    BY DEF StartTurn, SaveTurn, t, draft, life, karte
  <1>6. MayReplace(k, t)
    BY <1>1, <1>4 DEF MayReplace
  <1>7. turns \in [Keys -> Turns] /\ file \in [Keys -> Turns] /\ acked \subseteq Events
    BY DEF IInv, SpoolInv, TypeOK
  <1>8. \A j \in Keys : /\ turns'[j] = turns[j] \/ (j = k /\ turns'[j] = t)
                        /\ file'[j] = file[j] \/ (j = k /\ file'[j] = t)
    BY <1>5, <1>7 DEF Written
  <1>9. \A e \in acked' \ acked : e \in Events /\ Has(file', e) /\ Has(turns', e)
    <2> SUFFICES ASSUME NEW e \in acked' \ acked
                 PROVE  e \in Events /\ Has(file', e) /\ Has(turns', e)
      OBVIOUS
    <2>1. e = <<k, "user_final">> /\ n # 0 /\ w = "ok" /\ turns' = [turns EXCEPT ![k] = t]
      BY <1>5
    <2>2. file'[k] = t /\ turns'[k] = t
      BY <1>5, <1>7, <2>1 DEF Written
    <2>3. e \in Events /\ e[1] = k /\ e[2] = "user_final"
      BY <1>3, <2>1 DEF Events
    <2> QED BY <1>4, <2>1, <2>2, <2>3 DEF Has, Item
  <1>10. flight'.step = "readback" => Proposal(flight.event)' \in receipts
    <2>1. ASSUME flight.step # "idle"
          PROVE  Item(turns', flight.event) = Item(turns, flight.event)
      <3>1. flight.event \in Events /\ Has(turns, flight.event)
        BY <2>1 DEF IInv, SpoolInv, TypeOK, Wellformed
      <3>2. flight.event[1] \in Keys /\ flight.event[1] # k
        BY <1>1, <3>1, EventPair DEF Has, Item
      <3> QED BY <1>8, <3>2 DEF Item
    <2> QED BY <1>5, <2>1, SameReadback
  <1> QED BY <1>5, <1>6, <1>7, <1>8, <1>9, <1>10, KeepsHandoff DEF IInv

\* A turn that enters the spool is on disk before its event is acknowledged.
LEMMA BeginHandoff ==
  ASSUME IInv, NEW k \in Keys,
         Begin(k) \/ BeginCandidate(k) \/ \E orig \in Keys : BeginContinuation(k, orig)
  PROVE  Handoff'
  <1>1. seq[ConvOf[k]] + 1 \in Nat /\ 0 \in Texts /\ \A j \in Keys : said[j] \in Texts
    BY ConvOfAssumption, BoundsAssumption DEF IInv, SpoolInv, TypeOK, Texts
  <1>2. CASE Begin(k)
    BY <1>1, <1>2, StartTurnHandoff DEF Begin
  <1>3. CASE BeginCandidate(k)
    BY <1>1, <1>3, StartTurnHandoff DEF BeginCandidate
  <1>4. CASE \E orig \in Keys : BeginContinuation(k, orig)
    BY <1>1, <1>4, StartTurnHandoff DEF BeginContinuation
  <1> QED BY <1>2, <1>3, <1>4

\* A checkpoint changes no item.
LEMMA CheckpointHandoff ==
  ASSUME IInv, NEW k \in Keys, Checkpoint(k)
  PROVE  Handoff'
  <1>1. turns \in [Keys -> Turns] /\ file \in [Keys -> Turns] /\ acked \subseteq Events
    BY DEF IInv, SpoolInv, TypeOK
  <1>2. PICK d, w :
          /\ d.items = turns[k].items
          /\ SaveTurn(k, d, w)
          /\ turns' = turns \/ turns' = [turns EXCEPT ![k] = d]
    <2> DEFINE x == [turns[k] EXCEPT !.text = Captured(k), !.complete = Complete(k)]
    <2>1. x.items = turns[k].items
      BY <1>1 DEF Turns
    <2>2. \E w : SaveTurn(k, x, w) /\ (turns' = turns \/ turns' = [turns EXCEPT ![k] = x])
      BY DEF Checkpoint
    <2> HIDE DEF x
    <2> QED BY <2>1, <2>2
  <1>3. UNCHANGED <<phase, flight, canon, receipts, acked>> /\ phase # "down"
    BY DEF Checkpoint, life, karte
  <1>4. \A j \in Keys : /\ turns'[j] = turns[j] \/ (j = k /\ turns'[j] = d)
                        /\ file'[j] = file[j] \/ (j = k /\ file'[j] = d)
    BY <1>1, <1>2 DEF SaveTurn, Written
  <1>5. MayReplace(k, d)
    BY <1>2 DEF MayReplace
  <1>6. \A j \in Keys : turns'[j].items = turns[j].items
    BY <1>2, <1>4
  <1>7. flight.step # "idle" => flight.event[1] \in Keys
    BY EventPair DEF IInv, SpoolInv, TypeOK
  <1>8. flight'.step = "readback" => Proposal(flight.event)' \in receipts
    BY <1>3, <1>6, <1>7, SameReadback DEF Item
  <1> QED BY <1>1, <1>3, <1>4, <1>5, <1>8, KeepsHandoff DEF IInv

\* A result adds an item to a draft that has none.
LEMMA FinishHandoff ==
  ASSUME IInv, NEW k \in Keys, Finish(k)
  PROVE  Handoff'
  <1> DEFINE n == seq[ConvOf[k]] + 1
             t == Closed(turns[k], n, Complete(k))
  <1>1. /\ turns[k] \in Turns /\ turns[k].open /\ n \in Nat /\ n > 0
        /\ turns[k].items["assistant_result"].seq = 0
        /\ turns \in [Keys -> Turns] /\ file \in [Keys -> Turns] /\ acked \subseteq Events
    BY ConvOfAssumption DEF Finish, IInv, SpoolInv, TypeOK, Wellformed
  <1>2. /\ t.items["assistant_result"] = NewItem(n)
        /\ t.items["user_final"] = turns[k].items["user_final"]
    BY <1>1, ClosedType DEF Complete
  <1>3. /\ \E w : /\ SaveTurn(k, t, w)
                  /\ \/ /\ w = "ok" /\ turns' = [turns EXCEPT ![k] = t]
                        /\ acked' = acked \cup {<<k, "assistant_result">>}
                     \/ turns' = turns /\ acked' = acked
        /\ UNCHANGED <<phase, flight, canon, receipts>> /\ phase # "down"
    BY DEF Finish, life, karte
  <1> HIDE DEF t, n
  <1>4. /\ t.items["assistant_result"].seq = n /\ ~t.items["assistant_result"].verified
    BY <1>1, <1>2, NewItemType
  <1>5. MayReplace(k, t)
    BY <1>1, <1>2, <1>4 DEF MayReplace, Kinds
  <1>6. \A j \in Keys : /\ turns'[j] = turns[j] \/ (j = k /\ turns'[j] = t)
                        /\ file'[j] = file[j] \/ (j = k /\ file'[j] = t)
    BY <1>1, <1>3 DEF SaveTurn, Written
  <1>7. \A e \in acked' \ acked : e \in Events /\ Has(file', e) /\ Has(turns', e)
    <2> SUFFICES ASSUME NEW e \in acked' \ acked
                 PROVE  e \in Events /\ Has(file', e) /\ Has(turns', e)
      OBVIOUS
    <2>1. e = <<k, "assistant_result">> /\ file'[k] = t /\ turns'[k] = t
      BY <1>1, <1>3 DEF SaveTurn, Written
    <2>2. e \in Events /\ e[1] = k /\ e[2] = "assistant_result"
      BY <2>1 DEF Events, Kinds
    <2> QED BY <1>1, <1>4, <2>1, <2>2 DEF Has, Item
  <1>8. flight'.step = "readback" => Proposal(flight.event)' \in receipts
    <2>1. ASSUME flight.step # "idle"
          PROVE  Item(turns', flight.event) = Item(turns, flight.event)
      <3>1. flight.event \in Events /\ Has(turns, flight.event)
        BY <2>1 DEF IInv, SpoolInv, TypeOK, Wellformed
      <3>2. flight.event[1] \in Keys
              /\ (flight.event[1] = k => flight.event[2] = "user_final")
        BY <1>1, <3>1, EventPair DEF Kinds, Has, Item
      <3> QED BY <1>2, <1>6, <3>2 DEF Item
    <2> QED BY <1>3, <2>1, SameReadback
  <1> QED BY <1>1, <1>3, <1>5, <1>6, <1>7, <1>8, KeepsHandoff DEF IInv

\* Retry and the choice of an item rewrite what memory holds.
LEMMA RetryHandoff ==
  ASSUME IInv, Retry
  PROVE  Handoff'
  <1>1. turns \in [Keys -> Turns] /\ file \in [Keys -> Turns] /\ acked \subseteq Events
    BY DEF IInv, SpoolInv, TypeOK
  <1>2. \A k \in Keys : /\ turns'[k] \in {turns[k], ResetItems(turns[k])}
                        /\ file'[k] = file[k] \/ file'[k] = turns'[k]
    BY <1>1 DEF Retry, Written
  <1>3. UNCHANGED <<phase, flight, canon, receipts, acked>> /\ phase # "down"
    BY DEF Retry, life, karte, ghost
  <1>4. \A k \in Keys : \A kd \in Kinds :
          /\ turns'[k].items[kd].seq = turns[k].items[kd].seq
          /\ turns'[k].items[kd].cand = turns[k].items[kd].cand
          /\ turns'[k].items[kd].base = turns[k].items[kd].base
          /\ turns'[k].items[kd].verified = turns[k].items[kd].verified
    BY <1>1, <1>2, ResetItemsType
  <1>5. \A k \in Keys : MayReplace(k, turns'[k])
    BY <1>4 DEF MayReplace
  <1>6. flight.step # "idle" => flight.event[1] \in Keys /\ flight.event[2] \in Kinds
    BY EventPair DEF IInv, SpoolInv, TypeOK
  <1>7. flight'.step = "readback" => Proposal(flight.event)' \in receipts
    BY <1>3, <1>4, <1>6, SameReadback DEF Item
  <1> QED BY <1>1, <1>2, <1>3, <1>5, <1>7, KeepsHandoff DEF IInv

\* Saving the chosen turn again loses nothing.
LEMMA DispatchHandoff ==
  ASSUME IInv, NEW e \in Events, Dispatch(e)
  PROVE  Handoff'
  <1>1. turns \in [Keys -> Turns] /\ file \in [Keys -> Turns] /\ acked \subseteq Events
    BY DEF IInv, SpoolInv, TypeOK
  <1>2. \A k \in Keys : file'[k] = file[k] \/ file'[k] = turns[k]
    BY <1>1, EventPair DEF Dispatch, SaveTurn, Written
  <1>3. UNCHANGED <<turns, phase, canon, receipts, acked>> /\ phase # "down"
    BY DEF Dispatch, life, karte, store
  <1>4. /\ flight.step = "idle"
        /\ \/ flight' = flight
           \/ flight' = [event |-> e, step |-> "prepare", code |-> "none"]
    BY DEF Dispatch
  <1>5. flight'.step # "readback"
    BY <1>4
  <1> QED BY <1>1, <1>2, <1>3, <1>5, ReplaceSelf, KeepsHandoff DEF IInv

\* A rebuilt proposal is a new delivery of the same event.
LEMMA PrepareHandoff ==
  ASSUME IInv, Prepare
  PROVE  Handoff'
  <1> DEFINE e == flight.event
             i == Item(turns, e)
  <1>1. /\ turns \in [Keys -> Turns] /\ file \in [Keys -> Turns] /\ acked \subseteq Events
        /\ e[1] \in Keys /\ e[2] \in Kinds /\ turns[e[1]] \in Turns /\ i \in Items
    <2>1. /\ turns \in [Keys -> Turns] /\ file \in [Keys -> Turns] /\ acked \subseteq Events
          /\ e \in Events
      BY DEF Prepare, IInv, SpoolInv, TypeOK
    <2>2. e[1] \in Keys /\ e[2] \in Kinds
      BY <2>1, EventPair
    <2> QED BY <2>1, <2>2 DEF Item, Turns
  <1>2. PICK t : /\ MayReplace(e[1], t)
                 /\ file' = file \/ \E w : SaveTurn(e[1], t, w)
                 /\ turns' = turns \/ turns' = [turns EXCEPT ![e[1]] = t]
    <2>1. CASE UNCHANGED <<turns, file>>
      BY <2>1, ReplaceSelf
    <2>2. ASSUME NEW id \in Candidates
          PROVE  MayReplace(e[1], SetItem(turns[e[1]], e[2],
                   [i EXCEPT !.cand = id, !.base = heads[Conv(e)].rev]))
      <3> DEFINE j == [i EXCEPT !.cand = id, !.base = heads[Conv(e)].rev]
                 t == SetItem(turns[e[1]], e[2], j)
      <3>1. j.seq = i.seq /\ j.verified = i.verified
        BY <1>1 DEF Items
      <3> HIDE DEF j
      <3>2. t.items[e[2]] = j /\ \A x \in Kinds \ {e[2]} : t.items[x] = turns[e[1]].items[x]
        BY <1>1 DEF SetItem, Turns
      <3> HIDE DEF t
      <3>3. MayReplace(e[1], t)
        BY <1>1, <3>1, <3>2 DEF MayReplace, Item
      <3> QED BY <3>3 DEF t, j
    <2>3. \/ UNCHANGED <<turns, file>>
          \/ \E id \in Candidates, w \in {"ok"} \cup Faults :
               LET t == SetItem(turns[e[1]], e[2],
                          [i EXCEPT !.cand = id, !.base = heads[Conv(e)].rev])
               IN  /\ SaveTurn(e[1], t, w)
                   /\ turns' = turns \/ turns' = [turns EXCEPT ![e[1]] = t]
      BY DEF Prepare
    <2> QED BY <2>1, <2>2, <2>3
  <1>3. \A j \in Keys : /\ turns'[j] = turns[j] \/ MayReplace(j, turns'[j])
                        /\ file'[j] = file[j] \/ MayReplace(j, file'[j])
    BY <1>1, <1>2 DEF SaveTurn, Written
  <1>4. UNCHANGED <<phase, canon, receipts, acked>> /\ phase # "down"
    BY DEF Prepare, life, karte, ghost, IInv, SpoolInv, Wellformed
  <1>5. flight'.step # "readback"
    <2>1. flight \in [event : Events \cup {NoEvent}, step : Steps, code : Codes]
      BY DEF IInv, SpoolInv, TypeOK
    <2> QED BY <2>1 DEF Prepare, Goto
  <1> QED BY <1>1, <1>3, <1>4, <1>5, KeepsHandoff DEF IInv

\* An event whose receipt was found is in Karte's record.
LEMMA ReadbackCanonical ==
  ASSUME IInv, flight.step = "readback"
  PROVE  Canonical(flight.event)
  <1>1. Applied(Proposal(flight.event))
    BY DEF IInv, Handoff
  <1>2. Proposal(flight.event).event = flight.event
    BY DEF Proposal
  <1> QED BY <1>1, <1>2 DEF Applied, InRecord, Canonical

\* What a confirmation leaves of the turn may replace it: the item it marks is
\* canonical, and nothing else is missing unless it was marked before.
LEMMA ConfirmReplaces ==
  ASSUME IInv, flight.step = "readback"
  PROVE  LET e == flight.event IN
         /\ MayReplace(e[1], Confirmed(e))
         /\ ConfirmWrites(Confirmed(e)) = 4 => MayReplace(e[1], NoTurn)
         /\ \A n \in 0..4 :
              ConfirmDisk(e, n) /\ (n = 4 => ConfirmWrites(Confirmed(e)) = 4) =>
                \A k \in Keys : file'[k] = file[k] \/ MayReplace(k, file'[k])
  <1> DEFINE e == flight.event
             t == Confirmed(e)
  <1>1. e \in Events /\ Has(turns, e) /\ TypeOK /\ file \in [Keys -> Turns]
    BY DEF IInv, SpoolInv, Wellformed, TypeOK
  <1>2. e[1] \in Keys /\ e[2] \in Kinds /\ e = <<e[1], e[2]>> /\ Canonical(e)
    BY <1>1, EventPair, ReadbackCanonical
  <1>3. /\ t.items[e[2]].verified /\ t.items[e[2]].seq = turns[e[1]].items[e[2]].seq
        /\ \A x \in Kinds \ {e[2]} : t.items[x] = turns[e[1]].items[x]
    BY <1>1, ConfirmedType DEF Item
  <1> HIDE DEF t, e
  <1>4. MayReplace(e[1], t)
    BY <1>2, <1>3 DEF MayReplace
  <1>5. ASSUME ConfirmWrites(t) = 4
        PROVE  MayReplace(e[1], NoTurn)
    <2>1. AllVerified(t)
      BY <1>5 DEF ConfirmWrites
    <2>2. ASSUME NEW kd \in Kinds, turns[e[1]].items[kd].seq > 0
          PROVE  Canonical(<<e[1], kd>>)
      <3>1. CASE kd = e[2]
        BY <1>2, <3>1
      <3>2. CASE kd # e[2]
        <4>1. turns[e[1]].items[kd].verified
          BY <1>3, <2>1, <2>2, <3>2 DEF AllVerified
        <4>2. <<e[1], kd>> \in Events /\ Item(turns, <<e[1], kd>>).verified
          BY <1>2, <4>1 DEF Events, Item
        <4> QED BY <4>2 DEF IInv, Handoff
      <3> QED BY <3>1, <3>2
    <2>3. \A kd \in Kinds : ~NoTurn.items[kd].verified
      BY DEF NoTurn, NoItem
    <2> QED BY <2>2, <2>3 DEF MayReplace
  <1>6. ASSUME NEW n \in 0..4, ConfirmDisk(e, n), n = 4 => ConfirmWrites(t) = 4,
               NEW k \in Keys
        PROVE  file'[k] = file[k] \/ MayReplace(k, file'[k])
    <2>1. CASE n = 4
      <3>1. file' = [file EXCEPT ![e[1]] = NoTurn]
        BY <1>6, <2>1 DEF ConfirmDisk
      <3> QED BY <1>1, <1>5, <1>6, <2>1, <3>1
    <2>2. CASE n \in 1..3
      <3>1. n # 4 /\ (CASE n = 4 -> NoTurn [] n \in 1..3 -> t [] n = 0 -> file[e[1]]) = t
        BY <2>2
      <3>2. file' = [file EXCEPT ![e[1]] =
              CASE n = 4 -> NoTurn [] n \in 1..3 -> t [] n = 0 -> file[e[1]]]
        BY <1>6 DEF ConfirmDisk, t
      <3> QED BY <1>1, <1>4, <3>1, <3>2
    <2>3. CASE n = 0
      <3>1. file' = [file EXCEPT ![e[1]] = file[e[1]]]
        BY <1>6, <2>3 DEF ConfirmDisk
      <3> QED BY <1>1, <3>1
    <2> QED BY <2>1, <2>2, <2>3
  <1> QED BY <1>4, <1>5, <1>6 DEF t, e

\* The event whose copy goes was read back: it is canonical.
LEMMA ConfirmHandoff ==
  ASSUME IInv, Confirm
  PROVE  Handoff'
  <1> DEFINE e == flight.event
             t == Confirmed(e)
  <1>1. turns \in [Keys -> Turns] /\ acked \subseteq Events /\ flight.step = "readback"
    BY DEF Confirm, IInv, SpoolInv, TypeOK
  <1>2. e \in Events /\ e[1] \in Keys /\ ConfirmWrites(t) \in {2, 4}
    <2>1. e \in Events
      BY <1>1 DEF IInv, SpoolInv, TypeOK
    <2> QED BY <2>1, EventPair, ConfirmWritesType
  <1>3. /\ ConfirmDisk(e, ConfirmWrites(t))
        /\ turns' = [turns EXCEPT ![e[1]] = IF ConfirmWrites(t) = 4 THEN NoTurn ELSE t]
        /\ flight' = NoFlight
        /\ UNCHANGED <<phase, canon, receipts, acked>>
    BY DEF Confirm, life, karte, ghost
  <1>4. \A k \in Keys : file'[k] = file[k] \/ MayReplace(k, file'[k])
    BY <1>1, <1>2, <1>3, ConfirmReplaces
  <1>5. MayReplace(e[1], t) /\ (ConfirmWrites(t) = 4 => MayReplace(e[1], NoTurn))
    BY <1>1, ConfirmReplaces
  <1> HIDE DEF t
  <1>6. \A k \in Keys : turns'[k] = turns[k] \/ MayReplace(k, turns'[k])
    BY <1>1, <1>2, <1>3, <1>5
  <1>7. phase # "down" /\ flight'.step # "readback"
    BY <1>1, <1>3 DEF NoFlight, IInv, SpoolInv, Wellformed
  <1> QED BY <1>1, <1>3, <1>4, <1>6, <1>7, KeepsHandoff DEF IInv

\* One of its writes fails: memory and disk stop at different places.
LEMMA ConfirmFailsHandoff ==
  ASSUME IInv, ConfirmFails
  PROVE  Handoff'
  <1> DEFINE e == flight.event
             t == Confirmed(e)
  <1>1. /\ turns \in [Keys -> Turns] /\ acked \subseteq Events /\ flight.step = "readback"
        /\ flight \in [event : Events \cup {NoEvent}, step : Steps, code : Codes]
    BY DEF ConfirmFails, IInv, SpoolInv, TypeOK
  <1>2. e[1] \in Keys /\ ConfirmWrites(t) \in {2, 4}
    <2>1. e \in Events
      BY <1>1 DEF IInv, SpoolInv, TypeOK
    <2> QED BY <2>1, EventPair, ConfirmWritesType
  <1>3. PICK n \in 0..(ConfirmWrites(t) - 1), w \in Faults :
          /\ ConfirmDisk(e, IF w = "late" THEN n + 1 ELSE n)
          /\ turns' = IF n = 0 THEN turns ELSE [turns EXCEPT ![e[1]] = t]
    BY DEF ConfirmFails
  <1>4. /\ (IF w = "late" THEN n + 1 ELSE n) \in 0..4
        /\ (IF w = "late" THEN n + 1 ELSE n) = 4 => ConfirmWrites(t) = 4
    BY <1>2
  <1>5. \A k \in Keys : file'[k] = file[k] \/ MayReplace(k, file'[k])
    BY <1>1, <1>3, <1>4, ConfirmReplaces
  <1>6. MayReplace(e[1], t)
    BY <1>1, ConfirmReplaces
  <1> HIDE DEF t
  <1>7. \A k \in Keys : turns'[k] = turns[k] \/ MayReplace(k, turns'[k])
    BY <1>1, <1>2, <1>3, <1>6
  <1>8. /\ phase # "down" /\ flight'.step # "readback"
        /\ UNCHANGED <<phase, canon, receipts, acked>>
    BY <1>1 DEF ConfirmFails, Goto, IInv, SpoolInv, Wellformed, life, karte, ghost
  <1> QED BY <1>1, <1>5, <1>7, <1>8, KeepsHandoff DEF IInv

\* The process dies between two of them.
LEMMA ConfirmCrashesHandoff ==
  ASSUME IInv, ConfirmCrashes
  PROVE  Handoff'
  <1>1. acked \subseteq Events /\ flight.step = "readback" /\ phase # "down"
    BY DEF ConfirmCrashes, IInv, SpoolInv, TypeOK, Wellformed
  <1>2. PICK n \in 1..(ConfirmWrites(Confirmed(flight.event)) - 1) :
          ConfirmDisk(flight.event, n)
    BY DEF ConfirmCrashes
  <1>3. n \in 0..4 /\ n # 4
    BY <1>2, ConfirmWritesType
  <1>4. \A k \in Keys : file'[k] = file[k] \/ MayReplace(k, file'[k])
    BY <1>1, <1>2, <1>3, ConfirmReplaces
  <1>5. Gone /\ UNCHANGED <<canon, receipts, acked>>
    BY DEF ConfirmCrashes, karte
  <1> QED BY <1>1, <1>4, <1>5, GoneKeepsHandoff DEF IInv

\* A failed attempt keeps the item, whether or not its state was saved.
LEMMA RecordFailureHandoff ==
  ASSUME IInv, RecordFailure
  PROVE  Handoff'
  <1> DEFINE e == flight.event
             i == [Item(turns, e) EXCEPT !.blocked = (flight.code # "offline")]
             t == SetItem(turns[e[1]], e[2], i)
  <1>1. /\ turns \in [Keys -> Turns] /\ file \in [Keys -> Turns] /\ acked \subseteq Events
        /\ e \in Events /\ phase # "down"
    BY DEF RecordFailure, IInv, SpoolInv, TypeOK, Wellformed
  <1>2. e[1] \in Keys /\ e[2] \in Kinds
    BY <1>1, EventPair
  <1>3. Item(turns, e) \in Items /\ turns[e[1]] \in Turns
    BY <1>1, <1>2 DEF Item, Turns
  <1>4. i.seq = Item(turns, e).seq /\ i.verified = Item(turns, e).verified
    BY <1>3 DEF Items
  <1> HIDE DEF i
  <1>5. t.items[e[2]] = i /\ \A x \in Kinds \ {e[2]} : t.items[x] = turns[e[1]].items[x]
    BY <1>2, <1>3 DEF SetItem, Turns
  <1> HIDE DEF t
  <1>6. MayReplace(e[1], t)
    BY <1>2, <1>4, <1>5 DEF MayReplace, Item
  <1>7. /\ turns' = [turns EXCEPT ![e[1]] = t]
        /\ \E w : SaveTurn(e[1], t, w)
        /\ flight' = NoFlight /\ UNCHANGED <<phase, canon, receipts, acked>>
    BY DEF RecordFailure, t, i, life, karte
  <1>8. \A k \in Keys : /\ turns'[k] = turns[k] \/ MayReplace(k, turns'[k])
                        /\ file'[k] = file[k] \/ MayReplace(k, file'[k])
    BY <1>1, <1>2, <1>6, <1>7 DEF SaveTurn, Written
  <1>9. flight'.step # "readback"
    BY <1>7 DEF NoFlight
  <1> QED BY <1>1, <1>7, <1>8, <1>9, KeepsHandoff DEF IInv

\* A crash leaves the files, and the files hold what was acknowledged.
LEMMA CrashHandoff ==
  ASSUME IInv, Crash \/ Exit \/ LoadFails
  PROVE  Handoff'
  <1>1. Gone /\ UNCHANGED <<file, canon, receipts, acked>> /\ acked \subseteq Events
    BY DEF Crash, Exit, LoadFails, disk, karte, ghost, IInv, SpoolInv, TypeOK
  <1> QED BY <1>1, GoneKeepsHandoff DEF IInv

\* New() takes memory from the files.
LEMMA OpenHandoff ==
  ASSUME IInv, Open
  PROVE  Handoff'
  <1>1. /\ turns' = file /\ UNCHANGED <<file, flight, canon, receipts, acked>>
        /\ phase = "down"
    BY DEF Open, karte, ghost
  <1>2. flight.step = "idle"
    BY <1>1 DEF IInv, SpoolInv, Wellformed
  <1>3. flight'.step # "readback"
    BY <1>1, <1>2
  <1>4. \A e : Canonical(e)' <=> Canonical(e)
    BY <1>1 DEF Canonical
  <1>5. \A p \in receipts' : Applied(p)'
    BY <1>1 DEF IInv, Handoff, Applied, InRecord
  <1>6. \A e \in Events : (Item(turns, e).verified \/ Item(file, e).verified => Canonical(e))'
    BY <1>1, <1>4 DEF IInv, Handoff, Item
  <1>7. \A e \in acked' : (Canonical(e) \/ (Has(file, e) /\ (phase # "down" => Has(turns, e))))'
    BY <1>1, <1>4 DEF IInv, Handoff, Has, Item
  <1> QED BY <1>3, <1>5, <1>6, <1>7 DEF Handoff

\* Closing an interrupted draft adds an item and removes none.
LEMMA RecoverDraftHandoff ==
  ASSUME IInv, NEW k \in Keys, RecoverDraft(k)
  PROVE  Handoff'
  <1> DEFINE n == seq[ConvOf[k]] + 1
             t == Closed(turns[k], n, turns[k].complete)
  <1>1. /\ turns[k] \in Turns /\ n \in Nat /\ n > 0 /\ turns[k].complete \in BOOLEAN
        /\ turns \in [Keys -> Turns] /\ file \in [Keys -> Turns] /\ acked \subseteq Events
        /\ phase = "loading" /\ flight.step = "idle"
        /\ turns[k].items["assistant_result"].seq = 0
    BY ConvOfAssumption DEF RecoverDraft, IInv, SpoolInv, TypeOK, Wellformed, Turns
  <1>2. /\ t.items["assistant_result"] = NewItem(n)
        /\ t.items["user_final"] = turns[k].items["user_final"]
    BY <1>1, ClosedType
  <1>3. /\ \E w : SaveTurn(k, t, w)
        /\ \/ turns' = [turns EXCEPT ![k] = t] /\ UNCHANGED <<phase, flight>>
           \/ Gone
        /\ UNCHANGED <<canon, receipts, acked>>
    BY DEF RecoverDraft, karte, ghost
  <1> HIDE DEF t, n
  <1>4. MayReplace(k, t)
    BY <1>1, <1>2, NewItemType DEF MayReplace, Kinds
  <1>5. \A j \in Keys : file'[j] = file[j] \/ MayReplace(j, file'[j])
    BY <1>1, <1>3, <1>4 DEF SaveTurn, Written
  <1>6. CASE Gone
    BY <1>1, <1>3, <1>5, <1>6, GoneKeepsHandoff DEF IInv
  <1>7. CASE turns' = [turns EXCEPT ![k] = t] /\ UNCHANGED <<phase, flight>>
    <2>1. \A j \in Keys : turns'[j] = turns[j] \/ MayReplace(j, turns'[j])
      BY <1>1, <1>4, <1>7
    <2>2. flight'.step # "readback"
      BY <1>1, <1>7
    <2> QED BY <1>1, <1>3, <1>5, <2>1, <2>2, KeepsHandoff DEF IInv
  <1> QED BY <1>3, <1>6, <1>7

\* A turn New() removes holds canonical events only.
LEMMA RecoverVerifiedHandoff ==
  ASSUME IInv, NEW k \in Keys, RecoverVerified(k)
  PROVE  Handoff'
  <1>1. /\ turns \in [Keys -> Turns] /\ file \in [Keys -> Turns] /\ acked \subseteq Events
        /\ phase = "loading" /\ flight.step = "idle" /\ AllVerified(turns[k])
        /\ UNCHANGED <<canon, receipts, acked>>
    BY DEF RecoverVerified, IInv, SpoolInv, TypeOK, Wellformed, karte
  <1>2. MayReplace(k, NoTurn)
    <2>1. ASSUME NEW kd \in Kinds, turns[k].items[kd].seq > 0
          PROVE  Canonical(<<k, kd>>)
      <3>1. <<k, kd>> \in Events /\ Item(turns, <<k, kd>>).verified
        BY <1>1, <2>1 DEF AllVerified, Events, Item
      <3> QED BY <3>1 DEF IInv, Handoff
    <2>2. \A kd \in Kinds : ~NoTurn.items[kd].verified
      BY DEF NoTurn, NoItem
    <2> QED BY <2>1, <2>2 DEF MayReplace
  <1>3. CASE /\ file' = [file EXCEPT ![k] = NoTurn]
             /\ turns' = [turns EXCEPT ![k] = NoTurn]
             /\ UNCHANGED <<phase, flight>>
    <2>1. \A j \in Keys : /\ turns'[j] = turns[j] \/ MayReplace(j, turns'[j])
                          /\ file'[j] = file[j] \/ MayReplace(j, file'[j])
      BY <1>1, <1>2, <1>3
    <2>2. flight'.step # "readback"
      BY <1>1, <1>3
    <2> QED BY <1>1, <2>1, <2>2, KeepsHandoff DEF IInv
  <1>4. CASE Gone /\ UNCHANGED file
    BY <1>1, <1>4, GoneKeepsHandoff DEF IInv
  <1> QED BY <1>3, <1>4 DEF RecoverVerified

\* Karte's record only grows, and a receipt is for what is in it.
LEMMA KarteHandoff ==
  ASSUME IInv, NEW p \in outbox, KarteApply(p) \/ KarteReceipt(p) \/ KarteReject(p)
  PROVE  Handoff'
  <1>1. UNCHANGED <<turns, file, acked, phase, flight>>
    BY DEF KarteApply, KarteReceipt, KarteReject, life, store, disk, ghost
  <1>2. canon \in [Convs -> Seq(Proposals)] /\ p \in Proposals
    BY DEF IInv, SpoolInv, TypeOK
  <1>3. \A q \in Proposals : Conv(q.event) \in Convs
    BY ConvOfAssumption DEF Proposals, Conv, Events
  <1>4. \A c \in Convs : /\ Len(canon[c]) \in Nat /\ Len(canon[c]) =< Len(canon'[c])
                         /\ \A i \in 1..Len(canon[c]) : canon'[c][i] = canon[c][i]
    <2>1. CASE canon' = canon
      BY <1>2, <2>1
    <2>2. CASE canon' = [canon EXCEPT ![Conv(p.event)] = Append(@, p)]
      BY <1>2, <1>3, <2>2
    <2> QED BY <2>1, <2>2 DEF KarteApply, KarteReceipt, KarteReject
  <1>5. \A e \in Events : Canonical(e) => Canonical(e)'
    <2>1. \A e \in Events : Conv(e) \in Convs
      BY ConvOfAssumption DEF Conv, Events
    <2> QED BY <1>4, <2>1 DEF Canonical
  <1>6. \A q \in Proposals : Applied(q) => Applied(q)'
    BY <1>3, <1>4 DEF Applied, InRecord
  <1>7. \A q \in receipts' : q \in Proposals /\ Applied(q)
    <2>1. receipts \subseteq Proposals /\ \A q \in receipts : Applied(q)
      BY DEF IInv, SpoolInv, TypeOK, Handoff
    <2>2. receipts' = receipts \/ (receipts' = receipts \cup {p} /\ Applied(p))
      BY DEF KarteApply, KarteReceipt, KarteReject
    <2> QED BY <1>2, <2>1, <2>2
  <1>8. receipts \subseteq receipts'
    BY DEF KarteApply, KarteReceipt, KarteReject
  <1>9. (flight.step = "readback" => Proposal(flight.event) \in receipts)'
    BY <1>1, <1>8 DEF IInv, Handoff, Proposal, Item
  <1>10. \A e \in Events : (Item(turns, e).verified \/ Item(file, e).verified => Canonical(e))'
    BY <1>1, <1>5 DEF IInv, Handoff, Item
  <1>11. \A e \in acked' : (Canonical(e) \/ (Has(file, e) /\ (phase # "down" => Has(turns, e))))'
    <2>1. acked \subseteq Events
      BY DEF IInv, SpoolInv, TypeOK
    <2> QED BY <1>1, <1>5, <2>1 DEF IInv, Handoff, Has, Item
  <1>12. \A q \in receipts' : Applied(q)'
    BY <1>6, <1>7
  <1> QED BY <1>9, <1>10, <1>11, <1>12 DEF Handoff

\* Every step keeps the inductive invariant.
LEMMA IInvStep == IInv /\ [Next]_vars => IInv'
  <1> SUFFICES ASSUME IInv, [Next]_vars PROVE Handoff'
    BY SpoolInvStep DEF IInv
  <1>1. CASE Interaction
    BY <1>1, BeginHandoff, SettingsHandoff, CheckpointHandoff, FinishHandoff
    DEF Interaction
  <1>2. CASE Settings
    BY <1>2, SettingsHandoff, RetryHandoff DEF Settings
  <1>3. CASE Dispatcher
    BY <1>3, DispatchHandoff, PrepareHandoff, AskHandoff, ConfirmHandoff,
       ConfirmFailsHandoff, RecordFailureHandoff DEF Dispatcher
  <1>4. CASE Restart
    BY <1>4, OpenHandoff, SettingsHandoff, RecoverDraftHandoff,
       RecoverVerifiedHandoff DEF Restart
  <1>5. CASE Failure
    BY <1>5, ConfirmCrashesHandoff, CrashHandoff, SettingsHandoff DEF Failure
  <1>6. CASE Karte
    BY <1>6, KarteHandoff DEF Karte
  <1>7. CASE UNCHANGED vars
    <2>1. UNCHANGED <<turns, file, canon, receipts, acked, flight, phase>>
      BY <1>7 DEF vars, life, store, disk, karte, ghost
    <2> QED BY <2>1, QuietHandoff DEF IInv
  <1> QED BY <1>1, <1>2, <1>3, <1>4, <1>5, <1>6, <1>7 DEF Next

\* Receipts are for events in Karte's record, what is read back has its receipt,
\* only canonical events are marked verified, and an acknowledged event stays on
\* disk and in memory until it is canonical: at every write, failure and crash.
THEOREM HandoffInvariant == Spec => []Handoff
  <1>1. Spec => []IInv
    BY InitIInv, IInvStep, PTL DEF Spec
  <1>2. IInv => Handoff
    BY DEF IInv
  <1> QED BY <1>1, <1>2, PTL

\* Whatever a caller was told is preserved is in a turn file or in Karte's
\* record, for any number of turns and crashes and whichever way writes fail,
\* before the rename or after it.
THEOREM AckedDurability == Spec => []AckedDurable
  <1>1. Spec => []IInv
    BY InitIInv, IInvStep, PTL DEF Spec
  <1>2. IInv => AckedDurable
    <2> SUFFICES ASSUME IInv, NEW e \in acked
                 PROVE  (Has(file, e) /\ ~Item(file, e).verified) \/ Canonical(e)
      BY DEF AckedDurable
    <2>1. e \in Events
      BY DEF IInv, SpoolInv, TypeOK
    <2> QED BY <2>1 DEF IInv, Handoff
  <1> QED BY <1>1, <1>2, PTL

-----------------------------------------------------------------------------
(* The inductive invariant.  RecordedAsSaid says nothing of what a later    *)
(* action writes: of the claims a turn in memory makes, of the texts a draft *)
(* may take when recording is switched off next, and of a key whose file a   *)
(* failed Begin left behind, which may begin again.  Rec says it of one key: *)
(* t is its turn in memory, f its file, s and l its entries of `said' and    *)
(* `limit', c whether it is in `current', p the phase, and m and d whether   *)
(* memory and disk have it as completed.                                     *)

\* A turn claims no more than was said, s, and holds no more than l.
Honest(t, s, l) ==
  /\ t.complete => s = MaxText
  /\ t.text > 0 => t.skip + t.text =< s
  /\ t.skip + t.text =< l

Blank(t) == t.text = 0 /\ ~t.complete

Rec(t, f, s, l, c, p, m, d) ==
  /\ Honest(t, s, l) /\ Honest(f, s, l)
  /\ Present(t) \/ Blank(t)
  /\ Present(f) \/ Blank(f)
  /\ p \in {"up", "closing"} /\ t.open =>
       /\ t.skip + t.text =< s /\ f.skip + f.text =< s
       /\ c => l = MaxText
  /\ p # "down" => /\ Present(t) \/ m \/ (Blank(f) /\ l = MaxText)
                   /\ Present(t) \/ m => Present(f) \/ d
                   /\ d => m
  /\ Present(f) \/ d \/ l = MaxText

RecInv ==
  \A k \in Keys : Rec(turns[k], file[k], said[k], limit[k], k \in current, phase,
                      k \in completed, k \in completedFile)

TextInv == SpoolInv /\ RecInv

\* u has the draft and the text of t, and has items if t has.
Like(u, t) ==
  /\ u.open = t.open /\ u.skip = t.skip /\ u.text = t.text
  /\ u.complete = t.complete
  /\ Present(u) <=> Present(t)

-----------------------------------------------------------------------------
(* Turns *)

\* The empty turn is blank and is not there.
LEMMA NoTurnBlank ==
  /\ Blank(NoTurn) /\ ~Present(NoTurn) /\ ~NoTurn.open
  /\ NoTurn.skip = 0 /\ NoTurn.text = 0 /\ ~NoTurn.complete
  BY DEF Blank, Present, NoTurn, NoItem, Kinds

\* Every item of a turn has a number.
LEMMA ItemNumbers ==
  ASSUME NEW t \in Turns, NEW kd \in Kinds
  PROVE  t.items[kd] \in Items /\ t.items[kd].seq \in Nat
  BY DEF Turns, Items

\* Replacing an item by one with its number leaves the turn like it was.
LEMMA SetItemLike ==
  ASSUME NEW t \in Turns, NEW kd \in Kinds, NEW i \in Items,
         i.seq = t.items[kd].seq
  PROVE  Like(SetItem(t, kd, i), t)
  <1>1. SetItem(t, kd, i).complete = t.complete
    BY DEF SetItem, Turns
  <1>2. \A x \in Kinds : SetItem(t, kd, i).items[x].seq = t.items[x].seq
    BY SetItemType
  <1>3. SetItem(t, kd, i).open = t.open
    BY SetItemType
  <1>4. Present(SetItem(t, kd, i)) <=> Present(t)
    BY <1>2, <1>3 DEF Present
  <1> QED BY <1>1, <1>4, SetItemType DEF Like

\* So does a retry.
LEMMA ResetItemsLike ==
  ASSUME NEW t \in Turns
  PROVE  Like(ResetItems(t), t)
  <1>1. ResetItems(t).complete = t.complete /\ ResetItems(t).text = t.text
    BY DEF ResetItems, Turns
  <1>2. Present(ResetItems(t)) <=> Present(t)
    BY ResetItemsType DEF Present
  <1> QED BY <1>1, <1>2, ResetItemsType DEF Like

\* A turn is like itself.
LEMMA LikeSelf == \A t : Like(t, t)
  BY DEF Like

\* Closing a draft keeps its text and leaves something to deliver.
LEMMA ClosedText ==
  ASSUME NEW t \in Turns, NEW n \in Nat \ {0}, NEW c \in BOOLEAN
  PROVE  /\ Closed(t, n, c) \in Turns /\ Present(Closed(t, n, c))
         /\ ~Closed(t, n, c).open
         /\ Closed(t, n, c).skip = t.skip /\ Closed(t, n, c).text = t.text
         /\ Closed(t, n, c).complete = c
  <1> DEFINE s == SetItem(t, "assistant_result", NewItem(n))
  <1>1. "assistant_result" \in Kinds
    BY DEF Kinds
  <1>2. s \in Turns /\ s.skip = t.skip /\ s.text = t.text
    BY <1>1, SetItemType, NewItemType
  <1>3. Closed(t, n, c) = [s EXCEPT !.open = FALSE, !.complete = c]
    BY DEF Closed
  <1> HIDE DEF s
  <1>4. /\ Closed(t, n, c).skip = t.skip /\ Closed(t, n, c).text = t.text
        /\ Closed(t, n, c).complete = c
    BY <1>2, <1>3 DEF Turns
  <1>5. Present(Closed(t, n, c))
    BY <1>1, ClosedType, NewItemType DEF Present
  <1> QED BY <1>4, <1>5, ClosedType

\* What a confirmed turn holds is what it held.
LEMMA ConfirmedLike ==
  ASSUME SpoolInv, NEW e \in Events, Has(turns, e)
  PROVE  /\ Like(Confirmed(e), turns[e[1]]) /\ Confirmed(e) \in Turns
         /\ Present(turns[e[1]]) /\ e[1] \in Keys
  <1> DEFINE j == [Item(turns, e) EXCEPT !.cand = NoCandidate, !.verified = TRUE,
                                         !.blocked = FALSE]
  <1>1. e[1] \in Keys /\ e[2] \in Kinds /\ turns[e[1]] \in Turns
    BY EventPair DEF SpoolInv, TypeOK
  <1>2. Item(turns, e) \in Items
    BY <1>1, ItemNumbers DEF Item
  <1>3. j \in Items /\ j.seq = turns[e[1]].items[e[2]].seq
    <2>1. j \in Items /\ j.seq = Item(turns, e).seq
      BY <1>2 DEF Items
    <2> QED BY <2>1 DEF Item
  <1>4. Confirmed(e) = SetItem(turns[e[1]], e[2], j)
    BY DEF Confirmed
  <1> HIDE DEF j
  <1>5. Present(turns[e[1]])
    BY <1>1 DEF Has, Item, Present
  <1> QED BY <1>1, <1>3, <1>4, <1>5, SetItemLike, SetItemType

\* The types of what Rec speaks of.
LEMMA RecTypes ==
  ASSUME SpoolInv, NEW k \in Keys
  PROVE  /\ turns[k] \in Turns /\ file[k] \in Turns
         /\ said[k] \in 0..MaxText /\ limit[k] \in 0..MaxText
         /\ turns[k].skip \in Nat /\ turns[k].text \in Nat
         /\ file[k].skip \in Nat /\ file[k].text \in Nat
         /\ turns[k].open \in BOOLEAN /\ turns[k].complete \in BOOLEAN
  BY BoundsAssumption DEF SpoolInv, TypeOK, Turns, Texts

-----------------------------------------------------------------------------
(* How the predicate of a key changes *)

\* Memory takes a turn like the one it had, the disk keeps its file or takes a
\* turn like the one memory had, and fewer drafts are in use.
LEMMA RecLike ==
  ASSUME NEW t, NEW f, NEW s, NEW l, NEW c \in BOOLEAN, NEW p, NEW m \in BOOLEAN,
         NEW d \in BOOLEAN, NEW u, NEW g, NEW b \in BOOLEAN, NEW q,
         Rec(t, f, s, l, c, p, m, d), Like(u, t),
         g = f \/ (Present(t) /\ Like(g, t)),
         b => c, q = p \/ {p, q} \subseteq {"up", "closing"}
  PROVE  Rec(u, g, s, l, b, q, m, d)
  <1>1. CASE g = f
    BY <1>1 DEF Rec, Like, Honest, Blank
  <1>2. CASE g # f
    BY <1>2 DEF Rec, Like, Honest, Blank
  <1> QED BY <1>1, <1>2

\* Recording goes off while the process runs: an open draft is limited to what
\* was said by then.
LEMMA RecOff ==
  ASSUME NEW t, NEW f, NEW s, NEW l, NEW c \in BOOLEAN, NEW p,
         NEW m \in BOOLEAN, NEW d \in BOOLEAN,
         Rec(t, f, s, l, c, p, m, d), p \in {"up", "closing"}, t.open,
         NEW b \in BOOLEAN, b => FALSE
  PROVE  Rec(t, f, s, s, b, p, m, d)
  <1>1. Present(t) /\ p # "down"
    BY DEF Present
  <1>2. Honest(t, s, s) /\ Honest(f, s, s)
    BY DEF Rec, Honest
  <1> QED BY <1>1, <1>2 DEF Rec

\* The process is gone: memory is empty, and the disk has what it had, or a
\* turn as honest as the one memory had.
LEMMA RecGone ==
  ASSUME NEW t, NEW f, NEW s \in Nat, NEW l \in Nat, NEW c \in BOOLEAN, NEW p,
         NEW m \in BOOLEAN, NEW d \in BOOLEAN, NEW g, NEW n \in BOOLEAN,
         Rec(t, f, s, l, c, p, m, d),
         g = f \/ (Present(g) /\ Honest(g, s, l)),
         d => n, NEW b \in BOOLEAN, NEW q \in BOOLEAN
  PROVE  Rec(NoTurn, g, s, l, b, "down", q, n)
  <1>1. Honest(NoTurn, s, l)
    BY NoTurnBlank DEF Honest
  <1>2. CASE g = f
    BY <1>1, <1>2, NoTurnBlank DEF Rec
  <1>3. CASE Present(g) /\ Honest(g, s, l)
    BY <1>1, <1>3, NoTurnBlank DEF Rec
  <1> QED BY <1>2, <1>3

\* A turn like an honest one is honest.
LEMMA LikeHonest ==
  ASSUME NEW t, NEW u, NEW s, NEW l, Honest(t, s, l), Like(u, t)
  PROVE  Honest(u, s, l)
  BY DEF Honest, Like

\* The disk learns of completed turns that memory knows.
LEMMA RecMore ==
  ASSUME NEW t, NEW f, NEW s, NEW l, NEW c \in BOOLEAN, NEW p, NEW m \in BOOLEAN,
         NEW d \in BOOLEAN, NEW n \in BOOLEAN,
         Rec(t, f, s, l, c, p, m, d), d => n, n => m
  PROVE  Rec(t, f, s, l, c, p, m, n)
  BY DEF Rec

\* A turn is confirmed: memory and disk keep it, or drop it as completed.
LEMMA RecConfirm ==
  ASSUME NEW t, NEW f, NEW s \in Nat, NEW l \in Nat, NEW c \in BOOLEAN, NEW p,
         NEW m \in BOOLEAN, NEW d \in BOOLEAN, NEW u, NEW g, NEW b \in BOOLEAN,
         NEW n \in BOOLEAN,
         Rec(t, f, s, l, c, p, m, d), Present(t),
         Like(u, t) \/ (u = NoTurn /\ b /\ n),
         g = f \/ Like(g, t) \/ (g = NoTurn /\ n),
         m => b, d => n, p # "down" => (n => b)
  PROVE  Rec(u, g, s, l, c, p, b, n)
  <1>1. Honest(NoTurn, s, l)
    BY NoTurnBlank DEF Honest
  <1>2. Honest(u, s, l) /\ (Present(u) \/ Blank(u))
    BY <1>1, NoTurnBlank DEF Rec, Like, Honest
  <1>3. Honest(g, s, l) /\ (Present(g) \/ Blank(g)) /\ (Present(g) \/ n \/ g = f)
    BY <1>1, NoTurnBlank DEF Rec, Like, Honest
  <1>4. ASSUME p \in {"up", "closing"}, u.open
        PROVE  u.skip + u.text =< s /\ g.skip + g.text =< s /\ (c => l = MaxText)
    <2>1. Like(u, t)
      BY <1>4, NoTurnBlank
    <2>2. t.skip + t.text =< s /\ f.skip + f.text =< s /\ (c => l = MaxText)
      BY <1>4, <2>1 DEF Rec, Like
    <2>3. g.skip + g.text =< s
      BY <2>2, NoTurnBlank DEF Like
    <2> QED BY <2>1, <2>2, <2>3 DEF Like
  <1>5. ASSUME p # "down"
        PROVE  /\ Present(u) \/ b \/ (Blank(g) /\ l = MaxText)
               /\ Present(u) \/ b => Present(g) \/ n
               /\ n => b
    BY <1>3, <1>5 DEF Rec, Like
  <1>6. Present(g) \/ n \/ l = MaxText
    BY <1>3 DEF Rec
  <1> QED BY <1>2, <1>3, <1>4, <1>5, <1>6 DEF Rec

-----------------------------------------------------------------------------
(* Steps that leave the text of every turn alone *)

\* How a step may move the limits: not at all, or by switching recording off.
LimitsKept ==
  \/ UNCHANGED limit /\ current' \subseteq current
  \/ /\ phase \in {"up", "closing"}
     /\ current' = {}
     /\ limit' = [k \in Keys |-> IF turns[k].open /\ said[k] < limit[k]
                                 THEN said[k] ELSE limit[k]]

LEMMA PauseLimits ==
  ASSUME phase \in {"up", "closing"}, TurnOff \/ (\E b : Pause(b)) \/ NoPause
  PROVE  LimitsKept
  BY DEF LimitsKept, Pause, TurnOff, NoPause, settings

\* Moving the limits alone keeps the invariant of a key.
LEMMA LimitText ==
  ASSUME SpoolInv, RecInv, LimitsKept, NEW k \in Keys
  PROVE  /\ Rec(turns[k], file[k], said[k], limit'[k], k \in current', phase,
                k \in completed, k \in completedFile)
         /\ \/ limit'[k] = limit[k]
            \/ limit'[k] = said[k] /\ phase \in {"up", "closing"} /\ turns[k].open
  <1> DEFINE m == k \in completed
             d == k \in completedFile
             c == k \in current
             b == k \in current'
  <1>1. m \in BOOLEAN /\ d \in BOOLEAN /\ c \in BOOLEAN /\ b \in BOOLEAN
    OBVIOUS
  <1>2. Rec(turns[k], file[k], said[k], limit[k], c, phase, m, d)
    BY DEF RecInv
  <1>3. CASE limit'[k] = limit[k] /\ (b => c)
    <2> HIDE DEF m, d, b, c
    <2>1. Rec(turns[k], file[k], said[k], limit[k], b, phase, m, d)
      BY <1>1, <1>2, <1>3, LikeSelf, RecLike
    <2>2. Rec(turns[k], file[k], said[k], limit'[k], b, phase, m, d)
      BY <1>3, <2>1
    <2> QED BY <1>3, <2>2 DEF m, d, b, c
  <1>4. CASE /\ phase \in {"up", "closing"} /\ turns[k].open
             /\ limit'[k] = said[k] /\ (b => FALSE)
    <2> HIDE DEF m, d, b, c
    <2>1. Rec(turns[k], file[k], said[k], said[k], b, phase, m, d)
      BY <1>1, <1>2, <1>4, RecOff
    <2>2. Rec(turns[k], file[k], said[k], limit'[k], b, phase, m, d)
      BY <1>4, <2>1
    <2> QED BY <1>4, <2>2 DEF m, d, b, c
  <1>5. CASE UNCHANGED limit /\ current' \subseteq current
    BY <1>3, <1>5
  <1>6. CASE /\ phase \in {"up", "closing"}
             /\ current' = {}
             /\ limit' = [j \in Keys |-> IF turns[j].open /\ said[j] < limit[j]
                                         THEN said[j] ELSE limit[j]]
    <2>1. b = FALSE /\ limit'[k] = IF turns[k].open /\ said[k] < limit[k]
                                   THEN said[k] ELSE limit[k]
      BY <1>6
    <2>2. CASE turns[k].open /\ said[k] < limit[k]
      BY <1>4, <1>6, <2>1, <2>2
    <2>3. CASE ~(turns[k].open /\ said[k] < limit[k])
      BY <1>3, <2>1, <2>3
    <2> QED BY <2>2, <2>3
  <1> QED BY <1>5, <1>6 DEF LimitsKept

\* The invariant of a key survives a step that leaves its text alone.
LEMMA QuietKey ==
  ASSUME SpoolInv, RecInv, LimitsKept, NEW k \in Keys,
         phase' = phase \/ {phase, phase'} \subseteq {"up", "closing"},
         said'[k] = said[k], k \in completed' <=> k \in completed,
         k \in completedFile' <=> k \in completedFile,
         Like(turns'[k], turns[k]),
         file'[k] = file[k] \/ (Present(turns[k]) /\ Like(file'[k], turns[k]))
  PROVE  Rec(turns'[k], file'[k], said'[k], limit'[k], k \in current',
             phase', k \in completed', k \in completedFile')
  <1> DEFINE m == k \in completed
             d == k \in completedFile
             b == k \in current'
  <1>1. Rec(turns[k], file[k], said[k], limit'[k], b, phase, m, d)
    BY LimitText
  <1>2. m \in BOOLEAN /\ d \in BOOLEAN /\ b \in BOOLEAN
    OBVIOUS
  <1>3. m = (k \in completed') /\ d = (k \in completedFile')
    OBVIOUS
  <1> HIDE DEF m, d, b
  <1>4. Rec(turns'[k], file'[k], said[k], limit'[k], b, phase', m, d)
    BY <1>1, <1>2, RecLike
  <1> QED BY <1>3, <1>4 DEF b

\* So does that of all keys.
LEMMA QuietText ==
  ASSUME SpoolInv, RecInv, LimitsKept,
         phase' = phase \/ {phase, phase'} \subseteq {"up", "closing"},
         UNCHANGED <<said, completed, completedFile>>,
         \A k \in Keys : Like(turns'[k], turns[k]),
         \A k \in Keys : \/ file'[k] = file[k]
                         \/ Present(turns[k]) /\ Like(file'[k], turns[k])
  PROVE  RecInv'
  BY QuietKey DEF RecInv

\* An open draft takes a turn u that claims what was said and holds what may be
\* held; the other keys are left alone.
LEMMA OwnText ==
  ASSUME SpoolInv, RecInv, LimitsKept, NEW k \in Keys, phase' = phase,
         phase \in {"up", "closing"}, turns[k].open,
         UNCHANGED <<said, completed, completedFile>>,
         NEW u \in Turns, Present(u), Honest(u, said[k], limit[k]),
         u.skip + u.text =< said[k],
         \A j \in Keys \ {k} : turns'[j] = turns[j] /\ file'[j] = file[j],
         turns'[k] = turns[k] \/ turns'[k] = u,
         file'[k] = file[k] \/ file'[k] = u
  PROVE  RecInv'
  <1>1. ASSUME NEW j \in Keys \ {k}
        PROVE  Rec(turns'[j], file'[j], said'[j], limit'[j], j \in current',
                   phase', j \in completed', j \in completedFile')
    BY <1>1, QuietKey, LikeSelf
  <1>2. Rec(turns'[k], file'[k], said'[k], limit'[k], k \in current',
            phase', k \in completed', k \in completedFile')
    <2> DEFINE m == k \in completed
               d == k \in completedFile
               b == k \in current'
    <2>1. Rec(turns[k], file[k], said[k], limit'[k], b, phase, m, d)
      BY LimitText
    <2>2. m \in BOOLEAN /\ d \in BOOLEAN /\ b \in BOOLEAN
      OBVIOUS
    <2>3. Honest(u, said[k], limit'[k])
      BY LimitText DEF Honest
    <2>4. Present(turns[k])
      BY DEF Present
    <2>5. m = (k \in completed') /\ d = (k \in completedFile') /\ said'[k] = said[k]
      OBVIOUS
    <2> HIDE DEF m, d, b
    <2>6. Rec(turns'[k], file'[k], said[k], limit'[k], b, phase, m, d)
      BY <2>1, <2>2, <2>3, <2>4 DEF Rec
    <2> QED BY <2>5, <2>6 DEF b
  <1> QED BY <1>1, <1>2 DEF RecInv

-----------------------------------------------------------------------------
(* The interaction *)

\* The empty spool records nothing.
LEMMA InitText == Init => RecInv
  <1> SUFFICES ASSUME Init, NEW k \in Keys
               PROVE  Rec(turns[k], file[k], said[k], limit[k], k \in current,
                          phase, k \in completed, k \in completedFile)
    BY DEF RecInv
  <1>1. /\ turns[k] = NoTurn /\ file[k] = NoTurn /\ said[k] = 0
        /\ limit[k] = MaxText /\ k \notin current /\ phase = "up"
        /\ k \notin completed /\ k \notin completedFile
    BY DEF Init
  <1>2. Honest(NoTurn, 0, MaxText)
    BY NoTurnBlank, BoundsAssumption DEF Honest
  <1> QED BY <1>1, <1>2, NoTurnBlank DEF Rec

\* A turn starts with nothing but the text it continues, and its limit is that
\* of a turn nobody switched off; a Begin that fails may leave the file behind.
LEMMA StartTurnText ==
  ASSUME TextInv, phase = "up", NEW k \in Keys, ~Known(k), NEW s \in Texts,
         NEW n \in Nat, NEW w, StartTurn(k, s, n, w)
  PROVE  RecInv'
  <1> DEFINE draft == [NoTurn EXCEPT !.open = TRUE, !.skip = s]
             t == IF n = 0 THEN draft ELSE SetItem(draft, "user_final", NewItem(n))
  <1>1. /\ draft \in Turns /\ draft.open = TRUE /\ draft.skip = s
        /\ draft.text = 0 /\ draft.complete = FALSE
    BY NoTurnType DEF NoTurn, Turns, NoItem, Kinds
  <1>2. t.open = TRUE /\ t.skip = s /\ t.text = 0 /\ t.complete = FALSE
    <2> DEFINE u == SetItem(draft, "user_final", NewItem(n))
    <2> HIDE DEF draft
    <2>1. u.open = draft.open /\ u.skip = draft.skip /\ u.text = draft.text
            /\ u.complete = draft.complete
      BY <1>1 DEF SetItem, Turns
    <2> HIDE DEF u
    <2>2. t = draft \/ t = u
      BY DEF u
    <2> QED BY <1>1, <2>1, <2>2
  <1> HIDE DEF t
  <1>3. Present(t)
    BY <1>2 DEF Present
  <1>4. /\ SaveTurn(k, t, w)
        /\ said' = [said EXCEPT ![k] = s]
        /\ \/ /\ w = "ok"
              /\ turns' = [turns EXCEPT ![k] = t]
              /\ current' = current \cup {k}
              /\ limit' = [limit EXCEPT ![k] = MaxText]
           \/ w # "ok" /\ Pause(TRUE) /\ turns' = turns
        /\ UNCHANGED <<phase, completed, completedFile>>
    BY DEF StartTurn, t, life
  <1>5. /\ turns \in [Keys -> Turns] /\ file \in [Keys -> Turns]
        /\ said \in [Keys -> Texts] /\ limit \in [Keys -> Texts]
    BY DEF TextInv, SpoolInv, TypeOK
  <1>6. /\ \A j \in Keys \ {k} : file'[j] = file[j] /\ said'[j] = said[j]
        /\ file'[k] = t \/ (w # "ok" /\ file'[k] = file[k])
        /\ said'[k] = s
    BY <1>4, <1>5 DEF SaveTurn, Written
  <1>7. s \in Nat /\ s =< MaxText /\ MaxText \in Nat
    BY BoundsAssumption DEF Texts
  <1> DEFINE m == k \in completed
             d == k \in completedFile
             c == k \in current
  <1>8. /\ Rec(turns[k], file[k], said[k], limit[k], c, phase, m, d)
        /\ ~Present(turns[k]) /\ ~m /\ ~turns[k].open
    BY DEF Known, Present, TextInv, RecInv
  <1>9. CASE w = "ok"
    <2>1. /\ turns' = [turns EXCEPT ![k] = t] /\ current' = current \cup {k}
          /\ limit' = [limit EXCEPT ![k] = MaxText] /\ file'[k] = t
      BY <1>4, <1>6, <1>9
    <2>2. ASSUME NEW j \in Keys \ {k}
          PROVE  Rec(turns'[j], file'[j], said'[j], limit'[j], j \in current',
                     phase', j \in completed', j \in completedFile')
      <3>1. /\ turns'[j] = turns[j] /\ limit'[j] = limit[j]
            /\ (j \in current') = (j \in current)
        BY <1>5, <2>1
      <3>2. Rec(turns[j], file[j], said[j], limit[j], j \in current,
                phase, j \in completed, j \in completedFile)
        BY DEF TextInv, RecInv
      <3> QED BY <1>4, <1>6, <3>1, <3>2
    <2>3. Honest(t, s, MaxText)
      BY <1>2, <1>7 DEF Honest
    <2>4. d => m
      BY <1>8 DEF Rec
    <2> DEFINE b == k \in current'
    <2>5. Rec(t, t, s, MaxText, b, phase, m, d)
      <3>1. m \in BOOLEAN /\ d \in BOOLEAN /\ b \in BOOLEAN
        OBVIOUS
      <3> HIDE DEF m, d, c, b
      <3> QED BY <1>2, <1>3, <1>7, <2>3, <2>4, <3>1 DEF Rec
    <2>6. /\ turns'[k] = t /\ limit'[k] = MaxText
          /\ m = (k \in completed') /\ d = (k \in completedFile')
      BY <1>4, <1>5, <2>1
    <2>7. Rec(turns'[k], file'[k], said'[k], limit'[k], k \in current',
              phase', k \in completed', k \in completedFile')
      BY <1>4, <1>6, <2>1, <2>5, <2>6
    <2> QED BY <2>2, <2>7 DEF RecInv
  <1>10. CASE w # "ok"
    <2>1. LimitsKept /\ turns' = turns
      BY <1>4, <1>10, PauseLimits
    <2>2. ASSUME NEW j \in Keys \ {k}
          PROVE  Rec(turns'[j], file'[j], said'[j], limit'[j], j \in current',
                     phase', j \in completed', j \in completedFile')
      BY <1>4, <1>6, <2>1, <2>2, LikeSelf, QuietKey DEF TextInv
    <2> DEFINE b == k \in current'
    <2>3. Rec(turns[k], file[k], said[k], limit[k], b, phase, m, d)
            /\ limit'[k] = limit[k]
      BY <1>8, <2>1, LimitText DEF TextInv
    <2>4. m = (k \in completed') /\ d = (k \in completedFile')
      BY <1>4
    <2>5. /\ turns[k].skip \in Nat /\ turns[k].text \in Nat
          /\ file[k].skip \in Nat /\ file[k].text \in Nat
      BY RecTypes DEF TextInv
    <2>6. Blank(turns[k]) /\ Blank(file[k]) /\ limit[k] = MaxText /\ phase = "up"
      <3> HIDE DEF m, d, b, c
      <3> QED BY <1>8 DEF Rec
    <2>7. /\ Honest(turns[k], s, limit[k]) /\ Honest(file[k], s, limit[k])
          /\ Honest(t, s, limit[k])
      <3>1. Honest(turns[k], said[k], limit[k]) /\ Honest(file[k], said[k], limit[k])
        BY <1>8 DEF Rec
      <3> QED BY <1>2, <1>7, <2>5, <2>6, <3>1 DEF Honest, Blank
    <2>8. Rec(turns[k], file'[k], s, limit[k], b, phase, m, d)
      <3>1. Honest(file'[k], s, limit[k]) /\ Blank(file'[k])
        BY <1>2, <1>6, <2>6, <2>7 DEF Blank
      <3>2. m \in BOOLEAN /\ d \in BOOLEAN /\ b \in BOOLEAN
        OBVIOUS
      <3> HIDE DEF m, d, b, c
      <3> QED BY <1>8, <2>3, <2>6, <2>7, <3>1, <3>2 DEF Rec
    <2>9. Rec(turns'[k], file'[k], said'[k], limit'[k], k \in current',
              phase', k \in completed', k \in completedFile')
      BY <1>4, <1>6, <2>1, <2>3, <2>4, <2>8
    <2> QED BY <2>2, <2>9 DEF RecInv
  <1> QED BY <1>9, <1>10

\* Each of them starts a turn that is not known yet.
LEMMA BeginText ==
  ASSUME TextInv, NEW k \in Keys,
         Begin(k) \/ BeginCandidate(k) \/ \E orig \in Keys : BeginContinuation(k, orig)
  PROVE  RecInv'
  <1>1. seq[ConvOf[k]] + 1 \in Nat /\ 0 \in Texts /\ \A j \in Keys : said[j] \in Texts
    BY ConvOfAssumption, BoundsAssumption DEF TextInv, SpoolInv, TypeOK, Texts
  <1>2. CASE Begin(k)
    BY <1>1, <1>2, StartTurnText DEF Begin
  <1>3. CASE BeginCandidate(k)
    BY <1>1, <1>3, StartTurnText DEF BeginCandidate
  <1>4. CASE \E orig \in Keys : BeginContinuation(k, orig)
    BY <1>1, <1>4, StartTurnText DEF BeginContinuation
  <1> QED BY <1>2, <1>3, <1>4

\* One more unit is said of an answer that has not ended.
LEMMA CommitText ==
  ASSUME TextInv, NEW k \in Keys, Commit(k)
  PROVE  RecInv'
  <1>1. /\ said \in [Keys -> Texts] /\ said[k] < MaxText
        /\ said' = [said EXCEPT ![k] = said[k] + 1]
        /\ UNCHANGED <<phase, turns, file, limit, current, completed, completedFile>>
    BY DEF Commit, TextInv, SpoolInv, TypeOK, life, settings, store, disk
  <1>2. ASSUME NEW j \in Keys \ {k}
        PROVE  Rec(turns[j], file[j], said'[j], limit[j], j \in current,
                   phase, j \in completed, j \in completedFile)
    BY <1>1 DEF TextInv, RecInv
  <1> DEFINE m == k \in completed
             d == k \in completedFile
             c == k \in current
             s == said[k]
  <1>3. m \in BOOLEAN /\ d \in BOOLEAN /\ c \in BOOLEAN
    OBVIOUS
  <1>4. Rec(turns[k], file[k], s, limit[k], c, phase, m, d)
    BY DEF TextInv, RecInv
  <1>5. /\ s \in Nat /\ s < MaxText /\ MaxText \in Nat
        /\ turns[k].skip \in Nat /\ turns[k].text \in Nat
        /\ file[k].skip \in Nat /\ file[k].text \in Nat
    BY <1>1, RecTypes, BoundsAssumption DEF TextInv
  <1>6. Rec(turns[k], file[k], s + 1, limit[k], c, phase, m, d)
    <2> HIDE DEF m, d, c, s
    <2>1. Honest(turns[k], s + 1, limit[k]) /\ Honest(file[k], s + 1, limit[k])
      BY <1>4, <1>5 DEF Rec, Honest
    <2> QED BY <1>3, <1>4, <1>5, <2>1 DEF Rec
  <1>7. said'[k] = s + 1
    BY <1>1
  <1> QED BY <1>1, <1>2, <1>6, <1>7 DEF RecInv

\* A checkpoint takes over what was said of a draft in use, whose limit is still
\* that of a turn nobody switched off, or keeps what the draft had.
LEMMA CheckpointText ==
  ASSUME TextInv, NEW k \in Keys, Checkpoint(k)
  PROVE  RecInv'
  <1> DEFINE u == [turns[k] EXCEPT !.text = Captured(k), !.complete = Complete(k)]
  <1>1. /\ phase \in {"up", "closing"} /\ turns[k].open
        /\ \E w : /\ SaveTurn(k, u, w)
                  /\ \/ turns' = [turns EXCEPT ![k] = u] /\ NoPause
                     \/ turns' = turns /\ Pause(TRUE)
        /\ UNCHANGED <<phase, said, completed, completedFile>>
    BY DEF Checkpoint, life
  <1>2. /\ turns \in [Keys -> Turns] /\ file \in [Keys -> Turns]
        /\ turns[k] \in Turns
        /\ turns[k].skip \in Nat /\ turns[k].text \in Nat
        /\ said[k] \in Nat /\ limit[k] \in Nat /\ said[k] =< MaxText /\ MaxText \in Nat
    BY RecTypes, BoundsAssumption DEF TextInv, SpoolInv, TypeOK
  <1>3. /\ turns[k].skip =< said[k] /\ turns[k].skip + turns[k].text =< said[k]
        /\ turns[k].skip + turns[k].text =< limit[k]
        /\ k \in current => limit[k] = MaxText
    <2>1. Rec(turns[k], file[k], said[k], limit[k], k \in current, phase,
              k \in completed, k \in completedFile)
      BY DEF TextInv, RecInv
    <2>2. turns[k].skip =< said[k]
      BY <1>1 DEF TextInv, SpoolInv, Wellformed
    <2> QED BY <1>1, <2>1, <2>2 DEF Rec, Honest
  <1>4. /\ Captured(k) \in Nat /\ turns[k].skip + Captured(k) =< said[k]
        /\ turns[k].skip + Captured(k) =< limit[k]
    BY <1>2, <1>3 DEF Captured
  <1>5. Captured(k) \in Texts
    BY <1>2, <1>4 DEF Texts
  <1>6. /\ u \in Turns /\ u.open = turns[k].open /\ u.skip = turns[k].skip
        /\ u.text = Captured(k) /\ u.complete = Complete(k)
    BY <1>2, <1>5 DEF Turns, Complete
  <1> HIDE DEF u
  <1>7. Present(u)
    BY <1>1, <1>6 DEF Present
  <1>8. Honest(u, said[k], limit[k]) /\ u.skip + u.text =< said[k]
    BY <1>4, <1>6 DEF Honest, Complete
  <1>9. LimitsKept
    BY <1>1, PauseLimits
  <1>10. /\ \A j \in Keys \ {k} : turns'[j] = turns[j] /\ file'[j] = file[j]
         /\ turns'[k] = turns[k] \/ turns'[k] = u
         /\ file'[k] = file[k] \/ file'[k] = u
    BY <1>1, <1>2 DEF SaveTurn, Written
  <1> QED BY <1>1, <1>6, <1>7, <1>8, <1>9, <1>10, OwnText DEF TextInv

\* A result keeps the text and says "completed" only of an answer that ended.
LEMMA FinishText ==
  ASSUME TextInv, NEW k \in Keys, Finish(k)
  PROVE  RecInv'
  <1> DEFINE u == Closed(turns[k], seq[ConvOf[k]] + 1, Complete(k))
  <1>1. /\ phase \in {"up", "closing"} /\ turns[k].open
        /\ \E w : /\ SaveTurn(k, u, w)
                  /\ \/ turns' = [turns EXCEPT ![k] = u] /\ NoPause
                     \/ turns' = turns /\ Pause(TRUE)
        /\ UNCHANGED <<phase, said, completed, completedFile>>
    BY DEF Finish, life
  <1>2. /\ turns \in [Keys -> Turns] /\ file \in [Keys -> Turns]
        /\ turns[k] \in Turns /\ seq[ConvOf[k]] + 1 \in Nat \ {0}
        /\ turns[k].skip \in Nat /\ turns[k].text \in Nat
        /\ said[k] \in Nat /\ limit[k] \in Nat
    BY RecTypes, BoundsAssumption, ConvOfAssumption DEF TextInv, SpoolInv, TypeOK
  <1>3. /\ turns[k].skip + turns[k].text =< said[k]
        /\ turns[k].skip + turns[k].text =< limit[k]
    <2>1. Rec(turns[k], file[k], said[k], limit[k], k \in current, phase,
              k \in completed, k \in completedFile)
      BY DEF TextInv, RecInv
    <2> QED BY <1>1, <2>1 DEF Rec, Honest
  <1>4. /\ u \in Turns /\ Present(u) /\ u.skip = turns[k].skip
        /\ u.text = turns[k].text /\ u.complete = Complete(k)
    BY <1>2, ClosedText DEF Complete
  <1> HIDE DEF u
  <1>5. Honest(u, said[k], limit[k]) /\ u.skip + u.text =< said[k]
    BY <1>3, <1>4 DEF Honest, Complete
  <1>6. LimitsKept
    BY <1>1, PauseLimits
  <1>7. /\ \A j \in Keys \ {k} : turns'[j] = turns[j] /\ file'[j] = file[j]
        /\ turns'[k] = turns[k] \/ turns'[k] = u
        /\ file'[k] = file[k] \/ file'[k] = u
    BY <1>1, <1>2 DEF SaveTurn, Written
  <1> QED BY <1>1, <1>4, <1>5, <1>6, <1>7, OwnText DEF TextInv

-----------------------------------------------------------------------------
(* Settings, the dispatcher and Karte *)

\* Steps that touch no turn and no file.
LEMMA SettingsText ==
  ASSUME TextInv,
         \/ ConfigureOff \/ ConfigureOn \/ Close \/ AttemptFails \/ Send \/ Poll
         \/ \E k \in Keys : \/ BeginRefused(k) \/ CheckpointRefused(k)
                            \/ RecoverPending(k)
         \/ Karte
  PROVE  RecInv'
  <1>1. UNCHANGED <<turns, file, said, completed, completedFile>>
    BY DEF ConfigureOff, ConfigureOn, Close, AttemptFails, Send, Poll, BeginRefused,
           CheckpointRefused, RecoverPending, Karte, KarteApply, KarteReceipt,
           KarteReject, store, disk, karte, ghost
  <1>2. phase' = phase \/ {phase, phase'} \subseteq {"up", "closing"}
    BY DEF ConfigureOff, ConfigureOn, Close, AttemptFails, Send, Poll, BeginRefused,
           CheckpointRefused, RecoverPending, Karte, KarteApply, KarteReceipt,
           KarteReject, life
  <1>3. LimitsKept
    <2>1. CASE ConfigureOff \/ \E k \in Keys : BeginRefused(k) \/ CheckpointRefused(k)
      BY <2>1, PauseLimits DEF ConfigureOff, BeginRefused, CheckpointRefused
    <2>2. CASE \/ ConfigureOn \/ Close \/ AttemptFails \/ Send \/ Poll
               \/ (\E k \in Keys : RecoverPending(k)) \/ Karte
      BY <2>2 DEF LimitsKept, ConfigureOn, Close, AttemptFails, Send, Poll,
                  RecoverPending, Karte, KarteApply, KarteReceipt, KarteReject,
                  settings, ghost
    <2> QED BY <2>1, <2>2
  <1> QED BY <1>1, <1>2, <1>3, LikeSelf, QuietText DEF TextInv

\* Retry forgets failures only.
LEMMA RetryText ==
  ASSUME TextInv, Retry
  PROVE  RecInv'
  <1>1. turns \in [Keys -> Turns] /\ file \in [Keys -> Turns]
    BY DEF TextInv, SpoolInv, TypeOK
  <1>2. \A k \in Keys :
          \/ turns'[k] = turns[k] /\ file'[k] = file[k]
          \/ /\ turns'[k] = ResetItems(turns[k]) /\ Present(turns[k])
             /\ file'[k] = file[k] \/ file'[k] = turns'[k]
    BY <1>1 DEF Retry, Written
  <1>3. /\ UNCHANGED <<phase, said, completed, completedFile>> /\ LimitsKept
    BY DEF Retry, LimitsKept, life, ghost, settings
  <1>4. \A k \in Keys : Like(turns'[k], turns[k])
    BY <1>1, <1>2, ResetItemsLike, LikeSelf
  <1>5. \A k \in Keys : \/ file'[k] = file[k]
                        \/ Present(turns[k]) /\ Like(file'[k], turns[k])
    BY <1>2, <1>4
  <1> QED BY <1>3, <1>4, <1>5, QuietText DEF TextInv

\* The choice saves a turn as memory has it.
LEMMA DispatchText ==
  ASSUME TextInv, NEW e \in Events, Dispatch(e)
  PROVE  RecInv'
  <1>1. turns \in [Keys -> Turns] /\ file \in [Keys -> Turns]
          /\ e[1] \in Keys /\ e[2] \in Kinds
    BY EventPair DEF TextInv, SpoolInv, TypeOK
  <1>2. Present(turns[e[1]])
    BY <1>1 DEF Dispatch, Oldest, Unverified, Has, Item, Present
  <1>3. \A k \in Keys : file'[k] = file[k] \/ (k = e[1] /\ file'[k] = turns[k])
    BY <1>1 DEF Dispatch, SaveTurn, Written
  <1>4. UNCHANGED <<turns, phase, said, completed, completedFile>>
    BY DEF Dispatch, life, store
  <1>5. LimitsKept
    BY PauseLimits DEF Dispatch
  <1> QED BY <1>2, <1>3, <1>4, <1>5, LikeSelf, QuietText DEF TextInv

\* A rebuilt proposal is an item with the same number.
LEMMA PrepareText ==
  ASSUME TextInv, Prepare
  PROVE  RecInv'
  <1> DEFINE e == flight.event
             i == Item(turns, e)
  <1>1. e \in Events /\ Has(turns, e) /\ heads \in [Convs -> Heads]
          /\ turns \in [Keys -> Turns] /\ file \in [Keys -> Turns]
    BY DEF Prepare, TextInv, SpoolInv, TypeOK, Wellformed
  <1>2. e[1] \in Keys /\ e[2] \in Kinds /\ turns[e[1]] \in Turns /\ Conv(e) \in Convs
    BY <1>1, EventPair, ConvOfAssumption DEF Conv
  <1>3. i \in Items /\ i = turns[e[1]].items[e[2]] /\ heads[Conv(e)].rev \in Nat
    BY <1>1, <1>2, ItemNumbers DEF Item, Heads
  <1>4. Present(turns[e[1]])
    BY <1>1, <1>2 DEF Has, Item, Present
  <1>5. PICK t : /\ Like(t, turns[e[1]])
                 /\ file' = file \/ \E w : SaveTurn(e[1], t, w)
                 /\ turns' = turns \/ turns' = [turns EXCEPT ![e[1]] = t]
    <2>1. CASE UNCHANGED <<turns, file>>
      BY <2>1, LikeSelf
    <2>2. ASSUME NEW id \in Candidates
          PROVE  Like(SetItem(turns[e[1]], e[2],
                        [i EXCEPT !.cand = id, !.base = heads[Conv(e)].rev]),
                      turns[e[1]])
      <3> DEFINE j == [i EXCEPT !.cand = id, !.base = heads[Conv(e)].rev]
                 r == heads[Conv(e)].rev
      <3>1. j \in Items /\ j.seq = i.seq
        <4>1. r \in Nat /\ j = [i EXCEPT !.cand = id, !.base = r]
          BY <1>3
        <4> HIDE DEF r, j, i
        <4> QED BY <1>3, <4>1 DEF Items
      <3> HIDE DEF j
      <3>2. Like(SetItem(turns[e[1]], e[2], j), turns[e[1]])
        BY <1>2, <1>3, <3>1, SetItemLike
      <3> QED BY <3>2 DEF j
    <2>3. \/ UNCHANGED <<turns, file>>
          \/ \E id \in Candidates, w \in {"ok"} \cup Faults :
               LET t == SetItem(turns[e[1]], e[2],
                          [i EXCEPT !.cand = id, !.base = heads[Conv(e)].rev])
               IN  /\ SaveTurn(e[1], t, w)
                   /\ turns' = turns \/ turns' = [turns EXCEPT ![e[1]] = t]
      BY DEF Prepare
    <2> QED BY <2>1, <2>2, <2>3
  <1>6. \A k \in Keys : /\ turns'[k] = turns[k] \/ (k = e[1] /\ turns'[k] = t)
                        /\ file'[k] = file[k] \/ (k = e[1] /\ file'[k] = t)
    BY <1>1, <1>2, <1>5 DEF SaveTurn, Written
  <1>7. UNCHANGED <<phase, said, completed, completedFile>> /\ LimitsKept
    BY DEF Prepare, life, ghost, settings, LimitsKept
  <1>8. \A k \in Keys :
          /\ Like(turns'[k], turns[k])
          /\ file'[k] = file[k] \/ (Present(turns[k]) /\ Like(file'[k], turns[k]))
    BY <1>4, <1>5, <1>6, LikeSelf
  <1> QED BY <1>7, <1>8, QuietText DEF TextInv

\* A failed attempt marks its item, and may switch recording off.
LEMMA RecordFailureText ==
  ASSUME TextInv, RecordFailure
  PROVE  RecInv'
  <1> DEFINE e == flight.event
             i == Item(turns, e)
             j == [i EXCEPT !.blocked = (flight.code # "offline")]
             t == SetItem(turns[e[1]], e[2], j)
  <1>1. e \in Events /\ Has(turns, e) /\ phase \in {"up", "closing"}
          /\ turns \in [Keys -> Turns] /\ file \in [Keys -> Turns]
    BY DEF RecordFailure, TextInv, SpoolInv, TypeOK, Wellformed
  <1>2. e[1] \in Keys /\ e[2] \in Kinds /\ turns[e[1]] \in Turns
    BY <1>1, EventPair
  <1>3. i \in Items /\ i = turns[e[1]].items[e[2]]
    BY <1>1, <1>2, ItemNumbers DEF Item
  <1>4. Present(turns[e[1]])
    BY <1>1, <1>2 DEF Has, Item, Present
  <1>5. j \in Items /\ j.seq = i.seq
    <2> HIDE DEF i
    <2> QED BY <1>3 DEF Items
  <1>6. /\ turns' = [turns EXCEPT ![e[1]] = t]
        /\ \E w : SaveTurn(e[1], t, w)
        /\ TurnOff \/ UNCHANGED <<current, limit>>
        /\ UNCHANGED <<phase, said, completed, completedFile>>
    BY DEF RecordFailure, life
  <1> HIDE DEF j
  <1>7. Like(t, turns[e[1]])
    BY <1>2, <1>3, <1>5, SetItemLike
  <1> HIDE DEF t
  <1>8. \A k \in Keys : /\ turns'[k] = turns[k] \/ (k = e[1] /\ turns'[k] = t)
                        /\ file'[k] = file[k] \/ (k = e[1] /\ file'[k] = t)
    BY <1>1, <1>2, <1>6 DEF SaveTurn, Written
  <1>9. LimitsKept
    <2>1. CASE TurnOff
      BY <1>1, <2>1, PauseLimits
    <2>2. CASE UNCHANGED <<current, limit>>
      BY <2>2 DEF LimitsKept
    <2> QED BY <1>6, <2>1, <2>2
  <1>10. \A k \in Keys :
           /\ Like(turns'[k], turns[k])
           /\ file'[k] = file[k] \/ (Present(turns[k]) /\ Like(file'[k], turns[k]))
    BY <1>4, <1>7, <1>8, LikeSelf
  <1> QED BY <1>6, <1>9, <1>10, QuietText DEF TextInv

\* What a confirmation has written after its first n writes.
LEMMA ConfirmDiskText ==
  ASSUME SpoolInv, NEW e \in Events, NEW n \in 0..4, ConfirmDisk(e, n)
  PROVE  /\ \A j \in Keys \ {e[1]} : file'[j] = file[j]
         /\ \/ n = 0 /\ file'[e[1]] = file[e[1]]
            \/ n \in 1..3 /\ file'[e[1]] = Confirmed(e)
            \/ n = 4 /\ file'[e[1]] = NoTurn
         /\ n >= 3 => completedFile' = completed \cup {e[1]}
         /\ n < 3 => completedFile' = completedFile
  <1> DEFINE x == CASE n = 4 -> NoTurn [] n \in 1..3 -> Confirmed(e)
                    [] n = 0 -> file[e[1]]
  <1>1. file \in [Keys -> Turns] /\ e[1] \in Keys
    BY EventPair DEF SpoolInv, TypeOK
  <1>2. file' = [file EXCEPT ![e[1]] = x]
    BY DEF ConfirmDisk
  <1>3. \/ n = 0 /\ x = file[e[1]]
        \/ n \in 1..3 /\ x = Confirmed(e)
        \/ n = 4 /\ x = NoTurn
    <2>1. CASE n = 0
      BY <2>1
    <2>2. CASE n \in 1..3
      <3>1. n # 4 /\ n # 0
        BY <2>2
      <3> QED BY <2>2, <3>1
    <2>3. CASE n = 4
      BY <2>3
    <2> QED BY <2>1, <2>2, <2>3
  <1> HIDE DEF x
  <1>4. file'[e[1]] = x /\ \A j \in Keys \ {e[1]} : file'[j] = file[j]
    BY <1>1, <1>2
  <1>5. /\ n >= 3 => completedFile' = completed \cup {e[1]}
        /\ n < 3 => completedFile' = completedFile
    BY DEF ConfirmDisk
  <1> QED BY <1>3, <1>4, <1>5

\* A confirmation that wrote n times keeps the invariant when memory knows a
\* turn as completed before the disk does.
LEMMA ConfirmKeys ==
  ASSUME TextInv, NEW e \in Events, Has(turns, e), phase \in {"up", "closing"},
         NEW n \in 0..4, ConfirmDisk(e, n),
         UNCHANGED <<phase, said, limit, current>>,
         \A j \in Keys \ {e[1]} : turns'[j] = turns[j],
         \/ turns'[e[1]] = turns[e[1]] \/ turns'[e[1]] = Confirmed(e)
         \/ turns'[e[1]] = NoTurn /\ n = 4,
         completed' = completed \/ completed' = completed \cup {e[1]},
         n >= 3 => completed' = completed \cup {e[1]}
  PROVE  RecInv'
  <1> DEFINE k == e[1]
  <1>1. k \in Keys /\ Like(Confirmed(e), turns[k]) /\ Present(turns[k])
    BY ConfirmedLike DEF TextInv
  <1>2. /\ \A j \in Keys \ {k} : file'[j] = file[j]
        /\ \/ n = 0 /\ file'[k] = file[k]
           \/ n \in 1..3 /\ file'[k] = Confirmed(e)
           \/ n = 4 /\ file'[k] = NoTurn
        /\ n >= 3 => completedFile' = completed \cup {k}
        /\ n < 3 => completedFile' = completedFile
    BY ConfirmDiskText DEF TextInv
  <1>3. ASSUME NEW j \in Keys
        PROVE  /\ Rec(turns[j], file[j], said[j], limit[j], j \in current, phase,
                      j \in completed, j \in completedFile)
               /\ j \in completedFile => j \in completed
    <2>1. Rec(turns[j], file[j], said[j], limit[j], j \in current, phase,
              j \in completed, j \in completedFile)
      BY DEF TextInv, RecInv
    <2> QED BY <2>1 DEF Rec
  <1>4. ASSUME NEW j \in Keys \ {k}
        PROVE  Rec(turns'[j], file'[j], said'[j], limit'[j], j \in current',
                   phase', j \in completed', j \in completedFile')
    <2> DEFINE m == j \in completed
               d == j \in completedFile
               c == j \in current
               h == j \in completedFile'
    <2>1. /\ m \in BOOLEAN /\ d \in BOOLEAN /\ c \in BOOLEAN /\ h \in BOOLEAN
          /\ Rec(turns[j], file[j], said[j], limit[j], c, phase, m, d)
          /\ d => m
      BY <1>3
    <2>2. (d => h) /\ (h => m)
      BY <1>2, <1>3
    <2>3. /\ turns'[j] = turns[j] /\ file'[j] = file[j] /\ (j \in completed') = m
          /\ c = (j \in current')
      BY <1>2
    <2> HIDE DEF m, d, c, h
    <2>4. Rec(turns[j], file[j], said[j], limit[j], c, phase, m, h)
      BY <2>1, <2>2, RecMore
    <2> QED BY <2>3, <2>4 DEF h
  <1>5. Rec(turns'[k], file'[k], said'[k], limit'[k], k \in current',
            phase', k \in completed', k \in completedFile')
    <2> DEFINE m == k \in completed
               d == k \in completedFile
               c == k \in current
               b == k \in completed'
               h == k \in completedFile'
               u == turns'[k]
               g == file'[k]
    <2>1. /\ m \in BOOLEAN /\ d \in BOOLEAN /\ c \in BOOLEAN /\ b \in BOOLEAN
          /\ h \in BOOLEAN
          /\ Rec(turns[k], file[k], said[k], limit[k], c, phase, m, d)
          /\ d => m
      BY <1>1, <1>3
    <2>2. (m => b) /\ (d => h) /\ (h => b)
      BY <1>2, <2>1
    <2>3. n = 4 => b /\ h
      BY <1>2
    <2>4. Like(u, turns[k]) \/ (u = NoTurn /\ b /\ h)
      BY <1>1, <2>3, LikeSelf
    <2>5. g = file[k] \/ Like(g, turns[k]) \/ (g = NoTurn /\ h)
      BY <1>1, <1>2, <2>3
    <2>6. said[k] \in Nat /\ limit[k] \in Nat
      BY <1>1, RecTypes, BoundsAssumption DEF TextInv
    <2>7. c = (k \in current')
      OBVIOUS
    <2> HIDE DEF m, d, c, b, h, u, g, k
    <2>8. Rec(u, g, said[k], limit[k], c, phase, b, h)
      BY <1>1, <2>1, <2>2, <2>4, <2>5, <2>6, RecConfirm
    <2> QED BY <2>7, <2>8 DEF u, g, b, h
  <1> QED BY <1>4, <1>5 DEF RecInv

\* The record was read back.
LEMMA ConfirmText ==
  ASSUME TextInv, Confirm
  PROVE  RecInv'
  <1> DEFINE e == flight.event
             t == Confirmed(e)
             n == ConfirmWrites(t)
  <1>1. /\ e \in Events /\ Has(turns, e) /\ phase \in {"up", "closing"}
        /\ turns \in [Keys -> Turns] /\ e[1] \in Keys
    BY EventPair DEF Confirm, TextInv, SpoolInv, TypeOK, Wellformed
  <1>2. n \in 0..4 /\ n \in {2, 4}
    BY ConfirmWritesType
  <1>3. /\ ConfirmDisk(e, n)
        /\ turns' = [turns EXCEPT ![e[1]] = IF n = 4 THEN NoTurn ELSE t]
        /\ completed' = IF n = 4 THEN completed \cup {e[1]} ELSE completed
        /\ UNCHANGED <<phase, said, limit, current>>
    BY DEF Confirm, life, settings, ghost
  <1> HIDE DEF n
  <1>4. /\ \A j \in Keys \ {e[1]} : turns'[j] = turns[j]
        /\ turns'[e[1]] = Confirmed(e) \/ (turns'[e[1]] = NoTurn /\ n = 4)
    BY <1>1, <1>3
  <1>5. /\ completed' = completed \/ completed' = completed \cup {e[1]}
        /\ n >= 3 => completed' = completed \cup {e[1]}
    BY <1>2, <1>3
  <1> QED BY <1>1, <1>2, <1>3, <1>4, <1>5, ConfirmKeys

\* One of the writes reports an error.
LEMMA ConfirmFailsText ==
  ASSUME TextInv, ConfirmFails
  PROVE  RecInv'
  <1> DEFINE e == flight.event
             t == Confirmed(e)
  <1>1. /\ e \in Events /\ Has(turns, e) /\ phase \in {"up", "closing"}
        /\ turns \in [Keys -> Turns] /\ e[1] \in Keys
    BY EventPair DEF ConfirmFails, TextInv, SpoolInv, TypeOK, Wellformed
  <1>2. PICK n \in 0..(ConfirmWrites(t) - 1), w \in Faults :
          /\ ConfirmDisk(e, IF w = "late" THEN n + 1 ELSE n)
          /\ turns' = IF n = 0 THEN turns ELSE [turns EXCEPT ![e[1]] = t]
          /\ completed' = IF n >= 2 THEN completed \cup {e[1]} ELSE completed
    BY DEF ConfirmFails
  <1>3. UNCHANGED <<phase, said, limit, current>>
    BY DEF ConfirmFails, life, settings, ghost
  <1>4. n \in 0..3
    BY <1>2, ConfirmWritesType
  <1> DEFINE x == IF w = "late" THEN n + 1 ELSE n
  <1>5. x \in 0..4 /\ (x >= 3 => n >= 2)
    BY <1>4
  <1>6. /\ \A j \in Keys \ {e[1]} : turns'[j] = turns[j]
        /\ turns'[e[1]] = turns[e[1]] \/ turns'[e[1]] = Confirmed(e)
    BY <1>1, <1>2
  <1>7. /\ completed' = completed \/ completed' = completed \cup {e[1]}
        /\ x >= 3 => completed' = completed \cup {e[1]}
    BY <1>2, <1>4, <1>5
  <1>8. ConfirmDisk(e, x)
    BY <1>2
  <1> HIDE DEF x
  <1> QED BY <1>1, <1>3, <1>5, <1>6, <1>7, <1>8, ConfirmKeys

-----------------------------------------------------------------------------
(* Crashes and New() *)

\* Memory is gone, and the disk has what it had or an honest turn.
LEMMA GoneText ==
  ASSUME TextInv, Gone, UNCHANGED <<said, limit>>,
         \A k \in Keys :
           \/ file'[k] = file[k]
           \/ Present(file'[k]) /\ Honest(file'[k], said[k], limit[k]),
         \A k \in Keys : k \in completedFile => k \in completedFile'
  PROVE  RecInv'
  <1> SUFFICES ASSUME NEW k \in Keys
               PROVE  Rec(turns'[k], file'[k], said'[k], limit'[k], k \in current',
                          phase', k \in completed', k \in completedFile')
    BY DEF RecInv
  <1> DEFINE m == k \in completed
             d == k \in completedFile
             c == k \in current
             n == k \in completedFile'
             g == file'[k]
  <1>1. /\ m \in BOOLEAN /\ d \in BOOLEAN /\ c \in BOOLEAN /\ n \in BOOLEAN
        /\ Rec(turns[k], file[k], said[k], limit[k], c, phase, m, d)
        /\ d => n
    BY DEF TextInv, RecInv
  <1>2. g = file[k] \/ (Present(g) /\ Honest(g, said[k], limit[k]))
    OBVIOUS
  <1>3. said[k] \in Nat /\ limit[k] \in Nat
    BY RecTypes, BoundsAssumption DEF TextInv
  <1>4. /\ turns'[k] = NoTurn /\ said'[k] = said[k] /\ limit'[k] = limit[k]
        /\ phase' = "down"
    BY DEF Gone
  <1> DEFINE b == k \in current'
             q == k \in completed'
  <1>5. b \in BOOLEAN /\ q \in BOOLEAN
    OBVIOUS
  <1> HIDE DEF m, d, c, n, g, b, q
  <1>6. Rec(NoTurn, g, said[k], limit[k], b, "down", q, n)
    BY <1>1, <1>2, <1>3, <1>5, RecGone
  <1> QED BY <1>4, <1>6 DEF g, n, b, q

\* The process dies outside its writes.
LEMMA CrashText ==
  ASSUME TextInv, Crash \/ Exit \/ LoadFails
  PROVE  RecInv'
  <1>1. Gone /\ UNCHANGED <<file, completedFile, said, limit>>
    BY DEF Crash, Exit, LoadFails, disk, ghost
  <1> QED BY <1>1, GoneText

\* The process dies between two writes of a confirmation.
LEMMA ConfirmCrashesText ==
  ASSUME TextInv, ConfirmCrashes
  PROVE  RecInv'
  <1> DEFINE e == flight.event
             t == Confirmed(e)
  <1>1. e \in Events /\ Has(turns, e) /\ phase \in {"up", "closing"}
    BY DEF ConfirmCrashes, TextInv, SpoolInv, TypeOK, Wellformed
  <1>2. PICK n \in 1..(ConfirmWrites(t) - 1) : ConfirmDisk(e, n)
    BY DEF ConfirmCrashes
  <1>3. n \in 0..4 /\ n # 0 /\ n # 4
    BY <1>2, ConfirmWritesType
  <1>4. Gone /\ UNCHANGED <<said, limit>>
    BY DEF ConfirmCrashes
  <1>5. e[1] \in Keys /\ Like(t, turns[e[1]]) /\ Present(turns[e[1]])
    BY <1>1, ConfirmedLike DEF TextInv
  <1>6. \A j \in Keys : file'[j] = file[j] \/ (j = e[1] /\ file'[j] = t)
    BY <1>1, <1>2, <1>3, ConfirmDiskText DEF TextInv
  <1>7. Present(t) /\ Honest(t, said[e[1]], limit[e[1]])
    <2>1. Honest(turns[e[1]], said[e[1]], limit[e[1]])
      BY <1>5 DEF TextInv, RecInv, Rec
    <2> QED BY <1>5, <2>1, LikeHonest DEF Like
  <1>8. \A j \in Keys : j \in completedFile => j \in completed
    BY <1>1 DEF TextInv, RecInv, Rec
  <1>9. \A j \in Keys : j \in completedFile => j \in completedFile'
    BY <1>1, <1>2, <1>3, <1>8, ConfirmDiskText DEF TextInv
  <1> HIDE DEF t
  <1> QED BY <1>4, <1>6, <1>7, <1>9, GoneText

\* New() reads what the disk has.
LEMMA OpenText ==
  ASSUME TextInv, Open
  PROVE  RecInv'
  <1> SUFFICES ASSUME NEW k \in Keys
               PROVE  Rec(turns'[k], file'[k], said'[k], limit'[k], k \in current',
                          phase', k \in completed', k \in completedFile')
    BY DEF RecInv
  <1> DEFINE d == k \in completedFile
             c == k \in current
             m == k \in completed
  <1>1. /\ d \in BOOLEAN /\ c \in BOOLEAN /\ m \in BOOLEAN
        /\ Rec(turns[k], file[k], said[k], limit[k], c, phase, m, d)
    BY DEF TextInv, RecInv
  <1>2. /\ turns' = file /\ phase' = "loading" /\ completed' = completedFile
        /\ UNCHANGED <<file, current, completedFile, said, limit>>
    BY DEF Open, ghost
  <1>3. d = (k \in completed') /\ d = (k \in completedFile') /\ c = (k \in current')
    BY <1>2
  <1> HIDE DEF d, c, m
  <1>4. Rec(file[k], file[k], said[k], limit[k], c, "loading", d, d)
    BY <1>1 DEF Rec
  <1> QED BY <1>2, <1>3, <1>4

\* When New() has visited every turn, no draft is open.
LEMMA LoadedText ==
  ASSUME TextInv, Loaded
  PROVE  RecInv'
  <1> SUFFICES ASSUME NEW k \in Keys
               PROVE  Rec(turns'[k], file'[k], said'[k], limit'[k], k \in current',
                          phase', k \in completed', k \in completedFile')
    BY DEF RecInv
  <1> DEFINE d == k \in completedFile
             c == k \in current
             m == k \in completed
  <1>1. /\ d \in BOOLEAN /\ c \in BOOLEAN /\ m \in BOOLEAN
        /\ Rec(turns[k], file[k], said[k], limit[k], c, phase, m, d)
    BY DEF TextInv, RecInv
  <1>2. /\ phase = "loading" /\ phase' = "up" /\ ~turns[k].open
        /\ UNCHANGED <<turns, file, current, completed, completedFile, said, limit>>
    BY DEF Loaded, TextInv, SpoolInv, Wellformed, settings, store, ghost
  <1>3. m = (k \in completed') /\ d = (k \in completedFile') /\ c = (k \in current')
    BY <1>2
  <1> HIDE DEF d, c, m
  <1>4. Rec(turns[k], file[k], said[k], limit[k], c, "up", m, d)
    BY <1>1, <1>2 DEF Rec
  <1> QED BY <1>2, <1>3, <1>4

\* New() closes an interrupted draft with what it had.
LEMMA RecoverDraftText ==
  ASSUME TextInv, NEW k \in Keys, RecoverDraft(k)
  PROVE  RecInv'
  <1> DEFINE u == Closed(turns[k], seq[ConvOf[k]] + 1, turns[k].complete)
  <1>1. /\ turns \in [Keys -> Turns] /\ file \in [Keys -> Turns]
        /\ turns[k] \in Turns /\ seq[ConvOf[k]] + 1 \in Nat \ {0}
        /\ turns[k].complete \in BOOLEAN
    BY RecTypes, ConvOfAssumption DEF TextInv, SpoolInv, TypeOK
  <1>2. /\ Present(u) /\ ~u.open /\ u.skip = turns[k].skip
        /\ u.text = turns[k].text /\ u.complete = turns[k].complete
    BY <1>1, ClosedText
  <1>3. PICK w :
          /\ SaveTurn(k, u, w)
          /\ \/ /\ w = "ok"
                /\ turns' = [turns EXCEPT ![k] = u]
                /\ UNCHANGED <<phase, current, completed>>
             \/ Gone
    BY DEF RecoverDraft, settings
  <1>4. phase = "loading" /\ UNCHANGED <<completedFile, said, limit>>
    BY DEF RecoverDraft, ghost
  <1> HIDE DEF u
  <1>5. Honest(u, said[k], limit[k])
    <2>1. Honest(turns[k], said[k], limit[k])
      BY DEF TextInv, RecInv, Rec
    <2> QED BY <1>2, <2>1 DEF Honest
  <1>6. /\ \A j \in Keys : file'[j] = file[j] \/ (j = k /\ file'[j] = u)
        /\ w = "ok" => file'[k] = u
    BY <1>1, <1>3 DEF SaveTurn, Written
  <1>7. CASE Gone
    BY <1>2, <1>4, <1>5, <1>6, <1>7, GoneText
  <1>8. CASE /\ w = "ok" /\ turns' = [turns EXCEPT ![k] = u]
             /\ UNCHANGED <<phase, current, completed>>
    <2>1. /\ turns'[k] = u /\ file'[k] = u
          /\ \A j \in Keys \ {k} : turns'[j] = turns[j] /\ file'[j] = file[j]
      BY <1>1, <1>6, <1>8
    <2>2. ASSUME NEW j \in Keys \ {k}
          PROVE  Rec(turns'[j], file'[j], said'[j], limit'[j], j \in current',
                     phase', j \in completed', j \in completedFile')
      BY <1>4, <1>8, <2>1 DEF TextInv, RecInv
    <2> DEFINE d == k \in completedFile
               c == k \in current
               m == k \in completed
    <2>3. /\ d \in BOOLEAN /\ c \in BOOLEAN /\ m \in BOOLEAN
          /\ Rec(turns[k], file[k], said[k], limit[k], c, phase, m, d)
      BY DEF TextInv, RecInv
    <2>4. m = (k \in completed') /\ d = (k \in completedFile') /\ c = (k \in current')
      BY <1>4, <1>8
    <2> HIDE DEF d, c, m
    <2>5. Rec(u, u, said[k], limit[k], c, phase, m, d)
      BY <1>2, <1>4, <1>5, <2>3 DEF Rec
    <2>6. Rec(turns'[k], file'[k], said'[k], limit'[k], k \in current',
              phase', k \in completed', k \in completedFile')
      BY <1>4, <1>8, <2>1, <2>4, <2>5
    <2> QED BY <2>2, <2>6 DEF RecInv
  <1> QED BY <1>3, <1>7, <1>8

\* New() removes a delivered turn once the disk knows it as completed.
LEMMA RecoverVerifiedText ==
  ASSUME TextInv, NEW k \in Keys, RecoverVerified(k)
  PROVE  RecInv'
  <1>1. /\ turns \in [Keys -> Turns] /\ file \in [Keys -> Turns]
        /\ completed \subseteq Keys
    BY DEF TextInv, SpoolInv, TypeOK
  <1>2. /\ phase = "loading" /\ completedFile' = completed \cup {k}
        /\ UNCHANGED <<said, limit>>
    BY DEF RecoverVerified
  <1>3. ASSUME NEW j \in Keys
        PROVE  /\ Rec(turns[j], file[j], said[j], limit[j], j \in current, phase,
                      j \in completed, j \in completedFile)
               /\ j \in completedFile => j \in completed
    <2>1. Rec(turns[j], file[j], said[j], limit[j], j \in current, phase,
              j \in completed, j \in completedFile)
      BY DEF TextInv, RecInv
    <2> QED BY <1>2, <2>1 DEF Rec
  <1>4. CASE Gone /\ UNCHANGED file
    BY <1>2, <1>3, <1>4, GoneText
  <1>5. CASE /\ file' = [file EXCEPT ![k] = NoTurn]
             /\ turns' = [turns EXCEPT ![k] = NoTurn]
             /\ completed' = completed \cup {k}
             /\ UNCHANGED <<phase, settings>>
    <2>1. ASSUME NEW j \in Keys \ {k}
          PROVE  Rec(turns'[j], file'[j], said'[j], limit'[j], j \in current',
                     phase', j \in completed', j \in completedFile')
      <3> DEFINE m == j \in completed
                 d == j \in completedFile
                 c == j \in current
                 n == j \in completedFile'
      <3>1. /\ m \in BOOLEAN /\ d \in BOOLEAN /\ c \in BOOLEAN /\ n \in BOOLEAN
            /\ Rec(turns[j], file[j], said[j], limit[j], c, phase, m, d)
            /\ d => m
        BY <1>3
      <3>2. (d => n) /\ (n => m)
        BY <1>2, <1>3
      <3>3. /\ turns'[j] = turns[j] /\ file'[j] = file[j] /\ (j \in completed') = m
            /\ c = (j \in current')
        BY <1>1, <1>5 DEF settings
      <3> HIDE DEF m, d, c, n
      <3>4. Rec(turns[j], file[j], said[j], limit[j], c, phase, m, n)
        BY <3>1, <3>2, RecMore
      <3> QED BY <1>2, <1>5, <3>3, <3>4 DEF n
    <2>2. Rec(turns'[k], file'[k], said'[k], limit'[k], k \in current',
              phase', k \in completed', k \in completedFile')
      <3>1. /\ turns'[k] = NoTurn /\ file'[k] = NoTurn /\ phase' = "loading"
            /\ k \in completed' /\ k \in completedFile'
        BY <1>1, <1>2, <1>5
      <3>2. Honest(NoTurn, said'[k], limit'[k])
        <4>1. said'[k] \in Nat /\ limit'[k] \in Nat
          BY <1>2, RecTypes, BoundsAssumption DEF TextInv
        <4> QED BY <4>1, NoTurnBlank DEF Honest
      <3> QED BY <3>1, <3>2, NoTurnBlank DEF Rec
    <2> QED BY <2>1, <2>2 DEF RecInv
  <1>6. \/ Gone /\ UNCHANGED file
        \/ /\ file' = [file EXCEPT ![k] = NoTurn]
           /\ turns' = [turns EXCEPT ![k] = NoTurn]
           /\ completed' = completed \cup {k}
           /\ UNCHANGED <<phase, settings>>
    BY DEF RecoverVerified
  <1> QED BY <1>4, <1>5, <1>6

-----------------------------------------------------------------------------
(* The theorem *)

LEMMA TextStep == TextInv /\ [Next]_vars => TextInv'
  <1> SUFFICES ASSUME TextInv, [Next]_vars
               PROVE  RecInv'
    BY SpoolInvStep DEF TextInv
  <1>1. CASE Interaction
    BY <1>1, BeginText, CommitText, CheckpointText, FinishText, SettingsText
    DEF Interaction
  <1>2. CASE Settings
    BY <1>2, SettingsText, RetryText DEF Settings
  <1>3. CASE Dispatcher
    BY <1>3, DispatchText, PrepareText, SettingsText, ConfirmText, ConfirmFailsText,
       RecordFailureText DEF Dispatcher
  <1>4. CASE Restart
    BY <1>4, OpenText, LoadedText, RecoverDraftText, RecoverVerifiedText, SettingsText
    DEF Restart
  <1>5. CASE Failure
    BY <1>5, ConfirmCrashesText, CrashText, SettingsText DEF Failure
  <1>6. CASE Karte
    BY <1>6, SettingsText
  <1>7. CASE UNCHANGED vars
    BY <1>7, LikeSelf, QuietText
    DEF TextInv, LimitsKept, vars, life, settings, store, disk, ghost
  <1> QED BY <1>1, <1>2, <1>3, <1>4, <1>5, <1>6, <1>7 DEF Next

\* No text said while recording was off, or after it had been off, is kept; no
\* result claims an end that was not seen or a text that was not said.
THEOREM SpoolIsHonest == Spec => []RecordedAsSaid
  <1>1. Init => TextInv
    BY InitText, InitSpoolInv DEF TextInv
  <1>2. TextInv => RecordedAsSaid
    BY DEF TextInv, RecInv, Rec, Honest, RecordedAsSaid, OffTextNotRecorded,
           NoInventedCompletion
  <1> QED BY <1>1, <1>2, TextStep, PTL DEF Spec

===============================================================================
