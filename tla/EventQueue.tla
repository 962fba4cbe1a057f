------------------------------- MODULE EventQueue -------------------------------
(***************************************************************************)
(* desktop/interaction.go, interaction_asr.go: how the interaction engine  *)
(* tells the window what happens.  Every handler holds InteractionEngine.mu *)
(* while it changes a turn and sends its events on a bounded channel; one  *)
(* goroutine, dispatch, receives an event, takes mu to judge whether it is *)
(* still of interest, and emits it without mu.  The window may call the    *)
(* engine from inside emit.  Updates of streaming recognition do not use   *)
(* the channel: the latest one waits in a slot of its turn, and a one-place *)
(* channel wakes the dispatcher.                                           *)
(*                                                                         *)
(* Abstractions.  An event is its attempt and one of three kinds: content  *)
(* (audio, output, transcript, chat: dropped once the turn has ended), end *)
(* (the state event of a terminal state) and fact (every other state, and  *)
(* traces).  The life of a turn is that of InteractionTurn, reduced to     *)
(* live, incomplete and closed.  A handler is one atomic step up to the    *)
(* sending of its events; mu is held as long as one of them is still to be *)
(* sent.  Turns that are pruned or expire are left out.                    *)
(***************************************************************************)
EXTENDS Naturals, Sequences

CONSTANTS InputKinds,      \* a subset of {"text", "microphone"}
          Capacity,        \* of the channel: 1024
          Reserve,         \* Start and Continue refuse above it: 512
          AttemptEvents,   \* events an attempt queues, thinking left aside
          EndEvents,       \* at most so many of them by the handler that ends it
          ThinkingDeltas,  \* bound on the thinking deltas of an attempt
          MaxOps,          \* bound on operations: the first MaxOps attempts may start one
          MaxAttempts,     \* bound on the attempts of all operations
          MaxUpdates       \* maxASRRevisions

ASSUME KindAssumption == InputKinds \subseteq {"text", "microphone"}
ASSUME BoundsAssumption ==
  /\ Capacity \in Nat /\ Reserve \in Nat /\ AttemptEvents \in Nat
  /\ EndEvents \in Nat \ {0, 1} /\ ThinkingDeltas \in Nat
  /\ MaxOps \in Nat /\ MaxAttempts \in Nat /\ MaxUpdates \in Nat
ASSUME ReserveAssumption ==
  2 + EndEvents <= AttemptEvents /\ Reserve + AttemptEvents <= Capacity

VARIABLES attempts,  \* the generation attempts so far; only the last may be live
          spent,     \* events queued by the last one, thinking left aside
          thoughts,  \* thinking deltas queued by the last one
          asr,       \* interactionASRSession of the last one
          wake,      \* asrWake holds its token
          pending,   \* events that the holder of mu has still to send
          events,    \* the channel
          disp,      \* the dispatcher: its step and the event it holds
          closed     \* Close has begun

vars == <<attempts, spent, thoughts, asr, wake, pending, events, disp, closed>>

Kinds  == {"fact", "content", "end"}
Events == [att : 1..MaxAttempts, kind : Kinds \cup {"asr"}, rev : Nat]
NoEvent == [att |-> 0, kind |-> "fact", rev |-> 0]

\* op: the operation; told, shown, late: history of what was emitted of it, its
\* end, its last update, and the content that came after its end.
Attempts == [op : 1..MaxAttempts, input : {"text", "microphone"},
             state : {"live", "incomplete", "closed"},
             told : BOOLEAN, shown : Nat, late : Nat]
\* Revisions; 0: none.  heard: the input is accepted, asr.completed.
Sessions == [last : Nat, pending : Nat, activity : Nat, final : Nat, heard : BOOLEAN]
NoSession == [last |-> 0, pending |-> 0, activity |-> 0, final |-> 0, heard |-> TRUE]

Latest  == Len(attempts)
Live(a) == a \in DOMAIN attempts /\ attempts[a].state = "live"
Busy    == Live(Latest)
\* The revision of attempt a is that of its turn.
Current(a) ==
  \A b \in DOMAIN attempts : attempts[b].op = attempts[a].op => b <= a

Free == pending = <<>>

EventsOf(a, kinds) == [i \in DOMAIN kinds |-> [att |-> a, kind |-> kinds[i], rev |-> 0]]
\* queueLocked, as often as the handler calls it.
Queue(kinds) ==
  /\ pending' = EventsOf(Latest, kinds)
  /\ spent' = spent + Len(kinds)
\* "A generation attempt emits at most 128 traces, 64 committed output events, ...":
\* limits of the providers and of the handlers, taken together.
MayQueue(n) == spent + n + EndEvents <= AttemptEvents

-----------------------------------------------------------------------------
(* The handlers, under mu *)

Room_always ==   \* mutant
  TRUE
Room == Len(events) <= Reserve

NewAttempt(op, kind, session, kinds) ==
  /\ Free /\ ~closed /\ ~Busy /\ Room /\ Latest < MaxAttempts
  /\ attempts' = Append(attempts, [op |-> op, input |-> kind, state |-> "live",
                                   told |-> FALSE, shown |-> 0, late |-> 0])
  /\ pending' = EventsOf(Latest + 1, kinds)
  /\ spent' = Len(kinds) /\ thoughts' = 0
  /\ asr' = session
  /\ UNCHANGED <<wake, events, disp, closed>>

\* The first trace and the state RECORDING.
Start(kind) ==
  /\ Latest < MaxOps
  /\ NewAttempt(Latest + 1, kind, [NoSession EXCEPT !.heard = (kind = "text")],
                <<"fact", "fact">>)

Continue(a) ==
  /\ a \in DOMAIN attempts /\ Current(a) /\ attempts[a].state = "incomplete"
  /\ NewAttempt(attempts[a].op, attempts[a].input, NoSession, <<"fact">>)

\* Any handler that leaves the turn live; content follows the accepted input.
Produce(kind) ==
  /\ Free /\ Busy /\ MayQueue(1) /\ (kind = "content" => asr.heard)
  /\ Queue(<<kind>>)
  /\ UNCHANGED <<attempts, thoughts, asr, wake, events, disp, closed>>

\* The chat observer of runGeneration: a typed turn passes on what the model thinks.
Think ==
  /\ Free /\ Busy /\ attempts[Latest].input = "text"
  /\ thoughts < ThinkingDeltas
  /\ thoughts' = thoughts + 1
  /\ pending' = EventsOf(Latest, <<"content">>)
  /\ UNCHANGED <<attempts, spent, asr, wake, events, disp, closed>>

\* finishLocked, which queues the last two of n events.  Of the recognition nothing is
\* read after it: asr is reset as a whole.
Ending(state, n) ==
  /\ attempts' = [attempts EXCEPT ![Latest].state = state]
  /\ Queue([i \in 1..n |-> IF i = n THEN "end" ELSE "fact"])
  /\ asr' = NoSession
  /\ UNCHANGED <<thoughts, wake, events>>

End(state, n) == Free /\ Busy /\ Ending(state, n) /\ UNCHANGED <<disp, closed>>

\* receiveASR.  traced: the update is the first with speech, partial or stable text;
\* its trace leaves room for those of Accept.
Hear(phase, traced) ==
  /\ asr' = IF phase = "activity"
            THEN [asr EXCEPT !.last = @ + 1, !.activity = asr.last + 1]
            ELSE [asr EXCEPT !.last = @ + 1, !.pending = asr.last + 1,
                             !.final = IF phase = "final" THEN asr.last + 1 ELSE 0]
  /\ wake' = TRUE
  /\ IF traced THEN MayQueue(4) /\ Queue(<<"fact">>) ELSE UNCHANGED <<pending, spent>>
  /\ UNCHANGED <<attempts, thoughts, events, disp, closed>>

ReceiveASR(phase, traced) ==
  /\ Free /\ Busy /\ ~asr.heard /\ asr.last < MaxUpdates
  /\ IF asr.final # 0 THEN Ending("closed", 2) /\ UNCHANGED <<disp, closed>>
                      ELSE Hear(phase, traced)

\* finishASR and acceptTranscript: asr_final, the transcript, THINKING.
Accept ==
  /\ Free /\ Busy /\ ~asr.heard /\ asr.final # 0 /\ MayQueue(3)
  /\ asr' = [asr EXCEPT !.heard = TRUE]
  /\ Queue(<<"fact", "content", "fact">>)
  /\ UNCHANGED <<attempts, thoughts, wake, events, disp, closed>>

\* Close: cancel what is live; done is closed when its events are sent.
Close ==
  /\ Free /\ ~closed
  /\ closed' = TRUE
  /\ \/ Busy /\ Ending("closed", EndEvents)
     \/ ~Busy /\ UNCHANGED <<attempts, spent, thoughts, asr, wake, pending, events>>
  /\ UNCHANGED disp

\* The send of queueLocked; it blocks while the channel is full.
Send ==
  /\ ~Free /\ Len(events) < Capacity
  /\ events' = Append(events, Head(pending))
  /\ pending' = Tail(pending)
  /\ UNCHANGED <<attempts, spent, thoughts, asr, wake, disp, closed>>

-----------------------------------------------------------------------------
(* dispatch *)

At(pc) == disp.pc = pc
Goto(pc) == disp' = [disp EXCEPT !.pc = pc]
Loop == disp' = [pc |-> "wait", event |-> NoEvent]

Receive ==
  /\ At("wait") /\ events # <<>>
  /\ disp' = [pc |-> "judge", event |-> Head(events)]
  /\ events' = Tail(events)
  /\ UNCHANGED <<attempts, spent, thoughts, asr, wake, pending, closed>>

Wake ==
  /\ At("wait") /\ wake
  /\ wake' = FALSE
  /\ Goto("asr")
  /\ UNCHANGED <<attempts, spent, thoughts, asr, pending, events, closed>>

Stop ==
  /\ At("wait") /\ closed /\ Free
  /\ Goto("stopped")
  /\ UNCHANGED <<attempts, spent, thoughts, asr, wake, pending, events, closed>>

Wanted_live(e) ==   \* mutant
  Current(e.att) /\ attempts[e.att].state # "closed"
Wanted(e) ==
  Current(e.att) /\ (e.kind = "content" => Live(e.att))

Judge ==
  /\ At("judge") /\ Free
  /\ IF Wanted(disp.event) THEN Goto("emit") ELSE Loop
  /\ UNCHANGED <<attempts, spent, thoughts, asr, wake, pending, events, closed>>

\* dispatchASR: of the two slots the older update first, and again while one is left.
Slots == {r \in {asr.pending, asr.activity} : r # 0}

Chosen ==
  CHOOSE r \in Slots : \A s \in Slots : r <= s

Again_never ==   \* mutant
  FALSE
Again == Slots # {Chosen}

JudgeASR ==
  /\ At("asr") /\ Free
  /\ IF Busy /\ Slots # {}
     THEN /\ disp' = [pc |-> "emit",
                      event |-> [att |-> Latest, kind |-> "asr", rev |-> Chosen]]
          /\ asr' = IF asr.activity = Chosen THEN [asr EXCEPT !.activity = 0]
                                             ELSE [asr EXCEPT !.pending = 0]
          /\ wake' = (wake \/ Again)
     ELSE Loop /\ UNCHANGED <<asr, wake>>
  /\ UNCHANGED <<attempts, spent, thoughts, pending, events, closed>>

\* emit: the window sees the event, and may call Playback before it returns.
Emit ==
  /\ At("emit")
  /\ LET e == disp.event IN
       /\ attempts' = [attempts EXCEPT
            ![e.att].told = @ \/ e.kind = "end",
            ![e.att].shown = IF e.kind = "asr" THEN e.rev ELSE @,
            ![e.att].late = IF e.kind \in {"content", "asr"} /\ ~Live(e.att)
                            THEN @ + 1 ELSE @]
       /\ \/ Loop
          \/ e.kind = "content" /\ Goto("call")
  /\ UNCHANGED <<spent, thoughts, asr, wake, pending, events, closed>>

\* Playback called from inside emit: a trace, or the last one completes the turn.
Acknowledge ==
  /\ At("call") /\ Free
  /\ Goto("return")
  /\ \/ /\ Live(disp.event.att) /\ MayQueue(1) /\ Queue(<<"fact">>)
        /\ UNCHANGED <<attempts, thoughts, asr, wake, events, closed>>
     \/ /\ Live(disp.event.att)
        /\ \E state \in {"incomplete", "closed"} : Ending(state, 2)
        /\ UNCHANGED closed
     \/ UNCHANGED <<attempts, spent, thoughts, asr, wake, pending, events, closed>>

Return ==
  /\ At("return") /\ Free
  /\ Loop
  /\ UNCHANGED <<attempts, spent, thoughts, asr, wake, pending, events, closed>>

-----------------------------------------------------------------------------
Init ==
  /\ attempts = <<>> /\ spent = 0 /\ thoughts = 0 /\ asr = NoSession
  /\ wake = FALSE /\ pending = <<>> /\ events = <<>> /\ closed = FALSE
  /\ disp = [pc |-> "wait", event |-> NoEvent]

Handler ==
  \/ \E kind \in InputKinds : Start(kind)
  \/ \E a \in 1..MaxAttempts : Continue(a)
  \/ \E kind \in {"fact", "content"} : Produce(kind)
  \/ Think
  \/ \E state \in {"incomplete", "closed"}, n \in 2..EndEvents : End(state, n)
  \/ \E phase \in {"activity", "partial", "final"}, traced \in BOOLEAN :
       ReceiveASR(phase, traced)
  \/ Accept
  \/ Close

Dispatch == Receive \/ Wake \/ Stop \/ Judge \/ JudgeASR \/ Emit \/ Acknowledge \/ Return

Next == Handler \/ Send \/ Dispatch

Spec == Init /\ [][Next]_vars

\* The goroutines run on; a select with several channels ready takes each of them
\* in the end, and a sync.Mutex is not kept from one that waits for it.
Fairness ==
  /\ WF_vars(Send) /\ WF_vars(Emit \/ Return)
  /\ SF_vars(Receive) /\ SF_vars(Wake)
  /\ SF_vars(Judge \/ JudgeASR \/ Acknowledge)
FairSpec == Spec /\ Fairness

-----------------------------------------------------------------------------
(* Properties *)

TypeOK ==
  /\ attempts \in Seq(Attempts) /\ Len(attempts) <= MaxAttempts
  /\ spent \in 0..AttemptEvents /\ thoughts \in 0..ThinkingDeltas
  /\ asr \in Sessions /\ wake \in BOOLEAN /\ closed \in BOOLEAN
  /\ pending \in Seq(Events) /\ events \in Seq(Events)
  /\ disp \in [pc : {"wait", "judge", "asr", "emit", "call", "return", "stopped"},
               event : Events \cup {NoEvent}]

\* "producers never block under the state mutex" (queueLocked): whoever has an
\* event to send finds room for it.  It holds while the thinking deltas of an
\* attempt fit as well.
ProducersNeverBlock == ~Free => Len(events) < Capacity

\* The same promise without that condition: whoever holds the mutex lets it go.
MutexReleased == ~Free ~> Free

\* The window sees the updates of a recognition in the order of their revisions
\* and none of them twice, although they wait in two slots.
UpdatesInOrder ==
  [][\A a \in DOMAIN attempts : attempts'[a].shown # attempts[a].shown
                                  => attempts'[a].shown > attempts[a].shown]_vars

\* The window hears of every end, unless the operation goes on or the engine closes.
EndShown ==
  \A a \in 1..MaxAttempts :
    (a \in DOMAIN attempts /\ ~Live(a))
      ~> (closed \/ (a \in DOMAIN attempts /\ (attempts[a].told \/ ~Current(a))))

\* The last update before a recognition falls silent is shown, although its wake
\* may have been taken by another, unless its turn ends first.
UpdatesShown == (Slots # {}) ~> (Slots = {} \/ closed)
UpdatesArrive == UpdatesInOrder /\ UpdatesShown

=============================================================================
