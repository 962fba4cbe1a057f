---------------------------- MODULE EventQueueProofs ----------------------------
(***************************************************************************)
(* The window and what starts it.  EventQueue, for every capacity, every   *)
(* number of attempts and of events: no producer ever waits for room while *)
(* it holds the mutex, provided that the thinking deltas of an attempt fit *)
(* into the channel together with its other events.  LocalStack, for any   *)
(* services, windows, commands and watchers: whatever the launcher of the  *)
(* resident started and still runs can be found, and windows end first.    *)
(***************************************************************************)
EXTENDS EventQueue, LocalStack, SequenceTheorems, TLAPS

\* The condition under which the comment of queueLocked is right.
ThinkingFits == Reserve + AttemptEvents + ThinkingDeltas <= Capacity

\* What is in the channel, or still to be sent, was there when the attempt began
\* or has been counted since; and a live attempt keeps room for its end.
Counted == Len(events) + Len(pending) <= Reserve + spent + thoughts
EndFits == Busy => spent + EndEvents <= AttemptEvents
\* Start and Continue refuse while a turn is live, so only the last attempt can be.
OnlyLast == \A a \in DOMAIN attempts : attempts[a].state = "live" => a = Latest
IInv == TypeOK /\ Counted /\ EndFits /\ OnlyLast

-----------------------------------------------------------------------------
(* Sequences *)

\* A handler queues one event of its attempt for each kind it names.
LEMMA EventsOfType ==
  ASSUME NEW a \in 1..MaxAttempts, NEW kinds \in Seq(Kinds)
  PROVE  EventsOf(a, kinds) \in Seq(Events) /\ Len(EventsOf(a, kinds)) = Len(kinds)
  <1> DEFINE e(i) == [att |-> a, kind |-> kinds[i], rev |-> 0]
  <1>1. Len(kinds) \in Nat /\ DOMAIN kinds = 1..Len(kinds)
    BY LenProperties
  <1>2. \A i \in 1..Len(kinds) : e(i) \in Events
    BY ElementOfSeq DEF Events
  <1>3. EventsOf(a, kinds) = [i \in 1..Len(kinds) |-> e(i)]
    BY <1>1 DEF EventsOf
  <1> HIDE DEF e
  <1>4. [i \in 1..Len(kinds) |-> e(i)] \in [1..Len(kinds) -> Events]
    BY <1>2
  <1> QED BY <1>1, <1>3, <1>4

\* The events of a handler that ends a turn: as many as it says.
LEMMA EndKindsType ==
  ASSUME NEW n \in Nat
  PROVE  LET kinds == [i \in 1..n |-> IF i = n THEN "end" ELSE "fact"] IN
           kinds \in Seq(Kinds) /\ Len(kinds) = n
  <1> DEFINE kinds == [i \in 1..n |-> IF i = n THEN "end" ELSE "fact"]
  <1>1. kinds \in [1..n -> Kinds]
    BY DEF Kinds
  <1> HIDE DEF kinds
  <1>2. kinds \in Seq(Kinds) /\ Len(kinds) = n
    BY <1>1
  <1> QED BY <1>2 DEF kinds

\* The short lists of kinds that the handlers name.
LEMMA KindsType ==
  /\ \A k \in Kinds : <<k>> \in Seq(Kinds) /\ Len(<<k>>) = 1
  /\ <<"fact", "fact">> \in Seq(Kinds) /\ Len(<<"fact", "fact">>) = 2
  /\ <<"fact", "content", "fact">> \in Seq(Kinds)
  /\ Len(<<"fact", "content", "fact">>) = 3
  BY DEF Kinds

\* Changing one attempt keeps their number and their type.
LEMMA ChangeType ==
  ASSUME NEW s \in Seq(Attempts), NEW i, NEW e, i \in 1..Len(s) => e \in Attempts
  PROVE  [s EXCEPT ![i] = e] \in Seq(Attempts) /\ Len([s EXCEPT ![i] = e]) = Len(s)
  <1>1. CASE i \in 1..Len(s)
    BY <1>1, ExceptSeq
  <1>2. CASE i \notin 1..Len(s)
    <2>1. [s EXCEPT ![i] = e] = s
      BY <1>2, LenProperties
    <2> QED BY <2>1
  <1> QED BY <1>1, <1>2

\* The older of the updates that wait is one of them.
LEMMA ChosenType ==
  ASSUME asr \in Sessions, Slots # {}
  PROVE  Chosen \in Slots /\ Chosen \in Nat
  <1>1. Slots \subseteq Nat
    BY DEF Slots, Sessions
  <1>2. \E r \in Slots : \A s \in Slots : r <= s
    BY DEF Slots, Sessions
  <1> QED BY <1>1, <1>2 DEF Chosen

\* The turn that is live is that of the last attempt.
LEMMA BusyLatest ==
  ASSUME TypeOK, Busy
  PROVE  /\ Latest \in 1..MaxAttempts /\ Latest \in DOMAIN attempts
         /\ attempts[Latest] \in Attempts
  BY LenProperties, ElementOfSeq, BoundsAssumption DEF TypeOK, Busy, Live, Latest

-----------------------------------------------------------------------------
(* The handlers *)

\* What a live attempt queues is counted.
LEMMA QueueInv ==
  ASSUME IInv, Free, Busy, NEW kinds \in Seq(Kinds), Queue(kinds), UNCHANGED events
  PROVE  /\ pending' \in Seq(Events)
         /\ spent' = spent + Len(kinds) /\ Len(kinds) \in Nat
         /\ Len(events') + Len(pending') <= Reserve + spent' + thoughts
  <1>1. Latest \in 1..MaxAttempts
    BY BusyLatest DEF IInv
  <1>2. pending' \in Seq(Events) /\ Len(pending') = Len(kinds) /\ Len(kinds) \in Nat
    BY <1>1, EventsOfType, LenProperties DEF Queue
  <1>3. Len(pending) = 0 /\ Len(events) \in Nat
    BY EmptySeq, LenProperties DEF IInv, TypeOK, Free
  <1> QED
    BY <1>2, <1>3, BoundsAssumption DEF IInv, TypeOK, Counted, Queue

\* A new attempt finds at most Reserve events in the channel.
LEMMA NewAttemptInv ==
  ASSUME IInv, NEW op \in 1..MaxAttempts, NEW kind \in {"text", "microphone"},
         NEW session \in Sessions, NEW kinds \in Seq(Kinds), Len(kinds) <= 2,
         NewAttempt(op, kind, session, kinds)
  PROVE  IInv'
  <1> USE BoundsAssumption
  <1> DEFINE new == [op |-> op, input |-> kind, state |-> "live",
                     told |-> FALSE, shown |-> 0, late |-> 0]
  <1>1. new \in Attempts
    BY DEF Attempts
  <1> HIDE DEF new
  <1>2. attempts' = Append(attempts, new)
    BY DEF NewAttempt, new
  <1>3. attempts' \in Seq(Attempts) /\ Len(attempts') = Latest + 1 /\ Latest \in Nat
    BY <1>1, <1>2, AppendProperties, LenProperties DEF IInv, TypeOK, Latest
  <1>4. Latest + 1 \in 1..MaxAttempts
    BY <1>3 DEF NewAttempt
  <1>5. pending' \in Seq(Events) /\ Len(pending') = Len(kinds) /\ Len(kinds) \in Nat
    BY <1>4, EventsOfType, LenProperties DEF NewAttempt
  <1>6. spent' \in 0..AttemptEvents /\ spent' + EndEvents <= AttemptEvents
    BY <1>5, ReserveAssumption DEF NewAttempt
  <1>7. Counted'
    BY <1>5, LenProperties DEF NewAttempt, Counted, Room, IInv, TypeOK
  <1>8. OnlyLast'
    <2>1. \A a \in 1..Latest : attempts'[a] = attempts[a] /\ attempts[a].state # "live"
      BY <1>1, <1>2, AppendProperties, LenProperties
      DEF NewAttempt, IInv, TypeOK, OnlyLast, Busy, Live, Latest
    <2>2. DOMAIN attempts' = 1..(Latest + 1)
      BY <1>3, LenProperties
    <2> QED BY <1>3, <2>1, <2>2 DEF OnlyLast, Latest
  <1> QED
    BY <1>3, <1>4, <1>5, <1>6, <1>7, <1>8
    DEF NewAttempt, IInv, TypeOK, EndFits, Sessions, NoSession

\* The end of an attempt uses the room that was kept for it.
LEMMA EndingInv ==
  ASSUME IInv, Free, Busy, NEW state \in {"incomplete", "closed"},
         NEW n \in 2..EndEvents, Ending(state, n)
  PROVE  /\ attempts' \in Seq(Attempts) /\ Len(attempts') <= MaxAttempts
         /\ spent' \in 0..AttemptEvents /\ thoughts' = thoughts
         /\ asr' \in Sessions /\ wake' = wake /\ events' = events
         /\ pending' \in Seq(Events)
         /\ Counted' /\ EndFits' /\ OnlyLast'
  <1> USE BoundsAssumption
  <1> DEFINE kinds == [i \in 1..n |-> IF i = n THEN "end" ELSE "fact"]
             last  == [attempts[Latest] EXCEPT !.state = state]
  <1>1. kinds \in Seq(Kinds) /\ Len(kinds) = n
    BY EndKindsType
  <1>2. Queue(kinds) /\ UNCHANGED events
    BY DEF Ending
  <1> HIDE DEF kinds
  <1>3. /\ pending' \in Seq(Events) /\ spent' = spent + n
        /\ Len(events') + Len(pending') <= Reserve + spent' + thoughts
    BY <1>1, <1>2, QueueInv
  <1>4. spent' \in 0..AttemptEvents
    BY <1>3 DEF IInv, EndFits, TypeOK
  <1>5. last \in Attempts /\ Latest \in DOMAIN attempts
    BY BusyLatest DEF IInv, Attempts
  <1>6. attempts' = [attempts EXCEPT ![Latest] = last]
    BY DEF Ending
  <1> HIDE DEF last
  <1>7. /\ attempts' \in Seq(Attempts) /\ Len(attempts') = Len(attempts)
        /\ attempts'[Latest] = last
    BY <1>5, <1>6, ChangeType DEF IInv, TypeOK
  <1>8. last.state # "live"
    BY <1>5, BusyLatest DEF last, IInv, Attempts
  <1>9. ~Busy'
    BY <1>7, <1>8 DEF Busy, Live, Latest
  <1>10. OnlyLast'
    BY <1>6, <1>7, <1>8, LenProperties DEF IInv, TypeOK, OnlyLast, Latest
  <1> QED
    BY <1>3, <1>4, <1>7, <1>9, <1>10 DEF Ending, IInv, TypeOK, Counted, EndFits, NoSession, Sessions

\* A handler that leaves the turn as it is and has room for what it queues.
LEMMA KeepsTurnInv ==
  ASSUME IInv, Free, Busy, NEW kinds \in Seq(Kinds), MayQueue(Len(kinds)),
         Queue(kinds), asr' \in Sessions, wake' \in BOOLEAN,
         disp' \in [pc : {"wait", "judge", "asr", "emit", "call", "return", "stopped"},
                    event : Events \cup {NoEvent}],
         UNCHANGED <<attempts, thoughts, events, closed>>
  PROVE  IInv'
  <1>1. /\ pending' \in Seq(Events) /\ spent' = spent + Len(kinds) /\ Len(kinds) \in Nat
        /\ Len(events') + Len(pending') <= Reserve + spent' + thoughts
    BY QueueInv
  <1>2. spent' \in 0..AttemptEvents /\ spent' + EndEvents <= AttemptEvents
    BY <1>1, BoundsAssumption DEF MayQueue, IInv, TypeOK
  <1> QED
    BY <1>1, <1>2 DEF IInv, TypeOK, Counted, EndFits, OnlyLast, Busy, Live, Latest

LEMMA StartInv ==
  ASSUME IInv, NEW kind \in InputKinds, Start(kind)
  PROVE  IInv'
  <1>1. [NoSession EXCEPT !.heard = (kind = "text")] \in Sessions
    BY DEF NoSession, Sessions
  <1>2. Latest + 1 \in 1..MaxAttempts
    BY LenProperties, BoundsAssumption DEF Start, NewAttempt, IInv, TypeOK, Latest
  <1>3. kind \in {"text", "microphone"}
    BY KindAssumption
  <1> QED BY <1>1, <1>2, <1>3, KindsType, NewAttemptInv DEF Start

LEMMA ContinueInv ==
  ASSUME IInv, NEW a \in 1..MaxAttempts, Continue(a)
  PROVE  IInv'
  <1>1. attempts[a] \in Attempts
    BY LenProperties, ElementOfSeq DEF Continue, IInv, TypeOK
  <1>2. NoSession \in Sessions
    BY DEF NoSession, Sessions
  <1>3. /\ attempts[a].op \in 1..MaxAttempts
        /\ attempts[a].input \in {"text", "microphone"}
    BY <1>1 DEF Attempts
  <1>4. <<"fact">> \in Seq(Kinds) /\ Len(<<"fact">>) <= 2
    BY KindsType DEF Kinds
  <1> QED BY <1>2, <1>3, <1>4, NewAttemptInv DEF Continue

LEMMA ProduceInv ==
  ASSUME IInv, NEW kind \in {"fact", "content"}, Produce(kind)
  PROVE  IInv'
  <1>1. <<kind>> \in Seq(Kinds) /\ Len(<<kind>>) = 1
    BY KindsType DEF Kinds
  <1> QED BY <1>1, KeepsTurnInv DEF Produce, IInv, TypeOK

LEMMA ThinkInv ==
  ASSUME IInv, Think
  PROVE  IInv'
  <1> USE BoundsAssumption
  <1>1. <<"content">> \in Seq(Kinds) /\ Len(<<"content">>) = 1
    BY KindsType DEF Kinds
  <1>2. Latest \in 1..MaxAttempts
    BY BusyLatest DEF Think, IInv
  <1>3. pending' \in Seq(Events) /\ Len(pending') = 1
    BY <1>1, <1>2, EventsOfType DEF Think
  <1>4. Len(pending) = 0 /\ Len(events) \in Nat
    BY EmptySeq, LenProperties DEF IInv, TypeOK, Think, Free
  <1>5. thoughts' \in 0..ThinkingDeltas /\ thoughts' = thoughts + 1
    BY DEF Think, IInv, TypeOK
  <1>6. spent' = spent /\ events' = events /\ spent \in Nat /\ thoughts \in Nat
    BY DEF Think, IInv, TypeOK
  <1>7. Counted'
    BY <1>3, <1>4, <1>5, <1>6 DEF IInv, Counted
  <1>8. UNCHANGED <<attempts, spent, asr, wake, events, disp, closed>>
    BY DEF Think
  <1>9. EndFits' /\ OnlyLast'
    BY <1>8 DEF IInv, EndFits, OnlyLast, Busy, Live, Latest
  <1>10. TypeOK'
    BY <1>3, <1>5, <1>8 DEF IInv, TypeOK
  <1> QED BY <1>7, <1>9, <1>10 DEF IInv

LEMMA EndInv ==
  ASSUME IInv, NEW state \in {"incomplete", "closed"}, NEW n \in 2..EndEvents,
         End(state, n)
  PROVE  IInv'
  BY EndingInv DEF End, IInv, TypeOK

LEMMA ReceiveASRInv ==
  ASSUME IInv, NEW phase \in {"activity", "partial", "final"}, NEW traced \in BOOLEAN,
         ReceiveASR(phase, traced)
  PROVE  IInv'
  <1> USE BoundsAssumption
  <1>1. CASE asr.final # 0
    BY <1>1, EndingInv DEF ReceiveASR, IInv, TypeOK
  <1>2. CASE asr.final = 0
    <2>1. Hear(phase, traced) /\ Free /\ Busy
      BY <1>2 DEF ReceiveASR
    <2>2. asr' \in Sessions
      <3> DEFINE r == asr.last + 1
      <3>1. asr \in Sessions /\ r \in Nat
        BY DEF IInv, TypeOK, Sessions
      <3>2. CASE phase = "activity"
        <4>1. asr' = [asr EXCEPT !.last = r, !.activity = r]
          BY <2>1, <3>2 DEF Hear
        <4> QED BY <3>1, <4>1 DEF Sessions
      <3>3. CASE phase # "activity"
        <4> DEFINE f == IF phase = "final" THEN r ELSE 0
        <4>1. asr' = [asr EXCEPT !.last = r, !.pending = r, !.final = f]
          BY <2>1, <3>3 DEF Hear
        <4>2. f \in Nat
          BY <3>1
        <4> HIDE DEF f, r
        <4> QED BY <3>1, <4>1, <4>2 DEF Sessions
      <3> QED BY <3>2, <3>3
    <2>3. CASE traced
      <3>1. <<"fact">> \in Seq(Kinds) /\ Len(<<"fact">>) = 1
        BY KindsType DEF Kinds
      <3>2. MayQueue(1) /\ Queue(<<"fact">>)
        BY <2>1, <2>3 DEF Hear, MayQueue, IInv, TypeOK
      <3>3. IInv /\ Free /\ Busy /\ wake' \in BOOLEAN
        BY <2>1 DEF Hear
      <3>4. /\ disp' \in [pc : {"wait", "judge", "asr", "emit", "call", "return", "stopped"},
                          event : Events \cup {NoEvent}]
            /\ UNCHANGED <<attempts, thoughts, events, closed>>
        BY <2>1 DEF Hear, IInv, TypeOK
      <3> QED BY <2>2, <3>1, <3>2, <3>3, <3>4, KeepsTurnInv
    <2>4. CASE ~traced
      BY <2>1, <2>2, <2>4 DEF Hear, IInv, TypeOK, Counted, EndFits, OnlyLast, Busy, Live, Latest
    <2> QED BY <2>3, <2>4
  <1> QED BY <1>1, <1>2

LEMMA AcceptInv ==
  ASSUME IInv, Accept
  PROVE  IInv'
  <1>1. asr' \in Sessions
    BY DEF Accept, IInv, TypeOK, Sessions
  <1>2. Free /\ Busy /\ MayQueue(3) /\ Queue(<<"fact", "content", "fact">>)
    BY DEF Accept
  <1> QED BY <1>1, <1>2, KindsType, KeepsTurnInv DEF Accept, IInv, TypeOK

LEMMA CloseInv ==
  ASSUME IInv, Close
  PROVE  IInv'
  <1>1. CASE Busy /\ Ending("closed", EndEvents)
    <2>1. EndEvents \in 2..EndEvents
      BY BoundsAssumption
    <2> QED BY <1>1, <2>1, EndingInv DEF Close, IInv, TypeOK
  <1>2. CASE UNCHANGED <<attempts, spent, thoughts, asr, wake, pending, events>>
    BY <1>2 DEF Close, IInv, TypeOK, Counted, EndFits, OnlyLast, Busy, Live, Latest
  <1> QED BY <1>1, <1>2 DEF Close

\* A send moves an event from one side of the count to the other.
LEMMA SendInv ==
  ASSUME IInv, Send
  PROVE  IInv'
  <1>1. pending \in Seq(Events) /\ pending # <<>> /\ events \in Seq(Events)
    BY DEF Send, Free, IInv, TypeOK
  <1>2. /\ Head(pending) \in Events /\ pending' \in Seq(Events)
        /\ Len(pending') = Len(pending) - 1 /\ Len(pending) \in Nat
    BY <1>1, HeadTailProperties, LenProperties DEF Send
  <1>3. events' \in Seq(Events) /\ Len(events') = Len(events) + 1 /\ Len(events) \in Nat
    BY <1>1, <1>2, AppendProperties, LenProperties DEF Send
  <1>4. Counted'
    BY <1>2, <1>3, BoundsAssumption DEF Send, IInv, TypeOK, Counted
  <1> QED
    BY <1>2, <1>3, <1>4 DEF Send, IInv, TypeOK, EndFits, OnlyLast, Busy, Live, Latest

-----------------------------------------------------------------------------
(* The dispatcher *)

\* A step that neither queues nor receives an event, and only marks attempts.
LEMMA QuietInv ==
  ASSUME IInv, attempts' \in Seq(Attempts), Len(attempts') = Len(attempts),
         \A a \in 1..Len(attempts) : attempts'[a].state = attempts[a].state,
         asr' \in Sessions, wake' \in BOOLEAN, closed' \in BOOLEAN,
         disp' \in [pc : {"wait", "judge", "asr", "emit", "call", "return", "stopped"},
                    event : Events \cup {NoEvent}],
         UNCHANGED <<spent, thoughts, pending, events>>
  PROVE  IInv'
  <1>1. DOMAIN attempts' = DOMAIN attempts /\ DOMAIN attempts = 1..Len(attempts)
    BY LenProperties DEF IInv, TypeOK
  <1>2. (Busy' <=> Busy) /\ OnlyLast'
    BY <1>1 DEF IInv, Busy, Live, Latest, OnlyLast
  <1> QED BY <1>2 DEF IInv, TypeOK, Counted, EndFits

\* Going on keeps the event, looping forgets it.
LEMMA DispType ==
  ASSUME TypeOK, NEW pc \in {"wait", "judge", "asr", "emit", "call", "return", "stopped"},
         Goto(pc) \/ Loop
  PROVE  disp' \in [pc : {"wait", "judge", "asr", "emit", "call", "return", "stopped"},
                    event : Events \cup {NoEvent}]
  BY DEF TypeOK, Goto, Loop

LEMMA ReceiveInv ==
  ASSUME IInv, Receive
  PROVE  IInv'
  <1>1. /\ Head(events) \in Events /\ events' \in Seq(Events)
        /\ Len(events') = Len(events) - 1 /\ Len(events) \in Nat
    BY HeadTailProperties, LenProperties DEF Receive, IInv, TypeOK
  <1>2. Counted'
    BY <1>1, LenProperties, BoundsAssumption DEF Receive, IInv, TypeOK, Counted
  <1> QED
    BY <1>1, <1>2 DEF Receive, IInv, TypeOK, EndFits, OnlyLast, Busy, Live, Latest

\* The steps that only look at an event, or at the state under the mutex.
LEMMA LookInv ==
  ASSUME IInv, Wake \/ Stop \/ Judge \/ Return
  PROVE  IInv'
  <1>1. disp' \in [pc : {"wait", "judge", "asr", "emit", "call", "return", "stopped"},
                   event : Events \cup {NoEvent}]
    BY DispType DEF Wake, Stop, Judge, Return, IInv
  <1>2. /\ wake' \in BOOLEAN
        /\ UNCHANGED <<attempts, spent, thoughts, asr, pending, events, closed>>
    BY DEF Wake, Stop, Judge, Return, IInv, TypeOK
  <1> QED BY <1>1, <1>2, QuietInv DEF IInv, TypeOK

LEMMA JudgeASRInv ==
  ASSUME IInv, JudgeASR
  PROVE  IInv'
  <1>1. CASE Busy /\ Slots # {}
    <2>1. Chosen \in Nat /\ Latest \in 1..MaxAttempts
      BY <1>1, ChosenType, BusyLatest DEF IInv, TypeOK
    <2>2. disp' \in [pc : {"wait", "judge", "asr", "emit", "call", "return", "stopped"},
                     event : Events \cup {NoEvent}]
      <3>1. disp' = [pc |-> "emit",
                     event |-> [att |-> Latest, kind |-> "asr", rev |-> Chosen]]
        BY <1>1 DEF JudgeASR
      <3>2. [att |-> Latest, kind |-> "asr", rev |-> Chosen] \in Events
        BY <2>1 DEF Events
      <3> QED BY <3>1, <3>2
    <2>3. asr' \in Sessions
      <3>1. asr' \in {[asr EXCEPT !.activity = 0], [asr EXCEPT !.pending = 0]}
        BY <1>1 DEF JudgeASR
      <3>2. asr \in Sessions
        BY DEF IInv, TypeOK
      <3> QED BY <3>1, <3>2 DEF Sessions
    <2>4. wake' \in BOOLEAN
      BY <1>1 DEF JudgeASR, Again, IInv, TypeOK
    <2>5. UNCHANGED <<attempts, spent, thoughts, pending, events, closed>>
      BY DEF JudgeASR
    <2> QED BY <2>2, <2>3, <2>4, <2>5, QuietInv DEF IInv, TypeOK
  <1>2. CASE ~(Busy /\ Slots # {})
    <2>1. disp' \in [pc : {"wait", "judge", "asr", "emit", "call", "return", "stopped"},
                     event : Events \cup {NoEvent}]
      BY <1>2, DispType DEF JudgeASR, IInv
    <2>2. UNCHANGED <<attempts, spent, thoughts, asr, wake, pending, events, closed>>
      BY <1>2 DEF JudgeASR
    <2> QED BY <2>1, <2>2, QuietInv DEF IInv, TypeOK
  <1> QED BY <1>1, <1>2

\* Showing an event marks its attempt, if there is one, and keeps its state.
LEMMA EmitInv ==
  ASSUME IInv, Emit
  PROVE  IInv'
  <1> DEFINE e == disp.event
             i == e.att
             told == attempts[i].told \/ e.kind = "end"
             shown == IF e.kind = "asr" THEN e.rev ELSE attempts[i].shown
             late == IF e.kind \in {"content", "asr"} /\ ~Live(i)
                     THEN attempts[i].late + 1 ELSE attempts[i].late
             marked == [attempts[i] EXCEPT !.told = told, !.shown = shown, !.late = late]
  <1>1. e.rev \in Nat
    BY DEF IInv, TypeOK, Events, NoEvent
  <1>2. /\ attempts' \in Seq(Attempts) /\ Len(attempts') = Len(attempts)
        /\ \A j \in 1..Len(attempts) : attempts'[j].state = attempts[j].state
    <2>1. CASE i \in DOMAIN attempts
      <3>1. attempts[i] \in Attempts /\ i \in 1..Len(attempts)
        BY <2>1, LenProperties, ElementOfSeq DEF IInv, TypeOK
      <3>2. told \in BOOLEAN /\ shown \in Nat /\ late \in Nat
        BY <1>1, <3>1 DEF Attempts
      <3>3. attempts' = [attempts EXCEPT ![i] = marked]
        BY <2>1 DEF Emit
      <3> HIDE DEF told, shown, late
      <3>4. marked \in Attempts /\ marked.state = attempts[i].state
        BY <3>1, <3>2 DEF Attempts
      <3> HIDE DEF marked
      <3> QED BY <3>1, <3>3, <3>4, ExceptSeq DEF IInv, TypeOK
    <2>2. CASE i \notin DOMAIN attempts
      <3>1. attempts' = attempts
        BY <2>2, LenProperties DEF Emit, IInv, TypeOK
      <3> QED BY <3>1 DEF IInv, TypeOK
    <2> QED BY <2>1, <2>2
  <1>3. disp' \in [pc : {"wait", "judge", "asr", "emit", "call", "return", "stopped"},
                   event : Events \cup {NoEvent}]
    BY DispType DEF Emit, IInv
  <1>4. UNCHANGED <<spent, thoughts, asr, wake, pending, events, closed>>
    BY DEF Emit
  <1> QED BY <1>2, <1>3, <1>4, QuietInv DEF IInv, TypeOK

\* Playback called by the window is a handler like any other.
LEMMA AcknowledgeInv ==
  ASSUME IInv, Acknowledge
  PROVE  IInv'
  <1>1. disp' \in [pc : {"wait", "judge", "asr", "emit", "call", "return", "stopped"},
                   event : Events \cup {NoEvent}]
    BY DispType DEF Acknowledge, IInv
  <1>2. CASE Live(disp.event.att) /\ MayQueue(1) /\ Queue(<<"fact">>)
              /\ UNCHANGED <<attempts, thoughts, asr, wake, events, closed>>
    <2>1. <<"fact">> \in Seq(Kinds) /\ Len(<<"fact">>) = 1
      BY KindsType DEF Kinds
    <2>2. Busy /\ Free
      BY <1>2 DEF Acknowledge, IInv, OnlyLast, Busy, Live
    <2>3. asr' \in Sessions /\ wake' \in BOOLEAN
      BY <1>2 DEF IInv, TypeOK
    <2> QED BY <1>1, <1>2, <2>1, <2>2, <2>3, KeepsTurnInv
  <1>3. CASE /\ Live(disp.event.att) /\ UNCHANGED closed
             /\ \E state \in {"incomplete", "closed"} : Ending(state, 2)
    <2>1. Busy /\ Free
      BY <1>3 DEF Acknowledge, IInv, OnlyLast, Busy, Live
    <2>2. PICK state \in {"incomplete", "closed"} : Ending(state, 2)
      BY <1>3
    <2>3. 2 \in 2..EndEvents
      BY BoundsAssumption
    <2> QED BY <1>1, <1>3, <2>1, <2>2, <2>3, EndingInv DEF IInv, TypeOK
  <1>4. CASE UNCHANGED <<attempts, spent, thoughts, asr, wake, pending, events, closed>>
    BY <1>1, <1>4, QuietInv DEF IInv, TypeOK
  <1> QED BY <1>2, <1>3, <1>4 DEF Acknowledge

-----------------------------------------------------------------------------
(* The theorems *)

\* At the start nothing is queued and nothing is live.
LEMMA InitInv == Init => IInv
  <1> SUFFICES ASSUME Init PROVE IInv
    OBVIOUS
  <1>1. TypeOK
    <2>1. asr \in Sessions
      BY DEF Init, NoSession, Sessions
    <2>2. /\ attempts \in Seq(Attempts) /\ Len(attempts) <= MaxAttempts
          /\ pending \in Seq(Events) /\ events \in Seq(Events)
      BY EmptySeq, BoundsAssumption DEF Init
    <2>3. spent \in 0..AttemptEvents /\ thoughts \in 0..ThinkingDeltas
      BY BoundsAssumption DEF Init
    <2> QED BY <2>1, <2>2, <2>3 DEF Init, TypeOK
  <1>2. DOMAIN attempts = {} /\ Len(events) = 0 /\ Len(pending) = 0
    BY EmptySeq DEF Init
  <1> QED
    BY <1>1, <1>2, BoundsAssumption
    DEF Init, IInv, Counted, EndFits, OnlyLast, Busy, Live

\* Every step of a handler, of a send or of the dispatcher keeps the invariant.
LEMMA NextInv == IInv /\ [Next]_vars => IInv'
  <1> SUFFICES ASSUME IInv, [Next]_vars PROVE IInv'
    OBVIOUS
  <1>1. CASE Handler
    BY <1>1, StartInv, ContinueInv, ProduceInv, ThinkInv, EndInv, ReceiveASRInv,
       AcceptInv, CloseInv DEF Handler
  <1>2. CASE Send
    BY <1>2, SendInv
  <1>3. CASE Dispatch
    BY <1>3, ReceiveInv, LookInv, JudgeASRInv, EmitInv, AcknowledgeInv DEF Dispatch
  <1>4. CASE UNCHANGED vars
    BY <1>4 DEF vars, IInv, TypeOK, Counted, EndFits, OnlyLast, Busy, Live, Latest
  <1> QED BY <1>1, <1>2, <1>3, <1>4 DEF Next

\* The variables keep their types; above all, no attempt queues more events than
\* its budget (InteractionEngine, queueLocked).
THEOREM TypeInvariant == Spec => []TypeOK
  <1>1. IInv => TypeOK
    BY DEF IInv
  <1> QED BY <1>1, InitInv, NextInv, PTL DEF Spec

\* queueLocked: "producers never block under the state mutex", for every size of
\* the channel that holds Reserve events and those of one attempt, if its
\* thinking deltas are among them.
THEOREM NoProducerBlocks ==
  ASSUME ThinkingFits
  PROVE  Spec => []ProducersNeverBlock
  <1>1. IInv => ProducersNeverBlock
    <2> SUFFICES ASSUME IInv, pending # <<>> PROVE Len(events) < Capacity
      BY DEF ProducersNeverBlock, Free
    <2>1. Len(pending) >= 1 /\ Len(pending) \in Nat /\ Len(events) \in Nat
      BY EmptySeq, LenProperties DEF IInv, TypeOK
    <2> QED BY <2>1, BoundsAssumption DEF IInv, TypeOK, Counted, ThinkingFits
  <1> QED BY <1>1, InitInv, NextInv, PTL DEF Spec

-----------------------------------------------------------------------------
(* The launchers (LocalStack) *)

ProcStates == {"starting", "bound", "ready", "closing", "gone", "reused"}
Process == [name : Names, state : ProcStates, by : Actors \cup {Nobody}]
Entry == [proc : Nat, started : BOOLEAN]
ActPcs == {"idle", "start", "ready", "window", "undo", "stop", "done", "failed", "killed", "new", "watch", "try", "end"}
Act == [pc : ActPcs, step : Nat \ {0}, proc : Nat, child : BOOLEAN, mem : [Names -> Entry],
        before : [Names -> Entry], app : Entry, tries : Nat]

\* Those that hold the lifecycle lock.
InRun == {"start", "ready", "window", "undo", "stop"}

Up(ps, p) == ps[p].state \in {"starting", "bound", "ready"}

\* A record is of a process of its name.
Named(ps, m) ==
  /\ m \in [Names -> Entry]
  /\ \A n \in Names : m[n].proc # 0 => m[n].proc \in DOMAIN ps /\ ps[m[n].proc].name = n

\* So are those of processes.json, the resident's of services that answered
\* once; a port has one owner.
ProcsHold(ps, dk) ==
  /\ ps \in Seq(Process) /\ Named(ps, dk)
  /\ Resident => \A n \in Ports : dk[n].proc # 0 => ps[dk[n].proc].state \notin {"starting", "bound"}
  /\ \A p, q \in DOMAIN ps :
       ps[p].name = ps[q].name /\ ps[p].name \in Ports
       /\ ps[p].state \in {"bound", "ready"} /\ ps[q].state \in {"bound", "ready"} => p = q

\* What a command knows: its records are of processes of their names; the
\* resident's keeps what processes.json holds, and the process it waits for is
\* that of the record, or the record's does not run any more.
CommandHolds(r, ps, dk) ==
  /\ r.child => r.pc \in {"ready", "killed"}
  /\ r.pc \in {"start", "ready", "window"} => Named(ps, r.mem) /\ (Resident => r.mem = dk)
  /\ r.pc = "ready" =>
       /\ r.step <= Len(Order) /\ Order[r.step] \in Ports
       /\ r.proc \in DOMAIN ps /\ ps[r.proc].name = Order[r.step]
       /\ Resident /\ dk[Order[r.step]].proc \notin {0, r.proc} => ~Up(ps, dk[Order[r.step]].proc)

\* What commands have in hand.
Hand(ac) == {ac[c].proc : c \in {c \in Commands : ac[c].child}}

\* What was started and runs is recorded or in hand; a window also while it was
\* asked to quit, which the user may refuse.
Runs(ps, p) == Up(ps, p) \/ (ps[p].state = "closing" /\ ps[p].name \in Apps)
Findable(ps, dk, hand) ==
  \A p \in DOMAIN ps : ps[p].by # Nobody /\ Runs(ps, p) => dk[ps[p].name].proc = p \/ p \in hand

Exclusive == \A a \in Actors : act[a].pc \in InRun => lock = a
LInv ==
  /\ act \in [Actors -> Act] /\ ProcsHold(procs, disk) /\ Exclusive
  /\ \A c \in Commands : CommandHolds(act[c], procs, disk)
  /\ Resident => Findable(procs, disk, Hand(act))

\* Processes are added, keep their names, and a service that does not run any
\* more never runs again.
Later(ps, qs) ==
  /\ DOMAIN ps \subseteq DOMAIN qs
  /\ \A p \in DOMAIN ps : /\ qs[p].name = ps[p].name
                          /\ ps[p].name \in Ports /\ ~Up(ps, p) => ~Up(qs, p)

LEMMA SeqProcs ==
  ASSUME NEW ps \in Seq(Process)
  PROVE  /\ Len(ps) \in Nat /\ DOMAIN ps = 1 .. Len(ps) /\ ps \in [1 .. Len(ps) -> Process]
         /\ \A p \in DOMAIN ps : p \in Nat /\ p # 0 /\ ps[p] \in Process
  OBVIOUS

LEMMA CommandStays ==
  ASSUME NEW r, NEW ps, NEW qs, NEW dk, CommandHolds(r, ps, dk), Later(ps, qs), ProcsHold(ps, dk), r.step \in Nat \ {0},
         LaunchersAssumption
  PROVE  CommandHolds(r, qs, dk)
  <1>1. ASSUME r.pc = "ready"
        PROVE  /\ r.proc \in DOMAIN qs /\ qs[r.proc].name = Order[r.step]
               /\ Resident /\ dk[Order[r.step]].proc \notin {0, r.proc} => ~Up(qs, dk[Order[r.step]].proc)
    <2>1. /\ Order[r.step] \in Ports /\ Order[r.step] \in Names
          /\ r.proc \in DOMAIN ps /\ ps[r.proc].name = Order[r.step]
          /\ Resident /\ dk[Order[r.step]].proc \notin {0, r.proc} => ~Up(ps, dk[Order[r.step]].proc)
      BY <1>1 DEF CommandHolds, Names
    <2>2. r.proc \in DOMAIN qs /\ qs[r.proc].name = Order[r.step]
      BY <2>1 DEF Later
    <2>3. ASSUME Resident, dk[Order[r.step]].proc \notin {0, r.proc}
          PROVE  ~Up(qs, dk[Order[r.step]].proc)
      BY <2>1, <2>3 DEF ProcsHold, Named, Later
    <2> QED BY <2>2, <2>3
  <1>2. Named(ps, r.mem) => Named(qs, r.mem)
    BY DEF Named, Later
  <1> QED BY <1>1, <1>2 DEF CommandHolds

\* A step of some actors, that changes processes.json only under the lock.
LEMMA ActsMove ==
  ASSUME LaunchersAssumption, LInv, act' \in [Actors -> Act], ProcsHold(procs', disk'), Later(procs, procs'),
         \A a \in Actors : act'[a].pc \in InRun => lock' = a,
         \A c \in Commands : act'[c] # act[c] => CommandHolds(act'[c], procs', disk'),
         \/ disk' = disk
         \/ \A c \in Commands : act'[c] = act[c] =>
              act[c].pc \notin InRun \/ CommandHolds(act'[c], procs', disk'),
         Resident => Findable(procs', disk', Hand(act'))
  PROVE  LInv'
  <1>1. ASSUME NEW c \in Commands
        PROVE  CommandHolds(act'[c], procs', disk')
    <2>1. CASE act'[c] # act[c]
      BY <2>1
    <2>2. CASE act'[c] = act[c]
      <3>1. CommandHolds(act[c], procs, disk) /\ act[c].step \in Nat \ {0}
        BY DEF LInv, Actors, Act
      <3>2. CASE disk' = disk
        BY <2>2, <3>1, <3>2, CommandStays DEF LInv
      <3>3. CASE act[c].pc \notin InRun
        BY <2>2, <3>1, <3>3 DEF CommandHolds, InRun
      <3> QED BY <2>2, <3>2, <3>3
    <2> QED BY <2>1, <2>2
  <1> QED BY <1>1 DEF LInv, Exclusive

\* The step of one.
LEMMA OneActs ==
  ASSUME LaunchersAssumption, LInv, NEW a \in Actors, NEW r \in Act, act' = [act EXCEPT ![a] = r],
         ProcsHold(procs', disk'), Later(procs, procs'), r.pc \in InRun => lock' = a,
         lock' = lock \/ lock \in {a, Nobody},
         a \in Commands => CommandHolds(r, procs', disk'),
         disk' = disk \/ lock = a,
         Resident => Findable(procs', disk', Hand(act'))
  PROVE  LInv'
  <1>1. act' \in [Actors -> Act] /\ \A b \in Actors : act'[b] = IF b = a THEN r ELSE act[b]
    BY DEF LInv
  <1>2. ASSUME NEW b \in Actors, act'[b].pc \in InRun
        PROVE  lock' = b
    BY <1>1, <1>2 DEF LInv, Exclusive, LaunchersAssumption
  <1>3. \A c \in Commands : act'[c] # act[c] => CommandHolds(act'[c], procs', disk')
    BY <1>1 DEF Actors
  <1>4. ASSUME disk' # disk, NEW c \in Commands, act'[c] = act[c], act[c].pc \in InRun
        PROVE  CommandHolds(act'[c], procs', disk')
    <2>1. c = a
      BY <1>4 DEF LInv, Exclusive, Actors
    <2> QED BY <1>1, <2>1
  <1> QED BY <1>1, <1>2, <1>3, <1>4, ActsMove

\* What becomes of a process.
MayBecome(ps, p, s) ==
  \/ s \in {"gone", "reused"}
  \/ s = "closing" /\ ps[p].state \in {"starting", "bound", "ready", "closing"}
  \/ /\ s = "bound" /\ ps[p].state = "starting"
     /\ \A q \in DOMAIN ps : ps[q].name = ps[p].name => ps[q].state \notin {"bound", "ready"}
  \/ s = "ready" /\ ps[p].state = "bound"
  \/ s = "ready" /\ ps[p].name \in Apps /\ ps[p].state \in {"starting", "closing"}

Became(ps, qs, p, s) ==
  /\ DOMAIN qs = DOMAIN ps /\ qs[p].state = s
  /\ \A q \in DOMAIN ps : /\ qs[q].by = ps[q].by /\ qs[q].name = ps[q].name
                          /\ Runs(qs, q) => Runs(ps, q)

LEMMA Becomes ==
  ASSUME LaunchersAssumption, NEW ps, NEW qs, NEW dk, ProcsHold(ps, dk), NEW p \in DOMAIN ps, NEW s \in ProcStates,
         qs = [ps EXCEPT ![p].state = s], MayBecome(ps, p, s)
  PROVE  ProcsHold(qs, dk) /\ Later(ps, qs) /\ Became(ps, qs, p, s)
  <1>1. /\ ps \in Seq(Process) /\ Named(ps, dk) /\ ps[p] \in Process
        /\ \A q \in DOMAIN ps : ps[q] \in Process
    BY SeqProcs DEF ProcsHold
  <1>2. [ps[p] EXCEPT !.state = s] \in Process
    BY <1>1 DEF Process
  <1>3. /\ qs \in Seq(Process) /\ DOMAIN qs = DOMAIN ps
        /\ \A q \in DOMAIN ps : q # p => qs[q] = ps[q]
        /\ qs[p].name = ps[p].name /\ qs[p].by = ps[p].by /\ qs[p].state = s
    <2>1. qs = [ps EXCEPT ![p] = [ps[p] EXCEPT !.state = s]]
      BY <1>1
    <2>2. qs \in Seq(Process) /\ DOMAIN qs = DOMAIN ps
      BY <2>1, <1>1, <1>2, SeqProcs
    <2>3. \A q \in DOMAIN ps : qs[q] = IF q = p THEN [ps[p] EXCEPT !.state = s] ELSE ps[q]
      BY <2>1, <1>1, SeqProcs
    <2> QED BY <2>2, <2>3, <1>1 DEF Process
  <1>4. /\ Named(qs, dk)
        /\ Resident => \A n \in Ports : dk[n].proc # 0 => qs[dk[n].proc].state \notin {"starting", "bound"}
    <2>1. Named(qs, dk)
      BY <1>1, <1>3 DEF Named
    <2>2. ASSUME Resident, NEW n \in Ports, dk[n].proc # 0
          PROVE  qs[dk[n].proc].state \notin {"starting", "bound"}
      <3>1. /\ dk[n].proc \in DOMAIN ps /\ ps[dk[n].proc].name = n /\ n \notin Apps
            /\ ps[dk[n].proc].state \notin {"starting", "bound"}
        BY <1>1, <2>2 DEF ProcsHold, Named, Names, LaunchersAssumption
      <3> QED BY <3>1, <1>3 DEF MayBecome
    <2> QED BY <2>1, <2>2
  <1>5. ASSUME NEW q \in DOMAIN qs, NEW u \in DOMAIN qs, qs[q].name = qs[u].name, qs[q].name \in Ports,
               qs[q].state \in {"bound", "ready"}, qs[u].state \in {"bound", "ready"}
        PROVE  q = u
    BY <1>3, <1>5 DEF ProcsHold, LaunchersAssumption, MayBecome
  <1>6. ProcsHold(qs, dk)
    BY <1>1, <1>3, <1>4, <1>5 DEF ProcsHold
  <1>7. \A q \in DOMAIN ps : Runs(qs, q) => Runs(ps, q)
    BY <1>3, <1>1 DEF Runs, Up, Process, ProcStates, MayBecome
  <1>8. \A q \in DOMAIN ps : ps[q].name \in Ports /\ ~Up(ps, q) => ~Up(qs, q)
    BY <1>3, <1>1 DEF Up, LaunchersAssumption, MayBecome
  <1> QED BY <1>3, <1>6, <1>7, <1>8 DEF Later, Became

\* A process is started.
MayCome(ps, x) ==
  \/ x.state = "starting"
  \/ x.name \in Apps
  \/ \A q \in DOMAIN ps : ps[q].name = x.name => ps[q].state \notin {"bound", "ready"}
Grown(ps, qs, x) ==
  LET new == Len(ps) + 1 IN
  /\ DOMAIN qs = DOMAIN ps \cup {new} /\ qs[new] = x
  /\ new \notin DOMAIN ps /\ new \in Nat \ {0} /\ \A q \in DOMAIN ps : qs[q] = ps[q]

LEMMA Spawns ==
  ASSUME LaunchersAssumption, NEW ps, NEW qs, NEW dk, ProcsHold(ps, dk), NEW x \in Process,
         qs = Append(ps, x), MayCome(ps, x)
  PROVE  ProcsHold(qs, dk) /\ Later(ps, qs) /\ Grown(ps, qs, x)
  <1>1. /\ ps \in Seq(Process) /\ Named(ps, dk)
        /\ DOMAIN ps = 1 .. Len(ps) /\ Len(ps) \in Nat
    BY SeqProcs DEF ProcsHold
  <1>2. /\ qs \in Seq(Process) /\ Len(qs) = Len(ps) + 1 /\ DOMAIN qs = 1 .. Len(ps) + 1
        /\ qs[Len(ps) + 1] = x /\ \A q \in DOMAIN ps : qs[q] = ps[q]
    BY <1>1, AppendProperties
  <1>3. DOMAIN qs = DOMAIN ps \cup {Len(ps) + 1} /\ Len(ps) + 1 \notin DOMAIN ps /\ Len(ps) + 1 \in Nat \ {0}
    BY <1>1, <1>2
  <1>4. ASSUME NEW q \in DOMAIN qs, NEW u \in DOMAIN qs, qs[q].name = qs[u].name, qs[q].name \in Ports,
               qs[q].state \in {"bound", "ready"}, qs[u].state \in {"bound", "ready"}
        PROVE  q = u
    BY <1>2, <1>3, <1>4 DEF ProcsHold, LaunchersAssumption, MayCome
  <1>5. ProcsHold(qs, dk)
    <2>1. Named(qs, dk)
      BY <1>1, <1>2, <1>3 DEF Named
    <2>2. ASSUME Resident, NEW n \in Ports, dk[n].proc # 0
          PROVE  qs[dk[n].proc].state \notin {"starting", "bound"}
      BY <1>1, <1>2, <2>2 DEF ProcsHold, Named, Names
    <2> QED BY <1>2, <1>4, <2>1, <2>2 DEF ProcsHold
  <1>6. Later(ps, qs)
    BY <1>2, <1>3 DEF Later, Up
  <1> QED BY <1>2, <1>3, <1>5, <1>6 DEF Grown

\* What stays in hand.
LEMMA Hands ==
  ASSUME NEW ac \in [Actors -> Act], NEW a \in Actors, NEW r \in Act, NEW ac2, ac2 = [ac EXCEPT ![a] = r]
  PROVE  /\ \A p \in Hand(ac) : p \in Hand(ac2) \/ (a \in Commands /\ ac[a].child /\ p = ac[a].proc)
         /\ a \in Commands /\ r.child => r.proc \in Hand(ac2)
         /\ a \in Commands /\ r.child = ac[a].child /\ r.proc = ac[a].proc => Hand(ac) \subseteq Hand(ac2)
  <1>1. \A b \in Actors : ac2[b] = IF b = a THEN r ELSE ac[b]
    OBVIOUS
  <1> QED BY <1>1 DEF Hand, Actors

LEMMA OverActs ==
  ASSUME NEW pc \in ActPcs
  PROVE  Over(pc) \in Act /\ Over(pc).pc = pc /\ ~Over(pc).child
  <1>1. Nothing \in [Names -> Entry] /\ NoRecord \in Entry
    BY DEF Nothing, NoRecord, Entry
  <1> HIDE DEF Nothing, NoRecord
  <1>2. Resting \in Act
    BY <1>1 DEF Resting, Act, ActPcs
  <1> QED BY <1>2 DEF Over, Resting, Act

\* A step that leaves processes and records alone.
LEMMA Quiet ==
  ASSUME LaunchersAssumption, LInv, NEW a \in Actors, NEW r \in Act, act' = [act EXCEPT ![a] = r],
         UNCHANGED <<procs, disk>>, r.pc \in InRun => lock' = a, lock' = lock \/ lock \in {a, Nobody},
         a \in Commands => /\ CommandHolds(r, procs, disk)
                           /\ act[a].child => r.child /\ r.proc = act[a].proc
  PROVE  LInv'
  <1>1. Later(procs, procs') /\ ProcsHold(procs', disk')
    BY DEF Later, LInv
  <1>2. \A p \in Hand(act) : p \in Hand(act')
    BY Hands, Zenon DEF LInv
  <1>3. Resident => Findable(procs', disk', Hand(act'))
    BY <1>2 DEF LInv, Findable
  <1> QED BY <1>1, <1>3, OneActs

\* Only while it waits for a service does a command have one in hand.
LEMMA NotInHand ==
  ASSUME LInv, NEW a \in Actors
  PROVE  /\ act[a] \in Act
         /\ a \in Commands => CommandHolds(act[a], procs, disk)
         /\ a \in Commands /\ act[a].pc \notin {"ready", "killed"} => ~act[a].child
         /\ act[a].pc \in InRun => lock = a
  BY DEF LInv, CommandHolds, Exclusive

\* A window that was found runs under its name.
LEMMA FoundIsNamed ==
  ASSUME LInv
  PROVE  Named(procs, Found)
  <1>1. procs \in Seq(Process) /\ \A p \in DOMAIN procs : p \in Nat
    BY SeqProcs DEF LInv, ProcsHold
  <1>2. ASSUME NEW n \in Names
        PROVE  Found[n] \in Entry /\ (Found[n].proc # 0 => Found[n].proc \in DOMAIN procs /\ procs[Found[n].proc].name = n)
    <2>1. CASE n \in Apps /\ RunningAs(n) # {}
      <3>1. PICK p : p \in RunningAs(n) /\ Found[n] = [proc |-> p, started |-> FALSE]
        BY <1>2, <2>1 DEF Found
      <3> QED BY <3>1, <1>1 DEF RunningAs, Entry
    <2>2. CASE ~(n \in Apps /\ RunningAs(n) # {})
      <3>1. Found[n] = NoRecord
        BY <1>2, <2>2, Zenon DEF Found
      <3> QED BY <3>1 DEF NoRecord, Entry
    <2> QED BY <2>1, <2>2
  <1>3. DOMAIN Found = Names /\ Found = [n \in Names |-> Found[n]]
    BY DEF Found
  <1> QED BY <1>2, <1>3 DEF Named

LEMMA BeginStartHolds ==
  ASSUME LaunchersAssumption, LInv, NEW c \in Commands, BeginStart(c)
  PROVE  LInv'
  <1> DEFINE m == IF Resident THEN disk ELSE Found
             r == [act[c] EXCEPT !.pc = "start", !.before = disk, !.mem = m]
  <1>1. c \in Actors /\ act[c] \in Act /\ ~act[c].child /\ disk \in [Names -> Entry] /\ Named(procs, disk)
    BY NotInHand DEF Actors, LInv, BeginStart, ProcsHold, Named
  <1>4. Named(procs, m) /\ m \in [Names -> Entry] /\ (Resident => m = disk)
    BY <1>1, FoundIsNamed DEF Named
  <1> HIDE DEF m
  <1>2. CASE act' = [act EXCEPT ![c] = Over("failed")] /\ UNCHANGED lock
    <2>1. Over("failed") \in Act /\ Over("failed").pc = "failed" /\ ~Over("failed").child
      BY OverActs DEF ActPcs
    <2> QED BY <1>1, <1>2, <2>1, Quiet DEF BeginStart, CommandHolds, InRun
  <1>3. CASE act' = [act EXCEPT ![c] = r] /\ lock' = c
    <2>1. r \in Act /\ r.pc = "start" /\ r.mem = m /\ r.child = act[c].child /\ r.proc = act[c].proc
      BY <1>1, <1>4 DEF Act, ActPcs
    <2> HIDE DEF r
    <2> QED BY <1>1, <1>3, <1>4, <2>1, Quiet DEF BeginStart, CommandHolds, InRun
  <1> QED BY <1>2, <1>3 DEF BeginStart, Set, m

LEMMA BeginStopHolds ==
  ASSUME LaunchersAssumption, LInv, NEW c \in Commands, BeginStop(c)
  PROVE  LInv'
  <1> DEFINE r == [act[c] EXCEPT !.pc = "stop", !.mem = disk]
  <1>1. c \in Actors /\ act[c] \in Act /\ ~act[c].child /\ disk \in [Names -> Entry]
    BY NotInHand DEF Actors, LInv, BeginStop, ProcsHold, Named
  <1>2. r \in Act /\ r.pc = "stop" /\ r.child = act[c].child /\ r.proc = act[c].proc
    BY <1>1 DEF Act, ActPcs
  <1>3. act' = [act EXCEPT ![c] = r]
    BY DEF BeginStop, Set
  <1> HIDE DEF r
  <1> QED BY <1>1, <1>2, <1>3, Quiet DEF BeginStop, CommandHolds, InRun

LEMMA RefusedHolds ==
  ASSUME LaunchersAssumption, LInv, NEW c \in Commands, Refused(c)
  PROVE  LInv'
  <1>1. c \in Actors /\ act[c] \in Act /\ ~act[c].child
    BY NotInHand DEF Actors, LInv, Refused
  <1>2. Over("failed") \in Act /\ Over("failed").pc = "failed" /\ ~Over("failed").child
    BY OverActs DEF ActPcs
  <1> QED BY <1>1, <1>2, Quiet DEF Refused, Set, CommandHolds, InRun

\* The process that answers is the one of the record, or the record's is over.
LEMMA EnsureServiceHolds ==
  ASSUME LaunchersAssumption, LInv, NEW c \in Commands, EnsureService(c)
  PROVE  LInv'
  <1> DEFINE n == Due(c)
  <1>1. c \in Actors /\ act[c] \in Act /\ ~act[c].child /\ CommandHolds(act[c], procs, disk)
        /\ act[c].pc = "start" /\ lock = c
    BY NotInHand DEF Actors, EnsureService, Starting, InRun
  <1>2. /\ n \in Ports /\ n \in Names /\ n = Order[act[c].step] /\ act[c].step <= Len(Order)
        /\ ProcsHold(procs, disk) /\ procs \in Seq(Process) /\ UNCHANGED <<disk, lock>>
    BY DEF EnsureService, Starting, Due, Names, LInv, ProcsHold, KeepLock
  <1>3. PICK p \in Listener(n) :
          IF p # 0
          THEN /\ Set(c, [act[c] EXCEPT !.pc = "ready", !.proc = p, !.child = FALSE])
               /\ UNCHANGED procs
          ELSE /\ Len(procs) < MaxProcesses
               /\ Set(c, [act[c] EXCEPT !.pc = "ready", !.proc = Len(procs) + 1, !.child = TRUE])
               /\ procs' = Spawned(n, c)
    BY DEF EnsureService
  <1>4. /\ p # 0 => p \in DOMAIN procs /\ procs[p].name = n
        /\ Resident /\ disk[n].proc # 0 /\ Up(procs, disk[n].proc) => disk[n].proc = p
    <2>1. \A q \in DOMAIN procs : q # 0
      BY <1>2, SeqProcs
    <2>2. Owners(n) = {q \in DOMAIN procs : procs[q].name = n /\ procs[q].state \in {"bound", "ready"}}
      BY <2>1 DEF Owners, RunningAs, Alive
    <2>3. \A q \in Owners(n), u \in Owners(n) : q = u
      BY <2>2, <1>2 DEF ProcsHold
    <2>4. p # 0 => p \in DOMAIN procs /\ procs[p].name = n
      BY <1>3, <2>2 DEF Listener, RunningAs
    <2>5. ASSUME Resident, disk[n].proc # 0, Up(procs, disk[n].proc)
          PROVE  disk[n].proc = p
      <3>1. disk[n].proc \in Owners(n)
        BY <2>5, <2>2, <1>2 DEF ProcsHold, Named, Up
      <3> QED BY <3>1, <2>3, <1>3 DEF Listener
    <2> QED BY <2>4, <2>5
  <1> HIDE DEF n
  <1>5. CASE p # 0
    <2> DEFINE r == [act[c] EXCEPT !.pc = "ready", !.proc = p, !.child = FALSE]
    <2>1. r \in Act /\ r.pc = "ready" /\ r.proc = p /\ ~r.child /\ r.step = act[c].step /\ r.mem = act[c].mem
      BY <1>1, <1>2, <1>4, <1>5, SeqProcs DEF Act, ActPcs
    <2>2. act' = [act EXCEPT ![c] = r] /\ UNCHANGED procs
      BY <1>3, <1>5 DEF Set
    <2> HIDE DEF r
    <2>3. CommandHolds(r, procs, disk)
      BY <2>1, <1>1, <1>2, <1>4, <1>5 DEF CommandHolds
    <2> QED BY <1>1, <1>2, <2>1, <2>2, <2>3, Quiet
  <1>6. CASE p = 0
    <2> DEFINE r == [act[c] EXCEPT !.pc = "ready", !.proc = Len(procs) + 1, !.child = TRUE]
    <2>1. act' = [act EXCEPT ![c] = r] /\ procs' = Append(procs, New(n, c))
      BY <1>3, <1>6 DEF Set, Spawned
    <2>2. New(n, c) \in Process /\ New(n, c).state = "starting" /\ New(n, c).name = n
      BY <1>2, <1>1 DEF New, Process, ProcStates
    <2>9. ProcsHold(procs', disk) /\ Later(procs, procs') /\ Grown(procs, procs', New(n, c))
      BY <1>2, <2>1, <2>2, Spawns, Zenon DEF MayCome
    <2>3. /\ DOMAIN procs' = DOMAIN procs \cup {Len(procs) + 1}
          /\ procs'[Len(procs) + 1] = New(n, c) /\ Len(procs) + 1 \notin DOMAIN procs /\ Len(procs) + 1 \in Nat \ {0}
          /\ \A q \in DOMAIN procs : procs'[q] = procs[q]
      BY <2>9 DEF Grown
    <2>4. r \in Act /\ r.pc = "ready" /\ r.proc = Len(procs) + 1 /\ r.child /\ r.step = act[c].step /\ r.mem = act[c].mem
      BY <1>1, <2>3 DEF Act, ActPcs
    <2> HIDE DEF r
    <2>5. CommandHolds(r, procs', disk')
      <3>1. Resident /\ disk[n].proc \notin {0, r.proc} => ~Up(procs', disk[n].proc)
        BY <1>4, <1>6, <1>2, <2>3 DEF Up, ProcsHold, Named
      <3>2. Named(procs, act[c].mem) => Named(procs', act[c].mem)
        BY <2>3 DEF Named
      <3> QED BY <3>1, <3>2, <2>2, <2>3, <2>4, <1>1, <1>2 DEF CommandHolds
    <2>6. Resident => Findable(procs', disk', Hand(act'))
      <3>1. \A q \in Hand(act) : q \in Hand(act')
        BY <2>1, <2>4, <1>1, Hands, Zenon DEF LInv
      <3>2. r.proc \in Hand(act')
        BY <2>1, <2>4, <1>1, Hands, Zenon DEF LInv
      <3> QED BY <3>1, <3>2, <2>3, <2>4, <1>2 DEF LInv, Findable, Runs, Up
    <2> QED BY <1>1, <1>2, <2>1, <2>9, <2>4, <2>5, <2>6, OneActs
  <1> QED BY <1>5, <1>6

\* A record is written.
LEMMA RecordWritten ==
  ASSUME LaunchersAssumption, NEW ps, NEW dk, ProcsHold(ps, dk), NEW m, Named(ps, m), Resident => m = dk,
         NEW n \in Names, NEW e \in Entry, e.proc \in DOMAIN ps, ps[e.proc].name = n,
         n \in Ports => ps[e.proc].state \notin {"starting", "bound"}
  PROVE  ProcsHold(ps, [m EXCEPT ![n] = e]) /\ Named(ps, [m EXCEPT ![n] = e])
  <1> DEFINE d == [m EXCEPT ![n] = e]
  <1>1. d \in [Names -> Entry] /\ \A k \in Names : d[k] = IF k = n THEN e ELSE m[k]
    BY DEF Named
  <1> HIDE DEF d
  <1>2. Named(ps, d)
    BY <1>1 DEF Named
  <1>3. ProcsHold(ps, d)
    BY <1>1, <1>2 DEF ProcsHold, Named, Names
  <1> QED BY <1>2, <1>3 DEF d

Written(r, pc, step, n, e) ==
  [r EXCEPT !.pc = pc, !.step = step, !.proc = 0, !.child = FALSE, !.mem[n] = e]

LEMMA Remembers ==
  ASSUME NEW r \in Act, NEW n \in Names, NEW e \in Entry, NEW pc \in ActPcs, NEW step \in Nat \ {0}
  PROVE  /\ Written(r, pc, step, n, e) \in Act
         /\ Written(r, pc, step, n, e).pc = pc /\ Written(r, pc, step, n, e).step = step
         /\ ~Written(r, pc, step, n, e).child /\ Written(r, pc, step, n, e).mem = [r.mem EXCEPT ![n] = e]
  <1> DEFINE z == [r EXCEPT !.mem[n] = e]
             y == [z EXCEPT !.pc = pc, !.step = step]
             w == [y EXCEPT !.proc = 0, !.child = FALSE]
  <1>1. Written(r, pc, step, n, e) = w
    BY DEF Written, Act
  <1>2. z \in Act /\ z.mem = [r.mem EXCEPT ![n] = e]
    BY DEF Act
  <1> HIDE DEF z
  <1>3. y \in Act /\ y.mem = z.mem /\ y.pc = pc /\ y.step = step
    BY <1>2 DEF Act
  <1> HIDE DEF y
  <1>4. w \in Act /\ w.mem = y.mem /\ w.pc = y.pc /\ w.step = y.step /\ ~w.child
    BY <1>3 DEF Act
  <1> QED BY <1>1, <1>2, <1>3, <1>4

LEMMA ReadyHolds ==
  ASSUME LaunchersAssumption, LInv, NEW c \in Commands, Ready(c)
  PROVE  LInv'
  <1> DEFINE n == Due(c)
             e == [proc |-> act[c].proc, started |-> act[c].child]
             r == Written(act[c], "start", act[c].step + 1, n, e)
  <1>1. c \in Actors /\ act[c] \in Act /\ CommandHolds(act[c], procs, disk)
        /\ act[c].pc = "ready" /\ lock = c
    BY NotInHand DEF Actors, Ready, InRun
  <1>2. /\ n \in Ports /\ n \in Names /\ ProcsHold(procs, disk) /\ UNCHANGED <<procs, lock>>
        /\ act[c].proc \in DOMAIN procs /\ procs[act[c].proc].name = n
        /\ procs[act[c].proc].state = "ready" /\ Named(procs, act[c].mem) /\ (Resident => act[c].mem = disk)
        /\ Resident /\ disk[n].proc \notin {0, act[c].proc} => ~Up(procs, disk[n].proc)
    BY <1>1 DEF Ready, Due, Names, LInv, KeepLock, CommandHolds
  <1>3. /\ act' = [act EXCEPT ![c] = r] /\ disk' = [act[c].mem EXCEPT ![n] = e]
    BY <1>2 DEF Ready, Remember, Recorded, Set, Written
  <1>4. e \in Entry /\ e.proc = act[c].proc
    BY <1>1 DEF Entry, Act
  <1> HIDE DEF e
  <1>5. Resident => \A m \in Names : disk'[m] = IF m = n THEN e ELSE disk[m]
    BY <1>2, <1>3 DEF ProcsHold, Named
  <1>6. r \in Act /\ r.pc = "start" /\ ~r.child /\ r.mem = disk'
    <2>1. act[c].step + 1 \in Nat \ {0} /\ "start" \in ActPcs
      BY <1>1 DEF Act, ActPcs
    <2>2. r \in Act /\ r.pc = "start" /\ ~r.child /\ r.mem = [act[c].mem EXCEPT ![n] = e]
      BY <2>1, <1>1, <1>2, <1>4, Remembers
    <2> QED BY <2>2, <1>2, <1>3
  <1> HIDE DEF r, n
  <1>7. ProcsHold(procs', disk') /\ Named(procs', disk') /\ Later(procs, procs')
    BY <1>2, <1>3, <1>4, RecordWritten DEF Later
  <1>8. CommandHolds(r, procs', disk')
    BY <1>6, <1>7 DEF CommandHolds
  <1>9. ASSUME Resident
        PROVE  Findable(procs', disk', Hand(act'))
    <2>1. \A q \in Hand(act) : q \in Hand(act') \/ q = act[c].proc
      BY <1>1, <1>3, <1>6, Hands, Zenon DEF LInv
    <2>2. ASSUME NEW q \in DOMAIN procs, procs[q].by # Nobody, Runs(procs, q)
          PROVE  disk'[procs[q].name].proc = q \/ q \in Hand(act')
      <3>0. q # 0 /\ procs[q].name \in Names
        BY <1>2, SeqProcs DEF ProcsHold, Process
      <3>1. CASE procs[q].name = n
        <4>1. Up(procs, q)
          BY <2>2, <3>1, <1>2 DEF Runs, LaunchersAssumption
        <4>2. disk[n].proc = q => q = act[c].proc
          BY <4>1, <1>2, <1>9, <3>0
        <4> QED BY <2>1, <2>2, <3>1, <4>2, <1>4, <1>5, <1>2, <1>9 DEF LInv, Findable
      <3>2. CASE procs[q].name # n
        BY <2>1, <2>2, <3>2, <3>0, <1>5, <1>2, <1>9 DEF LInv, Findable
      <3> QED BY <3>1, <3>2
    <2> QED BY <2>2, <1>2 DEF Findable
  <1> QED BY <1>1, <1>2, <1>3, <1>6, <1>7, <1>8, <1>9, OneActs

\* A window is opened when that of the record is gone.
LEMMA OpenAppHolds ==
  ASSUME LaunchersAssumption, LInv, NEW c \in Commands, OpenApp(c)
  PROVE  LInv'
  <1> DEFINE n == Due(c)
             e == [proc |-> Len(procs) + 1, started |-> TRUE]
             new == Written(act[c], "window", act[c].step, n, e)
  <1>1. c \in Actors /\ act[c] \in Act /\ ~act[c].child /\ CommandHolds(act[c], procs, disk)
        /\ act[c].pc = "start" /\ lock = c /\ Named(procs, act[c].mem) /\ (Resident => act[c].mem = disk)
        /\ act[c].step \in Nat \ {0}
    BY NotInHand DEF Actors, OpenApp, Starting, InRun, CommandHolds, Act
  <1>2. /\ n \in Apps /\ n \in Names /\ n \notin Ports /\ UNCHANGED lock
        /\ ProcsHold(procs, disk) /\ procs \in Seq(Process) /\ disk \in [Names -> Entry]
    BY DEF OpenApp, Starting, Due, Names, LInv, ProcsHold, Named, KeepLock, LaunchersAssumption
  <1>3. \/ \E x \in Entry :
             /\ act' = [act EXCEPT ![c] = Written(act[c], "window", act[c].step, n, x)]
             /\ disk' = [act[c].mem EXCEPT ![n] = x] /\ UNCHANGED procs
             /\ x.proc \in DOMAIN procs /\ procs[x.proc].name = n /\ (Resident => x = disk[n])
        \/ /\ Resident => ~Alive(disk[n].proc)
           /\ act' = [act EXCEPT ![c] = new] /\ disk' = [act[c].mem EXCEPT ![n] = e]
           /\ procs' = Append(procs, New(n, c))
    <2> DEFINE open == IF Resident THEN {p \in {act[c].mem[n].proc} : Alive(p)} ELSE RunningAs(n)
               Was(p) == IF Resident THEN act[c].mem[n] ELSE [proc |-> p, started |-> FALSE]
    <2>1. ASSUME NEW p \in open, Remember(c, Was(p), "window", act[c].step), UNCHANGED procs
          PROVE  \E x \in Entry :
             /\ act' = [act EXCEPT ![c] = Written(act[c], "window", act[c].step, n, x)]
             /\ disk' = [act[c].mem EXCEPT ![n] = x] /\ UNCHANGED procs
             /\ x.proc \in DOMAIN procs /\ procs[x.proc].name = n /\ (Resident => x = disk[n])
      <3>1. /\ act' = [act EXCEPT ![c] = Written(act[c], "window", act[c].step, n, Was(p))]
            /\ disk' = [act[c].mem EXCEPT ![n] = Was(p)]
        BY <2>1 DEF Remember, Recorded, Set, Written
      <3>2. CASE Resident
        <4>1. Was(p) = act[c].mem[n] /\ Alive(act[c].mem[n].proc) /\ act[c].mem[n] = disk[n]
          BY <2>1, <3>2, <1>1
        <4> HIDE DEF Was
        <4>2. Was(p) \in Entry /\ Was(p).proc \in DOMAIN procs /\ procs[Was(p).proc].name = n
          BY <4>1, <1>1, <1>2 DEF Named, Alive
        <4> QED BY <2>1, <3>1, <4>1, <4>2
      <3>3. CASE ~Resident
        <4>1. Was(p) = [proc |-> p, started |-> FALSE] /\ p \in RunningAs(n)
          BY <2>1, <3>3
        <4> HIDE DEF Was
        <4>2. Was(p) \in Entry /\ Was(p).proc \in DOMAIN procs /\ procs[Was(p).proc].name = n
          BY <4>1, <1>2, SeqProcs DEF RunningAs, Entry
        <4> QED BY <2>1, <3>1, <3>3, <4>2
      <3> QED BY <3>2, <3>3
    <2>2. ASSUME open = {}, Remember(c, e, "window", act[c].step), procs' = Spawned(n, c)
          PROVE  /\ Resident => ~Alive(disk[n].proc)
                 /\ act' = [act EXCEPT ![c] = new] /\ disk' = [act[c].mem EXCEPT ![n] = e]
                 /\ procs' = Append(procs, New(n, c))
      BY <2>2, <1>1 DEF Remember, Recorded, Set, Spawned, Written
    <2> QED BY <2>1, <2>2 DEF OpenApp
  <1>4. "window" \in ActPcs
    BY DEF ActPcs
  <1> HIDE DEF n
  <1>5. ASSUME NEW x \in Entry,
               act' = [act EXCEPT ![c] = Written(act[c], "window", act[c].step, n, x)],
               disk' = [act[c].mem EXCEPT ![n] = x], UNCHANGED procs,
               x.proc \in DOMAIN procs, procs[x.proc].name = n, Resident => x = disk[n]
        PROVE  LInv'
    <2> DEFINE old == Written(act[c], "window", act[c].step, n, x)
    <2>1. old \in Act /\ old.pc = "window" /\ ~old.child /\ old.mem = disk'
      BY <1>1, <1>2, <1>4, <1>5, Remembers
    <2>2. act' = [act EXCEPT ![c] = old]
      BY <1>5
    <2> HIDE DEF old
    <2>3. ProcsHold(procs', disk') /\ Named(procs', disk') /\ Later(procs, procs')
      BY <1>1, <1>2, <1>5, RecordWritten DEF Later
    <2>4. CommandHolds(old, procs', disk')
      <3>1. old.pc # "ready" /\ ~old.child /\ old.mem = disk'
        BY <2>1
      <3> QED BY <3>1, <2>3 DEF CommandHolds
    <2>5. ASSUME Resident
          PROVE  Findable(procs', disk', Hand(act'))
      <3>1. disk' = disk
        BY <1>1, <1>2, <1>5, <2>5
      <3>2. \A q \in Hand(act) : q \in Hand(act')
        BY <2>1, <2>2, <1>1, Hands, Zenon DEF LInv
      <3> QED BY <3>1, <3>2, <2>5, <1>5 DEF LInv, Findable
    <2> QED BY <1>1, <1>2, <2>1, <2>2, <2>3, <2>4, <2>5, OneActs
  <1>6. CASE /\ Resident => ~Alive(disk[n].proc)
             /\ act' = [act EXCEPT ![c] = new] /\ disk' = [act[c].mem EXCEPT ![n] = e]
             /\ procs' = Append(procs, New(n, c))
    <2>1. New(n, c) \in Process /\ New(n, c).state = "starting" /\ New(n, c).name = n
      BY <1>2, <1>1 DEF New, Process, ProcStates
    <2>2. ProcsHold(procs', disk) /\ Later(procs, procs') /\ Grown(procs, procs', New(n, c))
      BY <1>2, <1>6, <2>1, Spawns, Zenon DEF MayCome
    <2>3. /\ DOMAIN procs' = DOMAIN procs \cup {Len(procs) + 1}
          /\ procs'[Len(procs) + 1] = New(n, c) /\ Len(procs) + 1 \notin DOMAIN procs /\ Len(procs) + 1 \in Nat \ {0}
          /\ \A q \in DOMAIN procs : procs'[q] = procs[q]
      BY <2>2 DEF Grown
    <2>4. e \in Entry /\ e.proc = Len(procs) + 1
      BY <2>3 DEF Entry
    <2> HIDE DEF e
    <2>5. new \in Act /\ new.pc = "window" /\ ~new.child /\ new.mem = disk'
      <3>1. new \in Act /\ new.pc = "window" /\ ~new.child /\ new.mem = [act[c].mem EXCEPT ![n] = e]
        <4>1. act[c] \in Act /\ n \in Names /\ e \in Entry /\ "window" \in ActPcs /\ act[c].step \in Nat \ {0}
          BY <1>1, <1>2, <1>4, <2>4
        <4> QED BY <4>1, Remembers
      <3> QED BY <3>1, <1>1, <1>6
    <2> HIDE DEF new
    <2>7. ProcsHold(procs', disk') /\ Named(procs', disk')
      <3>1. e.proc \in DOMAIN procs' /\ procs'[e.proc].name = n
        BY <2>1, <2>3, <2>4
      <3>2. Named(procs', act[c].mem)
        BY <1>1, <2>3 DEF Named
      <3> QED BY <3>1, <3>2, <2>2, <2>4, <1>1, <1>2, <1>6, RecordWritten
    <2>6. CommandHolds(new, procs', disk')
      BY <2>5, <2>7 DEF CommandHolds
    <2>8. ASSUME Resident
          PROVE  Findable(procs', disk', Hand(act'))
      <3>1. \A q \in Hand(act) : q \in Hand(act')
        BY <2>5, <1>1, <1>6, Hands, Zenon DEF LInv
      <3>2. ASSUME NEW q \in DOMAIN procs, procs[q].by # Nobody, Runs(procs, q)
            PROVE  disk'[procs[q].name].proc = q \/ q \in Hand(act')
        <4>1. q # 0 /\ procs[q].name \in Names
          BY <1>2, SeqProcs DEF ProcsHold, Process
        <4>2. \A m \in Names : disk'[m] = IF m = n THEN e ELSE disk[m]
          BY <1>1, <1>2, <1>6, <2>8
        <4>3. procs[q].name = n => disk[n].proc # q
          BY <3>2, <4>1, <1>6, <2>8 DEF Alive, Runs, Up
        <4> QED BY <3>1, <3>2, <4>1, <4>2, <4>3, <2>8 DEF LInv, Findable
      <3>3. \A q \in DOMAIN procs : Runs(procs', q) => Runs(procs, q)
        BY <2>3 DEF Runs, Up
      <3>4. disk'[n].proc = Len(procs) + 1
        BY <1>1, <1>2, <1>6, <2>4, <2>8
      <3> QED BY <3>2, <3>3, <3>4, <2>3, <2>1 DEF Findable
    <2> QED BY <1>1, <1>2, <1>6, <2>2, <2>5, <2>6, <2>7, <2>8, OneActs
  <1> QED BY <1>3, <1>5, <1>6

LEMMA WindowReadyHolds ==
  ASSUME LaunchersAssumption, LInv, NEW c \in Commands, WindowReady(c)
  PROVE  LInv'
  <1> DEFINE r == [act[c] EXCEPT !.pc = "start", !.step = act[c].step + 1]
  <1>1. c \in Actors /\ act[c] \in Act /\ ~act[c].child /\ lock = c /\ CommandHolds(act[c], procs, disk)
        /\ act[c].pc = "window"
    BY NotInHand DEF Actors, WindowReady, CommandHolds, InRun
  <1>2. r \in Act /\ r.pc = "start" /\ r.mem = act[c].mem /\ r.child = act[c].child /\ r.proc = act[c].proc
    <2>1. act[c].step + 1 \in Nat \ {0}
      BY <1>1 DEF Act
    <2> DEFINE z == [act[c] EXCEPT !.step = act[c].step + 1]
    <2>2. z \in Act /\ z.mem = act[c].mem /\ z.child = act[c].child /\ z.proc = act[c].proc
      BY <2>1, <1>1 DEF Act
    <2>3. r = [z EXCEPT !.pc = "start"]
      BY <1>1 DEF Act
    <2> HIDE DEF z, r
    <2> QED BY <2>2, <2>3 DEF Act, ActPcs
  <1>3. act' = [act EXCEPT ![c] = r] /\ UNCHANGED <<procs, disk, lock>>
    BY <1>1 DEF WindowReady, Set, KeepLock
  <1> HIDE DEF r
  <1> QED BY <1>1, <1>2, <1>3, Quiet DEF CommandHolds, InRun

\* The start is done; a watcher may be left behind.
LEMMA FinishHolds ==
  ASSUME LaunchersAssumption, LInv, NEW c \in Commands, Finish(c)
  PROVE  LInv'
  <1> DEFINE done == [act EXCEPT ![c] = Over("done")]
  <1>1. c \in Actors /\ act[c] \in Act /\ ~act[c].child /\ lock = c /\ Named(procs, act[c].mem)
        /\ UNCHANGED <<procs, disk>> /\ lock' = Nobody /\ ProcsHold(procs, disk)
    BY NotInHand DEF Actors, Finish, CommandHolds, InRun, Release, LInv
  <1>2. Over("done") \in Act /\ Over("done").pc = "done" /\ ~Over("done").child
    BY OverActs DEF ActPcs
  <1>3. done \in [Actors -> Act] /\ \A a \in Actors : done[a] = IF a = c THEN Over("done") ELSE act[a]
    BY <1>1, <1>2 DEF LInv
  <1>4. CASE act' = done
    BY <1>1, <1>2, <1>4, Quiet DEF CommandHolds, InRun
  <1>5. ASSUME NEW w \in Watchers, act[w].pc = "idle",
               act' = [done EXCEPT ![w].pc = "new", ![w].app = act[c].mem["runtime"]]
        PROVE  LInv'
    <2> DEFINE r == [act[w] EXCEPT !.pc = "new", !.app = act[c].mem["runtime"]]
    <2>1. w \in Actors /\ w # c /\ done[w] = act[w] /\ act[w] \in Act /\ act[c].mem["runtime"] \in Entry
      BY <1>1, <1>3 DEF Actors, LaunchersAssumption, LInv, Names, Named
    <2>2. r \in Act /\ r.pc = "new"
      BY <2>1, <1>1 DEF Act, ActPcs
    <2>3. act' = [done EXCEPT ![w] = r]
      BY <1>5, <1>3, <2>1 DEF Act
    <2> HIDE DEF done, r
    <2>4. act' \in [Actors -> Act]
          /\ \A a \in Actors : act'[a] = IF a = w THEN r ELSE IF a = c THEN Over("done") ELSE act[a]
      BY <2>3, <2>2, <2>1, <1>3
    <2>5. \A a \in Actors : act'[a].pc \in InRun => lock' = a
      BY <2>4, <2>2, <1>2, <1>1 DEF LInv, Exclusive, InRun
    <2>6. \A d \in Commands : act'[d] # act[d] => CommandHolds(act'[d], procs', disk')
      BY <2>4, <1>2 DEF LaunchersAssumption, CommandHolds, Actors
    <2>7. Hand(act) \subseteq Hand(act')
      BY <2>4, <1>1 DEF Hand, Actors, LaunchersAssumption
    <2>8. (Resident => Findable(procs', disk', Hand(act'))) /\ Later(procs, procs')
      BY <2>7, <1>1 DEF LInv, Findable, Later
    <2> QED BY <1>1, <2>4, <2>5, <2>6, <2>8, ActsMove
  <1> QED BY <1>4, <1>5 DEF Finish

\* A step of one that changes what a process is doing.
LEMMA Ends ==
  ASSUME LaunchersAssumption, LInv, NEW a \in Actors, NEW r \in Act, act' = [act EXCEPT ![a] = r], UNCHANGED disk,
         lock' = lock \/ lock \in {a, Nobody}, r.pc \in InRun => lock' = a,
         NEW p \in DOMAIN procs, NEW s \in {"gone", "closing"}, procs' = [procs EXCEPT ![p].state = s],
         s = "closing" => procs[p].state \in {"starting", "bound", "ready", "closing"},
         a \in Commands => CommandHolds(r, procs, disk),
         a \in Commands /\ act[a].child => s = "gone" /\ p = act[a].proc
  PROVE  LInv'
  <1>1. ProcsHold(procs, disk) /\ act \in [Actors -> Act]
    BY DEF LInv
  <1>2. s \in ProcStates /\ MayBecome(procs, p, s)
    BY DEF ProcStates, MayBecome
  <1>3. ProcsHold(procs', disk) /\ Later(procs, procs') /\ Became(procs, procs', p, s)
    BY <1>1, <1>2, Becomes, Zenon
  <1>4. a \in Commands => CommandHolds(r, procs', disk')
    BY <1>1, <1>3, CommandStays DEF Act
  <1>5. \A q \in Hand(act) : q \in Hand(act') \/ (a \in Commands /\ act[a].child /\ q = act[a].proc)
    BY <1>1, Hands, Zenon
  <1>6. s = "gone" => ~Runs(procs', p)
    BY <1>3 DEF Became, Runs, Up
  <1>7. ASSUME Resident
        PROVE  Findable(procs', disk', Hand(act'))
    <2>1. Findable(procs, disk, Hand(act))
      BY <1>7 DEF LInv
    <2>2. ASSUME NEW q \in DOMAIN procs', procs'[q].by # Nobody, Runs(procs', q)
          PROVE  disk'[procs'[q].name].proc = q \/ q \in Hand(act')
      <3>1. q \in DOMAIN procs /\ procs[q].by # Nobody /\ procs[q].name = procs'[q].name /\ Runs(procs, q)
        BY <2>2, <1>3 DEF Became
      <3>2. disk[procs[q].name].proc = q \/ q \in Hand(act)
        BY <2>1, <3>1 DEF Findable
      <3> QED BY <2>2, <3>1, <3>2, <1>5, <1>6
    <2> QED BY <2>2 DEF Findable
  <1> QED BY <1>3, <1>4, <1>7, OneActs

\* A start that fails ends the service it waited for.
LEMMA FailsHolds ==
  ASSUME LaunchersAssumption, LInv, NEW c \in Commands, Fails(c)
  PROVE  LInv'
  <1>1. c \in Actors /\ act[c] \in Act /\ CommandHolds(act[c], procs, disk) /\ act[c].pc \in {"start", "ready", "window"}
        /\ lock = c /\ ProcsHold(procs, disk) /\ UNCHANGED disk
    BY NotInHand DEF Actors, Fails, InRun, LInv
  <1>2. ASSUME NEW r \in Act, act' = [act EXCEPT ![c] = r], CommandHolds(r, procs, disk), ~r.child,
               r.pc \in InRun => lock' = c
        PROVE  LInv'
    <2>1. CASE act[c].pc = "ready" /\ act[c].child
      <3>1. act[c].proc \in DOMAIN procs
        BY <1>1, <2>1 DEF CommandHolds
      <3>2. procs' = [procs EXCEPT ![act[c].proc].state = "gone"]
        BY <2>1 DEF Fails, Become
      <3> QED BY <1>1, <1>2, <3>1, <3>2, Ends
    <2>2. CASE ~(act[c].pc = "ready" /\ act[c].child)
      <3>1. ~act[c].child /\ UNCHANGED procs
        BY <1>1, <2>2 DEF Fails, CommandHolds
      <3> QED BY <1>1, <1>2, <3>1, Quiet
    <2> QED BY <2>1, <2>2
  <1>3. CASE Resident
    <2> DEFINE r == [act[c] EXCEPT !.pc = "undo", !.step = 1, !.proc = 0, !.child = FALSE, !.mem = Created(c)]
    <2>1. act' = [act EXCEPT ![c] = r] /\ lock' = lock
      BY <1>3 DEF Fails, Set
    <2>2. Created(c) \in [Names -> Entry]
      BY <1>1 DEF Created, ProcsHold, Named, NoRecord, Entry
    <2>3. r \in Act /\ r.pc = "undo" /\ ~r.child
      <3> DEFINE z == [act[c] EXCEPT !.mem = Created(c)]
      <3>1. z \in Act
        BY <1>1, <2>2 DEF Act
      <3>2. r = [z EXCEPT !.pc = "undo", !.step = 1, !.proc = 0, !.child = FALSE]
        BY <1>1 DEF Act
      <3> HIDE DEF z, r
      <3> DEFINE x == [z EXCEPT !.step = 1]
                 y == [x EXCEPT !.pc = "undo"]
      <3>3. x \in Act
        BY <3>1 DEF Act
      <3>4. r = [x EXCEPT !.pc = "undo", !.proc = 0, !.child = FALSE]
        BY <3>1, <3>2 DEF Act
      <3> HIDE DEF x
      <3>5. y \in Act /\ y.pc = "undo" /\ r = [y EXCEPT !.proc = 0, !.child = FALSE]
        BY <3>3, <3>4 DEF Act, ActPcs
      <3> HIDE DEF y
      <3> QED BY <3>5 DEF Act
    <2> HIDE DEF r
    <2>4. CommandHolds(r, procs, disk)
      BY <2>3 DEF CommandHolds
    <2> QED BY <1>1, <1>2, <2>1, <2>3, <2>4
  <1>4. CASE ~Resident
    <2>1. act' = [act EXCEPT ![c] = Over("failed")]
      BY <1>4 DEF Fails, Set
    <2>2. Over("failed") \in Act /\ Over("failed").pc = "failed" /\ ~Over("failed").child
      BY OverActs DEF ActPcs
    <2>3. CommandHolds(Over("failed"), procs, disk)
      BY <2>2 DEF CommandHolds
    <2> QED BY <1>2, <2>1, <2>2, <2>3 DEF InRun
  <1> QED BY <1>3, <1>4

LEMMA KilledHolds ==
  ASSUME LaunchersAssumption, LInv, NEW c \in Commands, Killed(c)
  PROVE  LInv'
  <1> DEFINE r == [Over("killed") EXCEPT !.proc = act[c].proc, !.child = act[c].child]
  <1>1. c \in Actors /\ act[c] \in Act /\ lock = c /\ act' = [act EXCEPT ![c] = r]
        /\ UNCHANGED <<procs, disk>> /\ lock' = Nobody
    BY NotInHand DEF Actors, Killed, InRun, Release, Set
  <1>2. Over("killed") \in Act /\ Over("killed").pc = "killed"
    BY OverActs DEF ActPcs
  <1>3. r \in Act /\ r.pc = "killed" /\ r.child = act[c].child /\ r.proc = act[c].proc
    BY <1>1, <1>2 DEF Act
  <1> HIDE DEF r
  <1> QED BY <1>1, <1>3, Quiet DEF CommandHolds, InRun

-----------------------------------------------------------------------------
(* stop_services *)

LEMMA EndedHolds ==
  ASSUME LaunchersAssumption, LInv, NEW a \in Actors, NEW fine \in BOOLEAN, InStop(a), Ended(a, fine), UNCHANGED <<procs, disk>>
  PROVE  LInv'
  <1>1. act[a] \in Act /\ lock = a /\ lock' = Nobody /\ (a \in Commands => ~act[a].child)
    BY NotInHand DEF InStop, InRun, Ended, Release
  <1>2. \A pc \in ActPcs : Over(pc) \in Act /\ Over(pc).pc = pc /\ ~Over(pc).child
    BY OverActs
  <1>3. ASSUME NEW pc \in {"done", "failed", "end"}, act' = [act EXCEPT ![a] = Over(pc)]
        PROVE  LInv'
    <2>1. pc \in ActPcs /\ pc \notin InRun
      BY DEF ActPcs, InRun
    <2>2. CommandHolds(Over(pc), procs, disk)
      BY <1>2, <2>1 DEF CommandHolds, InRun
    <2> QED BY <1>1, <1>2, <1>3, <2>1, <2>2, Quiet
  <1>4. ASSUME a \notin Commands, act' = [act EXCEPT ![a] = [Over("try") EXCEPT !.app = act[a].app, !.tries = act[a].tries + 1]]
        PROVE  LInv'
    <2> DEFINE r == [Over("try") EXCEPT !.app = act[a].app, !.tries = act[a].tries + 1]
    <2>1. Over("try") \in Act /\ Over("try").pc = "try"
      BY <1>2 DEF ActPcs
    <2>2. r \in Act /\ r.pc = "try"
      <3> DEFINE z == [Over("try") EXCEPT !.app = act[a].app]
      <3>1. act[a].tries + 1 \in Nat /\ act[a].app \in Entry
        BY <1>1 DEF Act
      <3>2. z \in Act /\ z.pc = "try"
        BY <2>1, <3>1 DEF Act
      <3>3. r = [z EXCEPT !.tries = act[a].tries + 1]
        BY <2>1 DEF Act
      <3> HIDE DEF z, r
      <3> QED BY <3>1, <3>2, <3>3 DEF Act
    <2> HIDE DEF r
    <2>3. act' = [act EXCEPT ![a] = r]
      BY <1>4 DEF r
    <2> QED BY <1>1, <1>4, <2>2, <2>3, Quiet DEF InRun
  <1>5. a \notin Commands => \/ act' = [act EXCEPT ![a] = Over("end")]
                             \/ act' = [act EXCEPT ![a] = [Over("try") EXCEPT !.app = act[a].app, !.tries = act[a].tries + 1]]
    BY DEF Ended, Set
  <1>6. a \in Commands => \E pc \in {"done", "failed"} : act' = [act EXCEPT ![a] = Over(pc)]
    BY DEF Ended, Set
  <1> QED BY <1>3, <1>4, <1>5, <1>6

LEMMA StopHolds ==
  ASSUME LaunchersAssumption, LInv, NEW a \in Actors, StopServices(a)
  PROVE  LInv'
  <1>1. act[a] \in Act /\ lock = a /\ InStop(a) /\ ProcsHold(procs, disk)
        /\ (a \in Commands => ~act[a].child /\ CommandHolds(act[a], procs, disk))
    BY NotInHand DEF InStop, InRun, StopServices, Skip, Signal, StopFails, Stopped, LInv
  <1>2. CASE Skip(a)
    <2> DEFINE r == [act[a] EXCEPT !.step = act[a].step + 1, !.proc = 0]
    <2>1. r \in Act /\ r.pc = act[a].pc /\ r.child = act[a].child
      <3> DEFINE z == [act[a] EXCEPT !.step = act[a].step + 1]
      <3>1. act[a].step + 1 \in Nat \ {0}
        BY <1>1 DEF Act
      <3>2. z \in Act /\ z.pc = act[a].pc /\ z.child = act[a].child
        BY <1>1, <3>1 DEF Act
      <3>3. r = [z EXCEPT !.proc = 0]
        BY <1>1 DEF Act
      <3> HIDE DEF z, r
      <3> QED BY <3>2, <3>3 DEF Act
    <2>2. act' = [act EXCEPT ![a] = r] /\ UNCHANGED <<procs, disk, lock>>
      BY <1>2, <1>1 DEF Skip, NextVictim, Set, KeepLock
    <2> HIDE DEF r
    <2>3. a \in Commands => CommandHolds(r, procs, disk)
      BY <1>1, <2>1 DEF CommandHolds, InStop
    <2> QED BY <1>1, <2>1, <2>2, <2>3, Quiet
  <1>3. CASE Signal(a)
    <2> DEFINE p == Victim(a)
               r == [act[a] EXCEPT !.proc = p]
    <2>1. Closing[act[a].step] \in Names /\ p \in Nat
      <3>1. act[a].step \in 1 .. Len(Closing) /\ Closing \in Seq(Names)
        BY <1>1, <1>3 DEF Signal, Act, LaunchersAssumption
      <3> QED BY <3>1, <1>1 DEF Act, Entry, Victim
    <2>2. procs[p].state \in {"starting", "bound", "ready", "closing"}
          /\ act' = [act EXCEPT ![a] = r] /\ procs' = [procs EXCEPT ![p].state = "closing"]
          /\ UNCHANGED <<disk, lock>>
      BY <1>3 DEF Signal, Alive, Become, Set, KeepLock
    <2> HIDE DEF p
    <2>3. r \in Act /\ r.pc = act[a].pc /\ r.child = act[a].child /\ r.mem = act[a].mem
      BY <1>1, <2>1 DEF Act
    <2> HIDE DEF r
    <2>4. a \in Commands => CommandHolds(r, procs, disk)
      BY <1>1, <2>3 DEF CommandHolds, InStop
    <2>5. CASE p \in DOMAIN procs
      BY <1>1, <2>2, <2>3, <2>4, <2>5, Ends
    \* No record names such a process; the model would then change nothing.
    <2>6. CASE p \notin DOMAIN procs
      <3>1. procs' = procs
        BY <2>2, <2>6, <1>1, SeqProcs DEF ProcsHold
      <3> QED BY <1>1, <2>2, <2>3, <2>4, <3>1, Quiet
    <2> QED BY <2>5, <2>6
  <1>4. CASE StopFails(a)
    BY <1>1, <1>4, EndedHolds DEF StopFails
  <1>5. CASE Stopped(a)
    BY <1>1, <1>5, EndedHolds DEF Stopped
  <1> QED BY <1>2, <1>3, <1>4, <1>5 DEF StopServices

-----------------------------------------------------------------------------
(* The watcher, processes and the theorem *)

LEMMA WatchHolds ==
  ASSUME LaunchersAssumption, LInv, NEW w \in Watchers, WatchStep(w)
  PROVE  LInv'
  <1>1. /\ w \in Actors /\ w \notin Commands /\ act[w] \in Act /\ disk \in [Names -> Entry] /\ "runtime" \in Names
        /\ (act[w].pc \in InRun => lock = w)
    BY NotInHand DEF Actors, Names, LInv, ProcsHold, Named, LaunchersAssumption
  <1>2. \A pc \in ActPcs : Over(pc) \in Act /\ Over(pc).pc = pc
    BY OverActs
  <1>3. ASSUME act' = [act EXCEPT ![w] = Over("end")], UNCHANGED <<procs, disk, lock>>
        PROVE  LInv'
    BY <1>1, <1>2, <1>3, Quiet DEF ActPcs, InRun
  <1>4. ASSUME NEW r \in Act, act' = [act EXCEPT ![w] = r], UNCHANGED <<procs, disk, lock>>, r.pc \notin InRun
        PROVE  LInv'
    BY <1>1, <1>4, Quiet
  <1>5. CASE WatchReads(w)
    <2> DEFINE r == [act[w] EXCEPT !.pc = "watch", !.app = disk["runtime"]]
    <2>1. r \in Act /\ r.pc = "watch"
      <3>1. disk["runtime"] \in Entry /\ "watch" \in ActPcs
        BY <1>1 DEF ActPcs
      <3> QED BY <3>1, <1>1 DEF Act
    <2>2. act' = [act EXCEPT ![w] = r] \/ act' = [act EXCEPT ![w] = Over("end")]
      BY <1>5 DEF WatchReads, Set
    <2> HIDE DEF r
    <2> QED BY <2>1, <2>2, <1>3, <1>4, <1>5 DEF WatchReads, InRun
  <1>6. CASE WindowGone(w)
    <2> DEFINE r == [act[w] EXCEPT !.pc = "try"]
    <2>1. r \in Act /\ r.pc = "try" /\ act' = [act EXCEPT ![w] = r]
      BY <1>1, <1>6 DEF WindowGone, Set, Act, ActPcs
    <2> HIDE DEF r
    <2> QED BY <2>1, <1>4, <1>6 DEF WindowGone, InRun
  <1>7. CASE TakeOver(w)
    <2> DEFINE r == [act[w] EXCEPT !.pc = "stop", !.mem = disk]
    <2>1. r \in Act /\ r.pc = "stop"
      BY <1>1 DEF Act, ActPcs
    <2>2. \/ act' = [act EXCEPT ![w] = Over("end")] /\ UNCHANGED lock
          \/ act' = [act EXCEPT ![w] = r] /\ lock' = w
      BY <1>7 DEF TakeOver, Set
    <2> HIDE DEF r
    <2>3. lock = Nobody /\ UNCHANGED <<procs, disk>>
      BY <1>7 DEF TakeOver
    <2>4. CASE act' = [act EXCEPT ![w] = r] /\ lock' = w
      BY <1>1, <2>1, <2>3, <2>4, Quiet
    <2> QED BY <2>2, <2>3, <2>4, <1>3
  <1>8. CASE TryLater(w)
    <2> DEFINE r == [act[w] EXCEPT !.tries = act[w].tries + 1]
    <2>1. r \in Act /\ r.pc = "try"
      BY <1>1, <1>8 DEF TryLater, Act
    <2>2. act' = [act EXCEPT ![w] = Over("end")] \/ act' = [act EXCEPT ![w] = r]
      BY <1>8, <1>1 DEF TryLater, Set
    <2> HIDE DEF r
    <2> QED BY <2>1, <2>2, <1>3, <1>4, <1>8 DEF TryLater, InRun
  <1> QED BY <1>5, <1>6, <1>7, <1>8 DEF WatchStep

\* The others rest while processes come and go.
LEMMA OnlyProcesses ==
  ASSUME LaunchersAssumption, LInv, UNCHANGED <<disk, lock, act>>, ProcsHold(procs', disk), Later(procs, procs'),
         Resident => Findable(procs', disk, Hand(act))
  PROVE  LInv'
  <1>1. \A c \in Commands : CommandHolds(act[c], procs', disk)
    <2> TAKE c \in Commands
    <2>1. act[c].step \in Nat \ {0} /\ CommandHolds(act[c], procs, disk) /\ ProcsHold(procs, disk)
      BY DEF LInv, Act, Actors
    <2> QED BY <2>1, CommandStays
  <1> QED BY <1>1 DEF LInv, Exclusive, Hand

LEMMA OutsideHolds ==
  ASSUME LaunchersAssumption, LInv, Outside
  PROVE  LInv'
  <1>1. ProcsHold(procs, disk) /\ procs \in Seq(Process) /\ (Resident => Findable(procs, disk, Hand(act)))
        /\ UNCHANGED <<disk, lock, act>>
        /\ \A q \in DOMAIN procs : q # 0 /\ procs[q] \in Process
    BY SeqProcs DEF LInv, ProcsHold, Outside
  <1>2. ASSUME NEW p \in DOMAIN procs, NEW s \in ProcStates, Become(p, s), MayBecome(procs, p, s)
        PROVE  LInv'
    <2>1. ProcsHold(procs', disk) /\ Later(procs, procs') /\ Became(procs, procs', p, s)
      BY <1>1, <1>2, Becomes, Zenon DEF Become
    <2>2. Resident => Findable(procs', disk, Hand(act))
      BY <2>1, <1>1 DEF Findable, Became
    <2> QED BY <1>1, <2>1, <2>2, OnlyProcesses
  <1>3. ASSUME NEW p \in DOMAIN procs, Comes(p) \/ Goes(p) \/ StaysOpen(p) \/ Reused(p)
        PROVE  \E s \in ProcStates : Become(p, s) /\ MayBecome(procs, p, s)
    <2>1. ASSUME procs[p].state = "starting", procs[p].name \in Ports, NEW owner \in Listener(procs[p].name),
                 Become(p, IF owner = 0 THEN "bound" ELSE "gone")
          PROVE  \E s \in ProcStates : Become(p, s) /\ MayBecome(procs, p, s)
      <3>1. CASE owner # 0
        BY <2>1, <3>1 DEF MayBecome, ProcStates
      <3>2. CASE owner = 0
        <4>1. 0 \notin Owners(procs[p].name)
          BY <1>1 DEF Owners, RunningAs
        <4>2. Owners(procs[p].name) = {}
          BY <2>1, <3>2, <4>1 DEF Listener
        <4>3. \A q \in DOMAIN procs : procs[q].name = procs[p].name => procs[q].state \notin {"bound", "ready"}
          BY <4>2, <1>1 DEF Owners, RunningAs, Alive
        <4>4. MayBecome(procs, p, "bound") /\ "bound" \in ProcStates
          BY <2>1, <4>3 DEF MayBecome, ProcStates
        <4> QED BY <2>1, <3>2, <4>4
      <3> QED BY <3>1, <3>2
    <2> QED BY <2>1, <1>3 DEF Comes, Goes, StaysOpen, Reused, Alive, MayBecome, ProcStates
  <1>4. ASSUME NEW n \in Names, Other(n)
        PROVE  LInv'
    <2> DEFINE x == [name |-> n, state |-> "ready", by |-> Nobody]
    <2>1. x \in Process /\ procs' = Append(procs, x) /\ x.by = Nobody
      BY <1>4 DEF Other, Process, ProcStates
    <2>2. MayCome(procs, x)
      BY <1>4, <1>1 DEF Other, MayCome, RunningAs, Alive
    <2> HIDE DEF x
    <2>3. ProcsHold(procs', disk) /\ Later(procs, procs') /\ Grown(procs, procs', x)
      BY <1>1, <2>1, <2>2, Spawns, Zenon
    <2>4. Resident => Findable(procs', disk, Hand(act))
      BY <2>1, <2>3, <1>1 DEF Findable, Grown, Runs, Up
    <2> QED BY <1>1, <2>3, <2>4, OnlyProcesses
  <1> QED BY <1>2, <1>3, <1>4 DEF Outside

LEMMA LNext ==
  ASSUME LaunchersAssumption, LInv, [StackNext]_stackVars
  PROVE  LInv'
  <1>1. CASE UNCHANGED stackVars
    BY <1>1 DEF stackVars, LInv, Exclusive, ProcsHold, Named, CommandHolds, Hand, Findable, Runs, Up
  <1>2. ASSUME NEW c \in Commands, Command(c)
        PROVE  LInv'
    BY <1>2, BeginStartHolds, BeginStopHolds, RefusedHolds, EnsureServiceHolds, ReadyHolds, OpenAppHolds,
       WindowReadyHolds, FinishHolds, FailsHolds, KilledHolds DEF Command
  <1> QED BY <1>1, <1>2, StopHolds, WatchHolds, OutsideHolds DEF StackNext

LEMMA LStart ==
  ASSUME LaunchersAssumption, StackInit
  PROVE  LInv
  <1>1. Nothing \in [Names -> Entry] /\ \A n \in Names : Nothing[n].proc = 0
    BY DEF Nothing, NoRecord, Entry
  <1>2. Resting \in Act /\ Resting.pc = "idle" /\ ~Resting.child
    BY OverActs, <1>1 DEF Resting, Act, ActPcs, NoRecord, Entry
  <1>3. procs = <<>> /\ disk = Nothing /\ act = [a \in Actors |-> Resting]
    BY DEF StackInit
  <1>4. ProcsHold(procs, disk)
    <2>1. procs \in Seq(Process) /\ DOMAIN procs = {}
      BY <1>3
    <2> QED BY <1>1, <1>3, <2>1 DEF ProcsHold, Named, Names
  <1>5. \A a \in Actors : act[a] = Resting
    BY <1>3
  <1>6. \A c \in Commands : CommandHolds(act[c], procs, disk)
    BY <1>2, <1>5 DEF Actors, CommandHolds
  <1>7. Exclusive /\ act \in [Actors -> Act]
    BY <1>2, <1>3, <1>5 DEF Exclusive, InRun
  <1>8. Findable(procs, disk, Hand(act))
    BY <1>3 DEF Findable
  <1> QED BY <1>4, <1>6, <1>7, <1>8 DEF LInv

\* What a launcher of the resident started and what still runs is recorded in
\* processes.json, or a start has it in hand: for any services, order, number
\* of commands and watchers, and however often launchers are killed.
THEOREM StartedIsFound ==
  ASSUME LaunchersAssumption, Resident
  PROVE  StackSpec => []StartedIsRecorded
  <1>1. StackInit => LInv
    BY LStart
  <1>2. LInv /\ [StackNext]_stackVars => LInv'
    BY LNext
  <1>3. LInv => StartedIsRecorded
    <2> SUFFICES ASSUME LInv, NEW p \in DOMAIN procs, procs[p].by # Nobody, procs[p].state \in {"starting", "bound", "ready"}
                 PROVE  \/ \E n \in Names : disk[n].proc = p
                        \/ \E c \in Commands : act[c].child /\ act[c].proc = p
      BY DEF StartedIsRecorded
    <2>1. procs[p].name \in Names
      BY SeqProcs DEF LInv, ProcsHold, Process
    <2>2. disk[procs[p].name].proc = p \/ p \in Hand(act)
      BY DEF LInv, Findable, Runs, Up
    <2> QED BY <2>1, <2>2 DEF Hand
  <1> QED BY <1>1, <1>2, <1>3, PTL DEF StackSpec

-----------------------------------------------------------------------------
(* Windows are closed first *)

\* A process that ended stays so.
EndedOnes(ps, qs) ==
  /\ DOMAIN ps \subseteq DOMAIN qs
  /\ \A p \in DOMAIN ps : /\ qs[p].name = ps[p].name
                          /\ ps[p].state \in {"gone", "reused"} => qs[p].state \in {"gone", "reused"}
Dead(ps, p) == p = 0 \/ (p \in DOMAIN ps /\ ps[p].state \in {"gone", "reused"})

\* Who stops goes by the records as they are, has seen the end of every window it
\* is past, and as a watcher the end of its own.
Goer(b, r, ps, dk) ==
  /\ b \in Watchers => r.pc \in {"idle", "new", "watch", "try", "stop", "end"}
  /\ r.pc \in {"idle", "new", "watch", "try"} => r.step = 1
  /\ r.pc = "stop" =>
       /\ r.mem = dk
       /\ \A i \in 1 .. Len(Closing) : i < r.step => Dead(ps, dk[Closing[i]].proc)
       /\ b \in Watchers => r.app = dk["runtime"]
  /\ b \in Watchers /\ r.pc \in {"watch", "try", "stop"} /\ r.app.proc # 0 => r.app.proc \in DOMAIN ps
  /\ b \in Watchers /\ r.pc \in {"try", "stop"} => Dead(ps, r.app.proc)
WInv == LInv /\ \A a \in Actors : Goer(a, act[a], procs, disk)

LEMMA GoerStays ==
  ASSUME NEW b, NEW r, NEW ps, NEW qs, NEW dk, NEW ek, Goer(b, r, ps, dk), EndedOnes(ps, qs),
         ek = dk \/ r.pc # "stop"
  PROVE  Goer(b, r, qs, ek)
  BY DEF Goer, EndedOnes, Dead

LEMMA ProcsKnown ==
  ASSUME LInv
  PROVE  /\ procs \in Seq(Process) /\ disk \in [Names -> Entry]
         /\ \A p \in DOMAIN procs : p \in Nat /\ p # 0 /\ procs[p] \in Process
         /\ \A n \in Names : disk[n].proc # 0 => disk[n].proc \in DOMAIN procs /\ procs[disk[n].proc].name = n
         /\ \A p \in DOMAIN procs : Alive(p) <=> procs[p].state \notin {"gone", "reused"}
  <1>1. procs \in Seq(Process) /\ disk \in [Names -> Entry]
        /\ \A n \in Names : disk[n].proc # 0 => disk[n].proc \in DOMAIN procs /\ procs[disk[n].proc].name = n
    BY DEF LInv, ProcsHold, Named
  <1>2. \A p \in DOMAIN procs : p \in Nat /\ p # 0 /\ procs[p] \in Process
    BY <1>1, SeqProcs
  <1> QED BY <1>1, <1>2 DEF Alive, Process, ProcStates

LEMMA BecomesLater ==
  ASSUME LInv, NEW p \in DOMAIN procs, NEW s, Become(p, s),
         procs[p].state \in {"gone", "reused"} => s \in {"gone", "reused"}
  PROVE  EndedOnes(procs, procs')
  <1>1. procs \in [1 .. Len(procs) -> Process] /\ DOMAIN procs = 1 .. Len(procs)
    BY ProcsKnown, SeqProcs
  <1>2. procs' = [procs EXCEPT ![p] = [procs[p] EXCEPT !.state = s]]
    BY DEF Become
  <1>3. DOMAIN procs' = DOMAIN procs
        /\ \A q \in DOMAIN procs : procs'[q] = IF q = p THEN [procs[p] EXCEPT !.state = s] ELSE procs[q]
    BY <1>1, <1>2
  <1> QED BY <1>1, <1>3 DEF EndedOnes, Process

LEMMA SpawnsLater ==
  ASSUME LInv, NEW x \in Process, procs' = Append(procs, x)
  PROVE  EndedOnes(procs, procs')
  <1>1. procs \in Seq(Process) /\ Len(procs) \in Nat /\ DOMAIN procs = 1 .. Len(procs)
    BY ProcsKnown, SeqProcs
  <1>2. DOMAIN procs' = 1 .. Len(procs) + 1 /\ \A q \in DOMAIN procs : procs'[q] = procs[q]
    BY <1>1, AppendProperties
  <1> QED BY <1>1, <1>2 DEF EndedOnes

\* What a step does to a process that ended.
LEMMA EndedStay ==
  ASSUME LaunchersAssumption, LInv, [StackNext]_stackVars
  PROVE  EndedOnes(procs, procs')
  <1>1. CASE UNCHANGED procs
    BY <1>1 DEF EndedOnes
  <1>2. ASSUME NEW c \in Commands, EnsureService(c) \/ OpenApp(c)
        PROVE  EndedOnes(procs, procs')
    <2>1. Due(c) \in Names /\ New(Due(c), c) \in Process
      BY <1>2 DEF EnsureService, OpenApp, Starting, Names, New, Process, ProcStates, Actors
    <2>2. UNCHANGED procs \/ procs' = Append(procs, New(Due(c), c))
      BY <1>2 DEF EnsureService, OpenApp, Spawned
    <2> QED BY <2>1, <2>2, <1>1, SpawnsLater
  <1>3. ASSUME NEW c \in Commands, Fails(c)
        PROVE  EndedOnes(procs, procs')
    <2>1. CASE act[c].pc = "ready" /\ act[c].child
      <3>1. act[c].proc \in DOMAIN procs /\ Become(act[c].proc, "gone")
        BY <1>3, <2>1 DEF LInv, CommandHolds, Fails
      <3> QED BY <3>1, BecomesLater
    <2>2. CASE ~(act[c].pc = "ready" /\ act[c].child)
      BY <1>3, <2>2, <1>1 DEF Fails
    <2> QED BY <2>1, <2>2
  <1>4. ASSUME NEW a \in Actors, Signal(a)
        PROVE  EndedOnes(procs, procs')
    <2> DEFINE p == Victim(a)
    <2>1. Alive(p) /\ Become(p, "closing")
      BY <1>4 DEF Signal
    <2> HIDE DEF p
    <2>2. CASE p \in DOMAIN procs
      BY <2>1, <2>2, BecomesLater, ProcsKnown
    <2>3. CASE p \notin DOMAIN procs
      <3>1. UNCHANGED procs
        BY <2>1, <2>3, ProcsKnown, SeqProcs DEF Become
      <3> QED BY <3>1, <1>1
    <2> QED BY <2>2, <2>3
  <1>5. ASSUME NEW p \in DOMAIN procs, Comes(p) \/ Goes(p) \/ StaysOpen(p) \/ Reused(p)
        PROVE  EndedOnes(procs, procs')
    <2>1. \E s \in {"bound", "ready", "gone", "reused"} :
            Become(p, s) /\ (procs[p].state \in {"gone", "reused"} => s \in {"gone", "reused"})
      BY <1>5 DEF Comes, Goes, StaysOpen, Reused
    <2> QED BY <2>1, BecomesLater
  <1>6. ASSUME NEW n \in Names, Other(n)
        PROVE  EndedOnes(procs, procs')
    <2>1. [name |-> n, state |-> "ready", by |-> Nobody] \in Process
      BY DEF Process, ProcStates
    <2> QED BY <2>1, <1>6, SpawnsLater DEF Other
  <1>7. ASSUME NEW c \in Commands, Command(c)
        PROVE  EndedOnes(procs, procs')
    BY <1>7, <1>1, <1>2, <1>3 DEF Command, BeginStart, BeginStop, Refused, Ready, WindowReady, Finish, Killed
  <1>8. ASSUME NEW a \in Actors, StopServices(a)
        PROVE  EndedOnes(procs, procs')
    BY <1>8, <1>1, <1>4 DEF StopServices, Skip, StopFails, Stopped
  <1>9. ASSUME NEW w \in Watchers, WatchStep(w)
        PROVE  EndedOnes(procs, procs')
    BY <1>9, <1>1 DEF WatchStep, WatchReads, WindowGone, TakeOver, TryLater
  <1> QED BY <1>1, <1>5, <1>6, <1>7, <1>8, <1>9 DEF StackNext, Outside, stackVars

\* Steps of one, and of a start, after which nothing is claimed.
LEMMA OneGoes ==
  ASSUME LaunchersAssumption, WInv, [StackNext]_stackVars, NEW a \in Actors, NEW r, act' = [act EXCEPT ![a] = r],
         disk' = disk \/ lock = a, Goer(a, r, procs', disk')
  PROVE  \A b \in Actors : Goer(b, act'[b], procs', disk')
  <1>1. \A b \in Actors : act'[b] = IF b = a THEN r ELSE act[b]
    BY DEF WInv, LInv
  <1>2. ASSUME NEW b \in Actors, b # a
        PROVE  Goer(b, act[b], procs', disk')
    <2>1. disk' = disk \/ act[b].pc # "stop"
      BY <1>2 DEF WInv, LInv, Exclusive, InRun
    <2>2. Goer(b, act[b], procs, disk) /\ EndedOnes(procs, procs')
      BY EndedStay DEF WInv
    <2> QED BY <2>1, <2>2, GoerStays
  <1> QED BY <1>1, <1>2

Unheld == {"start", "ready", "window", "undo", "done", "failed", "killed"}
LEMMA BusyGoes ==
  ASSUME NEW b, b \notin Watchers, NEW r, NEW ps, NEW dk, r.pc \in Unheld
  PROVE  Goer(b, r, ps, dk)
  BY DEF Goer, Unheld

LEMMA CommandGoes ==
  ASSUME LaunchersAssumption, WInv, NEW c \in Commands, Command(c)
  PROVE  \A b \in Actors : Goer(b, act'[b], procs', disk')
  <1>1. /\ c \in Actors /\ c \notin Watchers /\ act[c] \in Act /\ Goer(c, act[c], procs, disk)
        /\ [StackNext]_stackVars /\ LInv
    BY DEF Actors, LaunchersAssumption, WInv, LInv, StackNext
  <1>2. \A pc \in ActPcs : Over(pc) \in Act /\ Over(pc).pc = pc
    BY OverActs
  <1>3. ASSUME NEW r, act' = [act EXCEPT ![c] = r], disk' = disk \/ lock = c, r.pc \in Unheld
        PROVE  \A b \in Actors : Goer(b, act'[b], procs', disk')
    <2>1. Goer(c, r, procs', disk')
      BY <1>1, <1>3, BusyGoes, Zenon
    <2> QED BY <1>1, <1>3, <2>1, OneGoes
  <1>4. ASSUME NEW r, Set(c, r), r.pc \in Unheld, UNCHANGED disk
        PROVE  \A b \in Actors : Goer(b, act'[b], procs', disk')
    BY <1>3, <1>4 DEF Set
  <1>5. Over("failed").pc \in Unheld /\ Over("done").pc \in Unheld
    BY <1>2 DEF ActPcs, Unheld
  <1>6. CASE BeginStop(c)
    <2> DEFINE r == [act[c] EXCEPT !.pc = "stop", !.mem = disk]
    <2>1. r.pc = "stop" /\ r.mem = disk /\ r.step = 1 /\ act' = [act EXCEPT ![c] = r] /\ UNCHANGED disk
      BY <1>1, <1>6 DEF BeginStop, Goer, Act, Set
    <2> HIDE DEF r
    <2>2. Goer(c, r, procs', disk')
      BY <1>1, <2>1 DEF Goer
    <2> QED BY <1>1, <2>1, <2>2, OneGoes
  <1>7. CASE BeginStart(c)
    <2> DEFINE r == [act[c] EXCEPT !.pc = "start", !.before = disk, !.mem = IF Resident THEN disk ELSE Found]
    <2>1. r.pc \in Unheld
      BY <1>1 DEF Act, Unheld
    <2>2. Set(c, r) \/ Set(c, Over("failed"))
      BY <1>7 DEF BeginStart
    <2> HIDE DEF r
    <2> QED BY <1>4, <1>5, <1>7, <2>1, <2>2 DEF BeginStart
  <1>8. CASE Refused(c)
    BY <1>4, <1>5, <1>8 DEF Refused
  <1>9. CASE EnsureService(c)
    <2>1. PICK p, child : Set(c, [act[c] EXCEPT !.pc = "ready", !.proc = p, !.child = child])
      BY <1>9 DEF EnsureService
    <2>2. [act[c] EXCEPT !.pc = "ready", !.proc = p, !.child = child].pc \in Unheld
      BY <1>1 DEF Act, Unheld
    <2> QED BY <1>4, <1>9, <2>1, <2>2 DEF EnsureService
  <1>10. ASSUME NEW e, NEW pc \in {"start", "window"}, NEW step, Remember(c, e, pc, step), lock = c
         PROVE  \A b \in Actors : Goer(b, act'[b], procs', disk')
    <2> DEFINE r == Written(act[c], pc, step, Due(c), e)
    <2>1. r.pc = pc /\ act' = [act EXCEPT ![c] = r]
      BY <1>1, <1>10 DEF Remember, Set, Written, Act
    <2> HIDE DEF r
    <2>2. r.pc \in Unheld
      BY <2>1 DEF Unheld
    <2> QED BY <1>3, <1>10, <2>1, <2>2
  <1>11. act[c].pc \in {"start", "ready", "window"} => lock = c
    BY <1>1 DEF LInv, Exclusive, InRun
  <1>12. CASE Ready(c)
    BY <1>10, <1>11, <1>12 DEF Ready
  <1>13. CASE OpenApp(c)
    <2>1. \E e, step : Remember(c, e, "window", step)
      BY <1>13 DEF OpenApp
    <2> QED BY <2>1, <1>10, <1>11, <1>13 DEF OpenApp, Starting
  <1>14. CASE WindowReady(c)
    <2> DEFINE r == [act[c] EXCEPT !.pc = "start", !.step = act[c].step + 1]
    <2>1. r.pc \in Unheld /\ Set(c, r)
      BY <1>1, <1>14 DEF Act, Unheld, WindowReady, Set
    <2> HIDE DEF r
    <2> QED BY <1>4, <1>14, <2>1 DEF WindowReady
  <1>15. CASE Fails(c)
    <2> DEFINE r == [act[c] EXCEPT !.pc = "undo", !.step = 1, !.proc = 0, !.child = FALSE, !.mem = Created(c)]
    <2>1. r.pc \in Unheld /\ (Set(c, r) \/ Set(c, Over("failed")))
      BY <1>1, <1>15 DEF Act, Unheld, Fails
    <2> HIDE DEF r
    <2> QED BY <1>4, <1>5, <1>15, <2>1 DEF Fails
  <1>16. CASE Killed(c)
    <2> DEFINE r == [Over("killed") EXCEPT !.proc = act[c].proc, !.child = act[c].child]
    <2>1. r.pc \in Unheld /\ Set(c, r)
      <3>1. Over("killed") \in Act /\ Over("killed").pc = "killed"
        BY <1>2 DEF ActPcs
      <3>2. Set(c, r)
        BY <1>16 DEF Killed
      <3> QED BY <3>1, <3>2 DEF Act, Unheld
    <2> HIDE DEF r
    <2> QED BY <1>4, <1>16, <2>1 DEF Killed
  <1>17. CASE Finish(c)
    <2> DEFINE done == [act EXCEPT ![c] = Over("done")]
    <2>1. CASE act' = done
      BY <1>3, <1>5, <1>17, <2>1 DEF Finish
    <2>2. ASSUME NEW w \in Watchers, act[w].pc = "idle",
                 act' = [done EXCEPT ![w].pc = "new", ![w].app = act[c].mem["runtime"]]
          PROVE  \A b \in Actors : Goer(b, act'[b], procs', disk')
      <3> DEFINE r == [act[w] EXCEPT !.pc = "new", !.app = act[c].mem["runtime"]]
      <3>1. /\ act \in [Actors -> Act] /\ UNCHANGED <<procs, disk>> /\ w \in Actors /\ w # c /\ act[w] \in Act
            /\ \A b \in Actors : Goer(b, act[b], procs, disk)
        BY <1>17 DEF WInv, LInv, Finish, Actors, LaunchersAssumption
      <3>2. r.pc = "new" /\ r.step = 1
        BY <3>1, <2>2 DEF Act, Goer
      <3>3. \A b \in Actors : done[b] = IF b = c THEN Over("done") ELSE act[b]
        BY <3>1
      <3>4. act' = [done EXCEPT ![w] = r]
        BY <2>2, <3>1, <3>3 DEF Act
      <3> HIDE DEF r
      <3>5. \A b \in Actors : act'[b] = IF b = w THEN r ELSE IF b = c THEN Over("done") ELSE act[b]
        BY <3>1, <3>3, <3>4
      <3>6. Goer(w, r, procs, disk) /\ Goer(c, Over("done"), procs, disk)
        BY <3>2, <1>1, <1>5, BusyGoes DEF Goer
      <3>8. ASSUME NEW b \in Actors
            PROVE  Goer(b, act'[b], procs, disk)
        BY <3>1, <3>5, <3>6, Zenon
      <3> QED BY <3>1, <3>8
    <2> QED BY <2>1, <2>2, <1>17 DEF Finish
  <1> QED BY <1>6, <1>7, <1>8, <1>9, <1>12, <1>13, <1>14, <1>15, <1>16, <1>17 DEF Command

LEMMA StopGoes ==
  ASSUME LaunchersAssumption, WInv, NEW a \in Actors, StopServices(a)
  PROVE  \A b \in Actors : Goer(b, act'[b], procs', disk')
  <1>1. /\ act[a] \in Act /\ Goer(a, act[a], procs, disk) /\ UNCHANGED disk /\ InStop(a) /\ LInv
        /\ [StackNext]_stackVars
    BY DEF WInv, LInv, StackNext, StopServices, Skip, Signal, StopFails, Stopped
  <1>2. ASSUME NEW r, Set(a, r), Goer(a, r, procs', disk')
        PROVE  \A b \in Actors : Goer(b, act'[b], procs', disk')
    BY <1>1, <1>2, OneGoes DEF Set
  <1>3. EndedOnes(procs, procs') /\ Goer(a, act[a], procs', disk')
    BY <1>1, EndedStay, GoerStays
  <1>4. \A pc \in ActPcs : Over(pc) \in Act /\ Over(pc).pc = pc /\ Over(pc).step = 1
    BY OverActs DEF Over, Resting
  <1>5. CASE Skip(a)
    <2> DEFINE r == [act[a] EXCEPT !.step = act[a].step + 1, !.proc = 0]
    <2>1. r.pc = act[a].pc /\ r.mem = act[a].mem /\ r.app = act[a].app /\ r.step = act[a].step + 1 /\ Set(a, r)
          /\ act[a].step \in Nat \ {0}
      BY <1>1, <1>5 DEF Act, Skip, NextVictim, Set
    <2> HIDE DEF r
    <2>2. ASSUME act[a].pc = "stop", NEW i \in 1 .. Len(Closing), i < r.step
          PROVE  Dead(procs', disk'[Closing[i]].proc)
      <3>1. CASE i < act[a].step
        BY <1>1, <1>3, <2>2, <3>1 DEF Goer
      <3>2. CASE i = act[a].step
        <4>1. Closing[i] \in Names /\ act[a].mem = disk
          BY <1>1, <2>2 DEF Goer, LaunchersAssumption
        <4>2. Dead(procs, disk[Closing[i]].proc)
          BY <4>1, <3>2, <1>1, <1>5, ProcsKnown DEF Skip, Victim, Dead
        <4> QED BY <4>2, <1>1, <1>3 DEF Dead, EndedOnes
      <3> QED BY <2>1, <2>2, <3>1, <3>2
    <2>3. Goer(a, r, procs', disk')
      BY <1>1, <1>3, <2>1, <2>2 DEF Goer, InStop
    <2> QED BY <1>2, <2>1, <2>3
  <1>6. CASE Signal(a)
    <2> DEFINE r == [act[a] EXCEPT !.proc = Victim(a)]
    <2>1. r.pc = act[a].pc /\ r.mem = act[a].mem /\ r.app = act[a].app /\ r.step = act[a].step /\ Set(a, r)
      BY <1>1, <1>6 DEF Act, Signal, Set
    <2> HIDE DEF r
    <2>2. Goer(a, r, procs', disk')
      BY <1>3, <2>1 DEF Goer
    <2> QED BY <1>2, <2>1, <2>2
  <1>7. ASSUME NEW fine \in BOOLEAN, Ended(a, fine)
        PROVE  \A b \in Actors : Goer(b, act'[b], procs', disk')
    <2>1. CASE a \in Commands
      <3>1. PICK pc \in {"done", "failed"} : Set(a, Over(pc))
        BY <1>7, <2>1 DEF Ended
      <3>2. Over(pc).pc \in Unheld /\ a \notin Watchers
        BY <1>4, <2>1 DEF ActPcs, Unheld, LaunchersAssumption
      <3> QED BY <1>2, <3>1, <3>2, BusyGoes
    <2>2. CASE Set(a, Over("end"))
      <3>1. Over("end").pc = "end"
        BY <1>4 DEF ActPcs
      <3>2. Goer(a, Over("end"), procs', disk')
        BY <3>1 DEF Goer
      <3> QED BY <1>2, <2>2, <3>2
    <2>3. CASE a \in Watchers /\ Set(a, [Over("try") EXCEPT !.app = act[a].app, !.tries = act[a].tries + 1])
      <3> DEFINE r == [Over("try") EXCEPT !.app = act[a].app, !.tries = act[a].tries + 1]
      <3>1. Over("try") \in Act /\ Over("try").pc = "try" /\ Over("try").step = 1
        BY <1>4 DEF ActPcs
      <3>2. r.pc = "try" /\ r.step = 1 /\ r.app = act[a].app
        BY <3>1 DEF Act
      <3>3. act[a].pc = "stop"
        BY <1>1, <2>3 DEF Goer, InStop
      <3> HIDE DEF r
      <3>4. Goer(a, r, procs', disk')
        BY <1>3, <3>2, <3>3 DEF Goer
      <3>5. Set(a, r)
        BY <2>3 DEF r
      <3> QED BY <1>2, <3>4, <3>5
    <2> QED BY <1>7, <2>1, <2>2, <2>3 DEF Ended, Actors
  <1> QED BY <1>5, <1>6, <1>7 DEF StopServices, StopFails, Stopped

LEMMA WatchGoes ==
  ASSUME LaunchersAssumption, WInv, NEW w \in Watchers, WatchStep(w)
  PROVE  \A b \in Actors : Goer(b, act'[b], procs', disk')
  <1>1. /\ w \in Actors /\ act[w] \in Act /\ Goer(w, act[w], procs, disk) /\ LInv /\ [StackNext]_stackVars
        /\ UNCHANGED <<procs, disk>> /\ "runtime" \in Names
    BY DEF WInv, LInv, StackNext, WatchStep, WatchReads, WindowGone, TakeOver, TryLater, Actors,
           LaunchersAssumption, Names
  <1>2. ASSUME NEW r, Set(w, r), Goer(w, r, procs', disk')
        PROVE  \A b \in Actors : Goer(b, act'[b], procs', disk')
    BY <1>1, <1>2, OneGoes DEF Set
  <1>3. CASE Set(w, Over("end"))
    <2>1. Over("end").pc = "end"
      BY OverActs DEF ActPcs
    <2>2. Goer(w, Over("end"), procs', disk')
      BY <2>1 DEF Goer
    <2> QED BY <1>2, <1>3, <2>2
  <1>4. CASE WatchReads(w) /\ ~Set(w, Over("end"))
    <2> DEFINE r == [act[w] EXCEPT !.pc = "watch", !.app = disk["runtime"]]
    <2>1. r.pc = "watch" /\ r.step = 1 /\ r.app = disk["runtime"] /\ Set(w, r)
      BY <1>1, <1>4 DEF WatchReads, Act, Goer, Set
    <2> HIDE DEF r
    <2>2. Goer(w, r, procs', disk')
      BY <1>1, <2>1, ProcsKnown DEF Goer
    <2> QED BY <1>2, <2>1, <2>2
  <1>5. CASE WindowGone(w)
    <2> DEFINE r == [act[w] EXCEPT !.pc = "try"]
    <2>1. r.pc = "try" /\ r.step = 1 /\ r.app = act[w].app /\ Set(w, r)
      BY <1>1, <1>5 DEF WindowGone, Act, Goer, Set
    <2> HIDE DEF r
    <2>2. r.app.proc = 0 \/ (r.app.proc \in DOMAIN procs /\ ~Alive(r.app.proc))
      BY <1>1, <1>5, <2>1 DEF WindowGone, Goer
    <2>3. Goer(w, r, procs', disk')
      BY <1>1, <2>1, <2>2, ProcsKnown DEF Goer, Dead
    <2> QED BY <1>2, <2>1, <2>3
  <1>6. CASE TakeOver(w) /\ ~Set(w, Over("end"))
    <2> DEFINE r == [act[w] EXCEPT !.pc = "stop", !.mem = disk]
    <2>1. r.pc = "stop" /\ r.step = 1 /\ r.mem = disk /\ r.app = act[w].app /\ Set(w, r) /\ disk["runtime"] = r.app
          /\ act[w].pc = "try"
      BY <1>1, <1>6 DEF TakeOver, Replaced, Act, Goer, Set
    <2> HIDE DEF r
    <2>2. Goer(w, r, procs', disk')
      BY <1>1, <2>1 DEF Goer
    <2> QED BY <1>2, <2>1, <2>2
  <1>7. CASE TryLater(w) /\ ~Set(w, Over("end"))
    <2> DEFINE r == [act[w] EXCEPT !.tries = act[w].tries + 1]
    <2>1. r.pc = "try" /\ r.step = 1 /\ r.app = act[w].app /\ act[w].pc = "try" /\ Set(w, r)
      BY <1>1, <1>7 DEF TryLater, Act, Goer, Set
    <2> HIDE DEF r
    <2>2. Goer(w, r, procs', disk')
      BY <1>1, <2>1 DEF Goer
    <2> QED BY <1>2, <2>1, <2>2
  <1> QED BY <1>3, <1>4, <1>5, <1>6, <1>7 DEF WatchStep

LEMMA WNext ==
  ASSUME LaunchersAssumption, WInv, [StackNext]_stackVars
  PROVE  WInv'
  <1>1. LInv'
    BY LNext DEF WInv
  <1>2. CASE UNCHANGED <<disk, act>>
    <2>1. EndedOnes(procs, procs')
      BY EndedStay DEF WInv
    <2>2. ASSUME NEW a \in Actors
          PROVE  Goer(a, act'[a], procs', disk')
      BY <1>2, <2>1, GoerStays DEF WInv
    <2> QED BY <1>1, <2>2 DEF WInv
  <1>3. CASE ~UNCHANGED <<disk, act>>
    <2>1. \A b \in Actors : Goer(b, act'[b], procs', disk')
      BY <1>3, CommandGoes, StopGoes, WatchGoes DEF StackNext, Outside, stackVars
    <2> QED BY <1>1, <2>1 DEF WInv
  <1> QED BY <1>2, <1>3

\* Only stop_services asks a process to end.
LEMMA WhoSignals ==
  ASSUME LaunchersAssumption, LInv, StackNext, NEW p \in DOMAIN procs, Signaled(p), NEW a \in Actors, By(a)
  PROVE  Signal(a)
  <1>1. /\ procs \in Seq(Process) /\ procs[p].state # "closing" /\ procs'[p].state = "closing"
        /\ act[a].proc # act'[a].proc /\ act \in [Actors -> Act]
    BY ProcsKnown DEF Signaled, By, LInv
  <1>2. procs' # procs /\ act' # act
    BY <1>1
  <1>3. ASSUME NEW x, procs' = Append(procs, x)
        PROVE  FALSE
    <2>1. procs \in Seq(Process \cup {x}) /\ x \in Process \cup {x} /\ p \in 1 .. Len(procs)
      BY <1>1, SeqProcs
    <2>2. Append(procs, x)[p] = procs[p]
      BY <2>1, AppendProperties
    <2> QED BY <2>2, <1>1, <1>3
  <1>4. ASSUME NEW q, Become(q, "gone")
        PROVE  FALSE
    <2>1. procs \in [1 .. Len(procs) -> Process] /\ DOMAIN procs = 1 .. Len(procs)
      BY <1>1, SeqProcs
    <2>2. procs'[p] = IF p = q THEN [procs[p] EXCEPT !.state = "gone"] ELSE procs[p]
      BY <2>1, <1>4 DEF Become
    <2> QED BY <2>1, <2>2, <1>1 DEF Process
  <1>5. ASSUME NEW c \in Commands, Command(c)
        PROVE  FALSE
    BY <1>2, <1>3, <1>4, <1>5 DEF Command, BeginStart, BeginStop, Refused, EnsureService, Spawned, Ready, OpenApp,
       WindowReady, Finish, Fails, Killed
  <1>6. ASSUME NEW w \in Watchers, WatchStep(w)
        PROVE  FALSE
    BY <1>2, <1>6 DEF WatchStep, WatchReads, WindowGone, TakeOver, TryLater
  <1>7. ASSUME NEW b \in Actors, StopServices(b)
        PROVE  Signal(a)
    <2>1. Signal(b)
      BY <1>2, <1>7 DEF StopServices, Skip, StopFails, Stopped
    <2>2. b = a
      BY <2>1, <1>1 DEF Signal, Set
    <2> QED BY <2>1, <2>2
  <1> QED BY <1>2, <1>5, <1>6, <1>7 DEF StackNext, Outside

\* A stop, of the resident or of the integration environment, asks a service to
\* end only when the recorded windows are gone, and a watcher ends no window: for
\* any services, order of starting, number of commands and watchers, and whoever
\* is killed in between.
THEOREM ServicesEndLast ==
  ASSUME LaunchersAssumption, ClosingAssumption
  PROVE  StackSpec => WindowsFirst
  <1>1. StackInit => WInv
    <2> SUFFICES ASSUME StackInit PROVE WInv
      OBVIOUS
    <2>1. \A a \in Actors : act[a].pc = "idle" /\ act[a].step = 1
      BY DEF StackInit, Resting
    <2>2. \A a \in Actors : Goer(a, act[a], procs, disk)
      BY <2>1 DEF Goer
    <2> QED BY <2>2, LStart DEF WInv
  <1>2. WInv /\ [StackNext]_stackVars => WInv'
    BY WNext
  <1>3. WInv /\ [StackNext]_stackVars => [WindowsFirstStep]_stackVars
    <2> SUFFICES ASSUME WInv, StackNext, NEW p \in DOMAIN procs, Signaled(p),
                        NEW a \in Actors, By(a), act[a].pc = "stop"
                 PROVE  /\ procs[p].name \in Ports => \A n \in Apps : ~Alive(disk[n].proc)
                        /\ a \in Watchers => procs[p].name \in Ports
      BY DEF WindowsFirstStep
    <2> DEFINE i == act[a].step
    <2>1. LInv /\ act[a] \in Act /\ Goer(a, act[a], procs, disk) /\ Signal(a) /\ act[a].mem = disk
      BY WhoSignals DEF WInv, LInv, Goer
    <2>2. i \in 1 .. Len(Closing) /\ i \in DOMAIN Closing /\ Closing[i] \in Names
      <3>1. Closing \in Seq(Names) /\ i \in Nat \ {0} /\ i <= Len(Closing)
        BY <2>1 DEF LaunchersAssumption, Signal, Act
      <3> QED BY <3>1
    <2>3. p = disk[Closing[i]].proc /\ Alive(p)
      <3>1. procs \in Seq(Process) /\ procs' = [procs EXCEPT ![Victim(a)].state = "closing"] /\ Alive(Victim(a))
        BY <2>1, ProcsKnown DEF Signal, Become
      <3>2. p # Victim(a) => procs'[p] = procs[p]
        BY <3>1, SeqProcs
      <3> QED BY <3>1, <3>2, <2>1 DEF Signaled, Victim
    <2>4. procs[p].name = Closing[i]
      BY <2>1, <2>2, <2>3, ProcsKnown
    <2>5. ASSUME procs[p].name \in Ports, NEW n \in Apps
          PROVE  ~Alive(disk[n].proc)
      <3>1. PICK j \in 1 .. i - 1 : Closing[j] = n
        BY <2>2, <2>4, <2>5 DEF ClosingAssumption
      <3>2. j \in 1 .. Len(Closing) /\ j < i
        BY <3>1, <2>2
      <3>3. Dead(procs, disk[n].proc)
        BY <3>1, <3>2, <2>1 DEF Goer
      <3> QED BY <3>3, <2>1, ProcsKnown DEF Dead, Alive
    <2>6. ASSUME a \in Watchers
          PROVE  procs[p].name \in Ports
      <3>1. SUFFICES ASSUME procs[p].name = "runtime" PROVE FALSE
        BY <2>2, <2>4, <2>6 DEF ClosingAssumption, Names
      <3>2. Dead(procs, p)
        BY <2>1, <2>3, <2>4, <2>6, <3>1 DEF Goer
      <3> QED BY <3>2, <2>1, <2>3, ProcsKnown DEF Dead, Alive
    <2> QED BY <2>5, <2>6
  <1> QED BY <1>1, <1>2, <1>3, PTL DEF StackSpec, WindowsFirst
=============================================================================
