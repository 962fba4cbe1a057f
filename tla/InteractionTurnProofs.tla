----------------------- MODULE InteractionTurnProofs -----------------------
(***************************************************************************)
(* What InteractionTurn guarantees for every set of operations and every   *)
(* bound: at most one turn is under way and it owns its session and its    *)
(* draft; a turn that is called complete was generated, synthesized and    *)
(* heard to the end, with no goroutine left behind; and what is recorded   *)
(* of an ended turn agrees with it.                                        *)
(*                                                                         *)
(* The engine keeps a turn, its input goroutine, and the generator and the *)
(* speech goroutine of each attempt in step without a common lock.  The    *)
(* invariant says, per operation, what each of them may assume of the      *)
(* others; it is a predicate on their states, t, i, m and s, so that most  *)
(* of the argument is about values and not about steps.                    *)
(***************************************************************************)
EXTENDS InteractionTurn, SequenceTheorems, TLAPS

\* The ranges of the variables.  The limits on units and chunks are left to
\* TypeOK: nothing below depends on them.
Kinds == {"text", "voice", "candidate"}
Audio == [unit : Nat, st : {"queued", "started", "stopped", "cut"}]
TurnsIn(states) ==
  [state : states, input : Kinds \cup {"none"}, session : Sessions, rev : Revisions,
   gen : {"nil", "partial", "complete"}, genDone : BOOLEAN, prodDone : BOOLEAN,
   speechErr : BOOLEAN, units : Seq(Units), chunks : Seq(Audio),
   key : {"none", "open", "closed", "stuck"}, result : Results, code : Codes]
AnyTurn == TurnsIn(Active \cup Terminal \cup {"none"})
MainSteps == [pc : {"none", "start", "llm", "push", "wait"}, first : Nat]
SpeechSteps ==
  [pc : {"idle", "wait", "synth", "drain", "done"}, queue : Seq(Nat),
   closed : BOOLEAN, done : Nat, unit : Nat, failed : BOOLEAN]

Shapes ==
  /\ turns \in [Ops -> AnyTurn] /\ active \in Ops \cup {NoOp}
  /\ voice \in [st : {"none", "running", "paused", "stopped"}, id : Nat, epoch : Nat]
  /\ input \in [Ops -> {"none", "asr", "arm"}]
  /\ main \in [Ops -> [Revisions -> MainSteps]]
  /\ speech \in [Ops -> [Revisions -> SpeechSteps]]

-----------------------------------------------------------------------------
(* The invariant, per operation *)

Over(t) == t.state \in {"FAILED", "CANCELED"}

\* Before its input is accepted a turn has no goroutine, and its first attempt
\* has produced nothing.
Waits(t, m, s) ==
  /\ t.rev = 1 /\ ~t.prodDone
  /\ \A r \in Revisions : m[r].pc = "none" /\ s[r].pc = "idle"
Accepts(t, i, m, s) ==
  /\ t.state \in {"none", "RECORDING", "TRANSCRIBING"} \/ i # "none" => Waits(t, m, s)
  /\ i = "asr" => t.state \in {"TRANSCRIBING", "FAILED", "CANCELED"}
  /\ i = "arm" => t.state \in {"RECORDING", "FAILED", "CANCELED"} /\ t.input = "candidate"

\* No attempt but the latest has a goroutine, unless the turn was ended by force;
\* and none at all has one once the producers of the latest are done.
Rests(m, s, r) == m[r].pc = "none" /\ s[r].pc \in {"idle", "done"}
OneAttempt(t, m, s) ==
  /\ ~Over(t) => \A r \in Revisions \ {t.rev} : Rests(m, s, r)
  /\ t.state \in {"COMPLETED", "INCOMPLETE"} => Rests(m, s, t.rev)
  /\ t.state \in Active /\ t.prodDone => Rests(m, s, t.rev)

\* The speech goroutine succeeds only when the generator has closed the queue
\* and the queue is empty.
Consumed(m, s) ==
  \A r \in Revisions :
    /\ s[r].closed => m[r].pc \in {"none", "start", "wait"}
    /\ s[r].pc = "done" /\ ~s[r].failed => s[r].closed /\ s[r].queue = <<>>
    /\ s[r].pc = "drain" => s[r].failed

\* A unit that is not synthesized is on its way: handed over, queued or spoken,
\* unless speech has failed.
OnItsWay(t, m, s, u) ==
  /\ m.pc \in {"llm", "push", "wait"}
  /\ \/ s.failed \/ (\E j \in DOMAIN s.queue : s.queue[j] = u)
     \/ s.pc = "synth" /\ s.unit = u
     \/ m.pc = "push" /\ u = Len(t.units)
SpokenFor(t, m, s) ==
  ~Over(t) => \A u \in DOMAIN t.units :
    t.units[u].sealed \/ t.speechErr \/ OnItsWay(t, m[t.rev], s[t.rev], u)

\* The draft of a turn and what closed it.
Recorded(t) ==
  /\ ~Ended(t) => t.key \in {"none", "open"}
  /\ Ended(t) /\ t.input # "candidate" => t.key # "open"
  /\ Ended(t) /\ t.key = "closed" =>
       /\ t.result.generation = "completed" <=> t.gen = "complete"
       /\ t.result.playback = "completed" =>
            t.units # <<>> /\ \A u \in DOMAIN t.units : Heard(t, u)
       /\ t.result.playback = "not_started" => t.chunks = <<>>
       /\ t.state = "COMPLETED" => t.result.generation = "completed"

\* What is complete was generated and heard, and only a typed answer goes on
\* without its speech.
Completed(t) ==
  /\ t.speechErr => t.input = "text"
  /\ t.state = "COMPLETED" => t.gen = "complete" /\ AllStopped(t)

Good(t, i, m, s) ==
  /\ Accepts(t, i, m, s) /\ OneAttempt(t, m, s) /\ Consumed(m, s)
  /\ SpokenFor(t, m, s) /\ Recorded(t) /\ Completed(t)

IInv ==
  /\ Shapes /\ OneActive /\ SessionOwnsTurn
  /\ \A op \in Ops : Good(turns[op], input[op], main[op], speech[op])
-----------------------------------------------------------------------------
(* Ending a turn *)

\* What ending leaves alone: everything but the state, what is recorded and why.
Same(t, n) ==
  /\ n.input = t.input /\ n.session = t.session /\ n.rev = t.rev /\ n.gen = t.gen
  /\ n.prodDone = t.prodDone /\ n.speechErr = t.speechErr
  /\ n.units = t.units /\ n.chunks = t.chunks

\* A turn on its way out may show CANCELING.
LooseTurn == TurnsIn(Active \cup Terminal \cup {"none", "CANCELING"})

\* n is t after it was ended: the draft is closed, and what was recorded is what
\* the turn says.
EndOf(t, n) ==
  /\ n \in AnyTurn /\ Ended(n) /\ Same(t, n) /\ n.key # "open"
  /\ n.key = "closed" => \/ t.key = "closed"
                         \/ /\ n.result.generation = "completed" <=> t.gen = "complete"
                            /\ n.result.playback = "completed" =>
                                 t.units # <<>> /\ \A u \in DOMAIN t.units : Heard(t, u)
                            /\ n.result.playback = "not_started" => t.chunks = <<>>

\* What is recorded of an answer is what its units and chunks say.
LEMMA RecordedResult ==
  ASSUME NEW t \in LooseTurn, NEW c \in Codes, NEW state
  PROVE  LET n == [t EXCEPT !.code = c]
             r == RecordedAssistant(n, state)
         IN  /\ r \in Results
             /\ r.generation = "completed" <=> t.gen = "complete"
             /\ r.playback = "completed" =>
                  t.units # <<>> /\ \A u \in DOMAIN t.units : Heard(t, u)
             /\ r.playback = "not_started" => t.chunks = <<>>
  <1> DEFINE n == [t EXCEPT !.code = c]
             r == RecordedAssistant(n, state)
  <1>1. /\ n.gen = t.gen /\ n.units = t.units /\ n.chunks = t.chunks
        /\ n.speechErr = t.speechErr
    BY DEF LooseTurn, TurnsIn
  <1>2. \A u : Heard(n, u) = Heard(t, u)
    BY <1>1 DEF Heard, Pieces
  <1> HIDE DEF n
  <1>3. r.playback = Playback(n) /\ (r.generation = "completed" <=> n.gen = "complete")
    BY DEF RecordedAssistant
  <1>4. /\ Playback(n) \in {"completed", "interrupted", "failed", "not_started", "unknown"}
        /\ Playback(n) = "completed" =>
             n.units # <<>> /\ \A u \in DOMAIN n.units : Heard(n, u)
        /\ Playback(n) = "not_started" => n.chunks = <<>>
    BY DEF Playback
  <1>5. r \in Results
    BY <1>4 DEF RecordedAssistant, Results
  <1> QED BY <1>1, <1>2, <1>3, <1>4, <1>5 DEF n

\* A turn that is under way always can be ended as the caller wants, but for one
\* that may not be completed and one whose end cannot be stored: these fail.
LEMMA EndIsAllowed ==
  ASSUME NEW t, NEW s, ~Ended(t), "state" \in DOMAIN t, t = [x \in DOMAIN t |-> t[x]],
         \/ s \in {"FAILED", "INCOMPLETE"}
         \/ s = "CANCELED" /\ t.state = "CANCELING"
         \/ s = "COMPLETED" /\ MayComplete(t)
  PROVE  Transition(t, s) = [t EXCEPT !.state = s]
  BY DEF Transition, Allowed, Follows, MayComplete

LEMMA FinishedTurn ==
  ASSUME NEW t \in LooseTurn, ~Ended(t), NEW wanted \in Terminal, NEW code \in Codes,
         wanted = "CANCELED" => t.state = "CANCELING",
         NEW faults \in SUBSET Faults
  PROVE  LET n == Finished(t, wanted, code, faults)
         IN  /\ EndOf(t, n) /\ n.state \in {wanted, "FAILED"}
             /\ n.state = "COMPLETED" => wanted = "COMPLETED"
  <1> DEFINE refused == wanted = "COMPLETED" /\ ~MayComplete(t)
             asked == IF refused THEN "FAILED" ELSE wanted
             why == IF refused THEN "completion" ELSE code
             named == [t EXCEPT !.code = why]
             lost == t.key = "open" /\ "record" \in faults
             untraced == "trace" \in faults
             key == IF t.key # "open" THEN t.key ELSE IF lost THEN "stuck" ELSE "closed"
             result == IF t.key = "open" /\ ~lost THEN RecordedAssistant(named, asked)
                                                  ELSE t.result
             last == IF untraced THEN "trace" ELSE IF lost THEN "recording" ELSE why
             x == [t EXCEPT !.key = key, !.result = result, !.code = last]
             s == IF untraced \/ lost THEN "FAILED" ELSE asked
             n == [x EXCEPT !.state = s]
  <1>1. why \in Codes /\ last \in Codes
    BY DEF Codes
  <1>2. /\ RecordedAssistant(named, asked) \in Results
        /\ RecordedAssistant(named, asked).generation = "completed" <=> t.gen = "complete"
        /\ RecordedAssistant(named, asked).playback = "completed" =>
             t.units # <<>> /\ \A u \in DOMAIN t.units : Heard(t, u)
        /\ RecordedAssistant(named, asked).playback = "not_started" => t.chunks = <<>>
    BY <1>1, RecordedResult
  <1>3. /\ key \in {"none", "open", "closed", "stuck"} /\ key # "open"
        /\ result \in Results /\ s \in {wanted, "FAILED"} /\ s \in Terminal
    BY <1>2 DEF LooseTurn, TurnsIn, Terminal
  <1>4. key = "closed" => t.key = "closed" \/ result = RecordedAssistant(named, asked)
    OBVIOUS
  <1>5. Finished(t, wanted, code, faults) = Transition(x, s)
    <2>1. [named EXCEPT !.key = IF @ # "open" THEN @ ELSE IF lost THEN "stuck" ELSE "closed",
                        !.result = IF t.key = "open" /\ ~lost
                                   THEN RecordedAssistant(named, asked) ELSE @,
                        !.code = IF untraced THEN "trace" ELSE IF lost THEN "recording" ELSE @]
          = x
      BY DEF LooseTurn, TurnsIn
    <2> QED BY <2>1 DEF Finished
  <1> HIDE DEF key, result, last
  <1>6. /\ x.state = t.state /\ x.genDone = t.genDone /\ x.input = t.input
        /\ x.speechErr = t.speechErr /\ "state" \in DOMAIN x
        /\ x = [f \in DOMAIN x |-> x[f]]
    BY DEF LooseTurn, TurnsIn
  <1>7. n \in AnyTurn /\ Same(t, n) /\ n.key = key /\ n.result = result /\ n.state = s
    BY <1>1, <1>3 DEF LooseTurn, AnyTurn, TurnsIn, Same
  <1>8. MayComplete(x) = MayComplete(t) /\ ~Ended(x)
    BY <1>6 DEF MayComplete, TextWithoutSpeech, Ended
  <1> HIDE DEF x
  <1>9. Transition(x, s) = n
    <2>1. \/ s \in {"FAILED", "INCOMPLETE"}
          \/ s = "CANCELED" /\ x.state = "CANCELING"
          \/ s = "COMPLETED" /\ MayComplete(x)
      BY <1>6, <1>8 DEF Terminal
    <2> QED BY <1>6, <1>8, <2>1, EndIsAllowed
  <1> HIDE DEF n, s
  <1>10. EndOf(t, n)
    BY <1>2, <1>3, <1>4, <1>7 DEF EndOf, Ended
  <1>11. s = "COMPLETED" => wanted = "COMPLETED"
    BY DEF s
  <1> QED BY <1>3, <1>5, <1>7, <1>9, <1>10, <1>11
\* Operation op is left as n, and the engine is free if op ended.
Becomes(op, n) ==
  /\ turns' = [turns EXCEPT ![op] = n]
  /\ active' = IF active = op THEN NoOp ELSE active

\* n is how turn t ended: nothing it did is changed, and what is recorded of it
\* is true.
Ends(t, n) ==
  /\ n \in AnyTurn /\ Ended(n) /\ Recorded(n)
  /\ n.input = t.input /\ n.session = t.session /\ n.rev = t.rev
  /\ n.prodDone = t.prodDone /\ n.speechErr = t.speechErr
  /\ n.units = t.units /\ n.chunks = t.chunks

\* A turn that had its draft open, or none, ends with a true record, if it is
\* called complete only when its answer is.
LEMMA EndsTruly ==
  ASSUME NEW t, NEW n, EndOf(t, n), t.key \in {"none", "open"},
         n.state = "COMPLETED" => t.gen = "complete"
  PROVE  Ends(t, n)
  <1>1. /\ n \in AnyTurn /\ Ended(n) /\ Same(t, n) /\ n.key # "open"
        /\ n.key = "closed" =>
             /\ n.result.generation = "completed" <=> t.gen = "complete"
             /\ n.result.playback = "completed" =>
                  t.units # <<>> /\ \A u \in DOMAIN t.units : Heard(t, u)
             /\ n.result.playback = "not_started" => t.chunks = <<>>
    BY DEF EndOf
  <1>2. /\ n.input = t.input /\ n.session = t.session /\ n.rev = t.rev /\ n.gen = t.gen
        /\ n.prodDone = t.prodDone /\ n.speechErr = t.speechErr
        /\ n.units = t.units /\ n.chunks = t.chunks
    BY <1>1 DEF Same
  <1>3. \A u : Heard(n, u) = Heard(t, u)
    BY <1>2 DEF Heard, Pieces
  <1>4. Recorded(n)
    BY <1>1, <1>2, <1>3 DEF Recorded
  <1> QED BY <1>1, <1>2, <1>4 DEF Ends

LEMMA LooseTurns ==
  /\ AnyTurn \subseteq LooseTurn
  /\ \A t \in AnyTurn : Ended(t) <=> t.state \in Terminal
  BY DEF AnyTurn, LooseTurn, TurnsIn, Ended

LEMMA FailEnds ==
  ASSUME NEW op \in Ops, NEW t \in AnyTurn, t.key \in {"none", "open"}, ~Ended(t),
         NEW code \in Codes, Fail(op, t, code)
  PROVE  \E n : Ends(t, n) /\ n.state = "FAILED" /\ Becomes(op, n)
  <1>1. PICK faults \in SUBSET Faults :
          turns' = [turns EXCEPT ![op] = Finished(t, "FAILED", code, faults)]
    BY DEF Fail, Finish
  <1> DEFINE n == Finished(t, "FAILED", code, faults)
  <1>2. active' = IF active = op THEN NoOp ELSE active
    BY DEF Fail, Finish
  <1>3. EndOf(t, n) /\ n.state = "FAILED"
    BY FinishedTurn, LooseTurns DEF Terminal
  <1> HIDE DEF n
  <1>4. Ends(t, n)
    BY <1>3, EndsTruly
  <1> QED BY <1>1, <1>2, <1>3, <1>4 DEF Becomes, n

LEMMA CancelEnds ==
  ASSUME NEW op \in Ops, NEW t \in AnyTurn, t.key \in {"none", "open"}, ~Ended(t),
         CancelTurn(op, t)
  PROVE  \E n : Ends(t, n) /\ n.state \in {"CANCELED", "FAILED"} /\ Becomes(op, n)
  <1> DEFINE g == [t EXCEPT !.gen = IF t.gen = "nil" THEN "partial" ELSE t.gen]
             c == [g EXCEPT !.state = "CANCELING"]
  <1>1. g \in AnyTurn /\ g.state = t.state
    BY DEF AnyTurn, TurnsIn
  <1>2. Transition(g, "CANCELING") = c
    BY <1>1 DEF Transition, Allowed, Ended
  <1>3. /\ c \in LooseTurn /\ c.state = "CANCELING"
        /\ c.key = t.key
        /\ c.input = t.input /\ c.session = t.session /\ c.rev = t.rev
        /\ c.prodDone = t.prodDone /\ c.speechErr = t.speechErr
        /\ c.units = t.units /\ c.chunks = t.chunks
    BY DEF AnyTurn, LooseTurn, TurnsIn
  <1>4. Finish(op, c, "CANCELED", "none")
    BY <1>2 DEF CancelTurn
  <1> HIDE DEF c
  <1>5. PICK faults \in SUBSET Faults :
          turns' = [turns EXCEPT ![op] = Finished(c, "CANCELED", "none", faults)]
    BY <1>4 DEF Finish
  <1> DEFINE n == Finished(c, "CANCELED", "none", faults)
  <1>6. active' = IF active = op THEN NoOp ELSE active
    BY <1>4 DEF Finish
  <1>7. ~Ended(c) /\ "none" \in Codes /\ "CANCELED" \in Terminal
    BY <1>3 DEF Ended, Terminal, Codes
  <1>8. EndOf(c, n) /\ n.state \in {"CANCELED", "FAILED"}
    BY <1>3, <1>7, FinishedTurn
  <1> HIDE DEF n
  <1>9. Ends(c, n)
    BY <1>3, <1>8, EndsTruly
  <1>10. Ends(t, n)
    BY <1>3, <1>9 DEF Ends
  <1> QED BY <1>5, <1>6, <1>8, <1>10 DEF Becomes, n

\* A turn is completed, or may be continued, only when it was produced and heard
\* to the end.
LEMMA CompleteEnds ==
  ASSUME NEW op \in Ops, NEW t \in AnyTurn, t.key \in {"none", "open"}, ~Ended(t),
         CompleteIfPlayed(op, t)
  PROVE  \/ Keep(op, t)
         \/ \E n : /\ Ends(t, n) /\ Becomes(op, n) /\ PlayedOut(t) /\ n.gen = t.gen
                   /\ n.state \in {"COMPLETED", "INCOMPLETE", "FAILED"}
                   /\ n.state = "COMPLETED" => t.gen = "complete"
  <1>1. CASE ~PlayedOut(t)
    BY <1>1 DEF CompleteIfPlayed
  <1>2. ASSUME PlayedOut(t), NEW wanted \in {"COMPLETED", "INCOMPLETE"}, NEW code \in Codes,
               wanted = "COMPLETED" => t.gen = "complete", Finish(op, t, wanted, code)
        PROVE  \E n : /\ Ends(t, n) /\ Becomes(op, n) /\ PlayedOut(t) /\ n.gen = t.gen
                      /\ n.state \in {"COMPLETED", "INCOMPLETE", "FAILED"}
                      /\ n.state = "COMPLETED" => t.gen = "complete"
    <2>1. PICK faults \in SUBSET Faults :
            turns' = [turns EXCEPT ![op] = Finished(t, wanted, code, faults)]
      BY <1>2 DEF Finish
    <2> DEFINE n == Finished(t, wanted, code, faults)
    <2>2. active' = IF active = op THEN NoOp ELSE active
      BY <1>2 DEF Finish
    <2>3. /\ EndOf(t, n) /\ n.state \in {wanted, "FAILED"}
          /\ n.state = "COMPLETED" => wanted = "COMPLETED"
      BY FinishedTurn, LooseTurns DEF Terminal
    <2> HIDE DEF n
    <2>4. Ends(t, n) /\ n.gen = t.gen
      BY <1>2, <2>3, EndsTruly DEF EndOf, Same
    <2> QED BY <1>2, <2>1, <2>2, <2>3, <2>4 DEF Becomes, n
  <1>3. CASE PlayedOut(t) /\ t.gen = "complete"
    BY <1>2, <1>3 DEF CompleteIfPlayed, Codes
  <1>4. CASE PlayedOut(t) /\ t.gen # "complete"
    BY <1>2, <1>4 DEF CompleteIfPlayed, Codes
  <1> QED BY <1>1, <1>3, <1>4
-----------------------------------------------------------------------------
(* Values that keep the invariant *)

\* A turn that was ended by force: its goroutines may be anywhere.
LEMMA ForcedIsGood ==
  ASSUME NEW n \in AnyTurn, Over(n), Recorded(n), n.speechErr => n.input = "text",
         NEW i, NEW m, NEW s, Consumed(m, s),
         i # "none" => Waits(n, m, s),
         i = "arm" => n.input = "candidate"
  PROVE  Good(n, i, m, s)
  BY DEF Good, Over, Accepts, OneAttempt, SpokenFor, Completed, Active

\* A turn that goes on, with another state, other chunks or more of its answer,
\* but the same units and goroutines.
GoesOn(t, n) ==
  /\ n \in AnyTurn /\ n.state \in Active
  /\ \/ n.state = t.state
     \/ {n.state, t.state} \subseteq {"THINKING", "SYNTHESIZING", "PLAYING"}
  /\ n.key \in {"none", "open"} /\ n.input = t.input /\ n.rev = t.rev
  /\ n.prodDone = t.prodDone /\ n.speechErr = t.speechErr /\ n.units = t.units

LEMMA GoesOnIsGood ==
  ASSUME NEW t, NEW n, NEW i, NEW m, NEW s,
         t.state \in Active, Good(t, i, m, s), GoesOn(t, n), i \in {"none", "asr", "arm"}
  PROVE  Good(n, i, m, s)
  <1>1. ~Over(t) /\ ~Over(n) /\ ~Ended(n)
    BY DEF Over, Active, Terminal, GoesOn, Ended
  <1>2. Accepts(n, i, m, s)
    BY DEF Good, GoesOn, Accepts, Waits, Active
  <1>3. OneAttempt(n, m, s)
    BY <1>1 DEF Good, GoesOn, OneAttempt, Active
  <1>4. SpokenFor(n, m, s)
    BY <1>1 DEF Good, GoesOn, SpokenFor, OnItsWay
  <1>5. Recorded(n)
    BY <1>1 DEF GoesOn, Recorded
  <1>6. Completed(n)
    BY DEF Good, GoesOn, Completed, Active
  <1> QED BY <1>2, <1>3, <1>4, <1>5, <1>6 DEF Good

\* A turn whose producers are done and whose chunks were heard is completed or
\* may be continued.
LEMMA PlayedOutIsGood ==
  ASSUME NEW t \in AnyTurn, NEW n, NEW i \in {"none", "asr", "arm"}, NEW m, NEW s,
         t.state \in Active, Good(t, i, m, s), PlayedOut(t), Ends(t, n), n.gen = t.gen,
         n.state \in {"COMPLETED", "INCOMPLETE", "FAILED"},
         n.state = "COMPLETED" => t.gen = "complete"
  PROVE  Good(n, i, m, s)
  <1>1. /\ t.prodDone /\ AllStopped(t) /\ ~Over(t) /\ i = "none"
        /\ t.state \notin {"none", "RECORDING", "TRANSCRIBING"}
    <2>1. i = "none" /\ t.state \notin {"none", "RECORDING", "TRANSCRIBING"}
      BY DEF Good, Accepts, Waits, PlayedOut
    <2> QED BY <2>1 DEF PlayedOut, Over, Active
  <1>2. /\ n \in AnyTurn /\ Recorded(n)
        /\ n.input = t.input /\ n.rev = t.rev
        /\ n.prodDone = t.prodDone /\ n.speechErr = t.speechErr
        /\ n.units = t.units /\ n.chunks = t.chunks
    BY DEF Ends
  <1>3. OneAttempt(n, m, s)
    BY <1>1, <1>2 DEF Good, OneAttempt, Active
  <1>4. SpokenFor(n, m, s)
    <2>1. m[t.rev].pc = "none"
      BY <1>1 DEF Good, OneAttempt, Rests
    <2> QED BY <1>1, <1>2, <2>1 DEF Good, SpokenFor, OnItsWay
  <1>5. Completed(n)
    BY <1>1, <1>2 DEF Good, Completed, AllStopped
  <1>6. Accepts(n, i, m, s)
    BY <1>1 DEF Accepts
  <1> QED BY <1>2, <1>3, <1>4, <1>5, <1>6 DEF Good

\* What a provider finished counts: nothing that was heard is unheard by it.
LEMMA SealedIsGood ==
  ASSUME NEW t \in AnyTurn, NEW u, NEW i, NEW m, NEW s, Good(t, i, m, s)
  PROVE  LET n == [t EXCEPT !.units[u].sealed = TRUE]
         IN  n \in AnyTurn /\ Good(n, i, m, s) /\ n.state = t.state
             /\ n = [t EXCEPT !.units = n.units]
             /\ DOMAIN n.units = DOMAIN t.units
             /\ \A x \in DOMAIN t.units : /\ t.units[x].sealed => n.units[x].sealed
                                          /\ x = u => n.units[x].sealed
  <1> DEFINE units == [t.units EXCEPT ![u].sealed = TRUE]
             n == [t EXCEPT !.units = units]
  <1>1. t.units \in Seq(Units)
    BY DEF AnyTurn, TurnsIn
  <1>2. /\ units \in Seq(Units) /\ DOMAIN units = DOMAIN t.units /\ Len(units) = Len(t.units)
        /\ units = <<>> <=> t.units = <<>>
        /\ \A x \in DOMAIN t.units :
             /\ t.units[x].sealed => units[x].sealed
             /\ x = u => units[x].sealed
    <2>1. CASE u \in DOMAIN t.units
      <3>1. t.units[u] \in Units /\ u \in 1 .. Len(t.units)
        BY <1>1, <2>1, ElementOfSeq, LenProperties
      <3>2. [t.units[u] EXCEPT !.sealed = TRUE] \in Units
            /\ [t.units[u] EXCEPT !.sealed = TRUE].sealed
        BY <3>1 DEF Units
      <3>3. units = [t.units EXCEPT ![u] = [t.units[u] EXCEPT !.sealed = TRUE]]
        OBVIOUS
      <3>4. /\ units \in Seq(Units) /\ Len(units) = Len(t.units)
            /\ \A x \in 1 .. Len(t.units) :
                 units[x] = IF x = u THEN [t.units[u] EXCEPT !.sealed = TRUE] ELSE t.units[x]
        BY <1>1, <3>1, <3>2, <3>3, ExceptSeq
      <3>5. DOMAIN units = 1 .. Len(t.units) /\ DOMAIN t.units = 1 .. Len(t.units)
        BY <1>1, <3>4, LenProperties
      <3>6. units = <<>> <=> t.units = <<>>
        BY <1>1, <3>4, EmptySeq
      <3> QED BY <3>2, <3>4, <3>5, <3>6
    <2>2. CASE u \notin DOMAIN t.units
      <3>1. units = t.units
        BY <1>1, <2>2, LenProperties
      <3> QED BY <1>1, <2>2, <3>1
    <2> QED BY <2>1, <2>2
  <1>3. [t EXCEPT !.units[u].sealed = TRUE] = n
    BY DEF AnyTurn, TurnsIn
  <1> HIDE DEF units
  <1>4. /\ n \in AnyTurn /\ n.units = units /\ n.state = t.state /\ n.input = t.input
        /\ n.rev = t.rev /\ n.gen = t.gen /\ n.prodDone = t.prodDone
        /\ n.speechErr = t.speechErr /\ n.chunks = t.chunks /\ n.key = t.key
        /\ n.result = t.result
    BY <1>2 DEF AnyTurn, TurnsIn
  <1> HIDE DEF n
  <1>5. Over(n) = Over(t) /\ Ended(n) = Ended(t) /\ AllStopped(n) = AllStopped(t)
    BY <1>4 DEF Over, Ended, AllStopped
  <1>6. \A x \in DOMAIN t.units : Heard(t, x) => Heard(n, x)
    BY <1>2, <1>4 DEF Heard, Pieces
  <1>7. Recorded(n)
    BY <1>2, <1>4, <1>5, <1>6 DEF Good, Recorded
  <1>8. Accepts(n, i, m, s) /\ OneAttempt(n, m, s) /\ Completed(n)
    BY <1>4, <1>5 DEF Good, Accepts, Waits, OneAttempt, Completed
  <1>9. SpokenFor(n, m, s)
    BY <1>2, <1>4, <1>5 DEF Good, SpokenFor, OnItsWay
  <1>10. n = [t EXCEPT !.units = n.units]
    BY <1>4 DEF n
  <1>11. Good(n, i, m, s)
    BY <1>7, <1>8, <1>9 DEF Good
  <1> QED BY <1>2, <1>3, <1>4, <1>10, <1>11
-----------------------------------------------------------------------------
(* Steps of one operation *)

\* The session a turn that starts now would belong to.
Running == IF voice.st = "running" THEN <<voice.id, voice.epoch>> ELSE NoSession

\* What op has after a step of it: its turn n, its input goroutine i, and its
\* generators m and speech goroutines s.
StepTo(op, n, i, m, s) ==
  /\ turns' = [turns EXCEPT ![op] = n] /\ input' = [input EXCEPT ![op] = i]
  /\ main' = [main EXCEPT ![op] = m] /\ speech' = [speech EXCEPT ![op] = s]
  /\ voice' = voice

LEMMA TypedParts ==
  ASSUME IInv, NEW op \in Ops
  PROVE  /\ turns[op] \in AnyTurn /\ input[op] \in {"none", "asr", "arm"}
         /\ main[op] \in [Revisions -> MainSteps]
         /\ speech[op] \in [Revisions -> SpeechSteps]
         /\ turns = [turns EXCEPT ![op] = turns[op]]
         /\ input = [input EXCEPT ![op] = input[op]]
         /\ main = [main EXCEPT ![op] = main[op]]
         /\ speech = [speech EXCEPT ![op] = speech[op]]
         /\ Good(turns[op], input[op], main[op], speech[op])
         /\ turns[op].rev \in Revisions
         /\ turns[op].key \in {"none", "open", "closed", "stuck"}
         /\ ~Ended(turns[op]) => turns[op].key \in {"none", "open"}
  <1>1. turns[op] \in AnyTurn /\ Good(turns[op], input[op], main[op], speech[op])
    BY DEF IInv, Shapes
  <1>2. ~Ended(turns[op]) => turns[op].key \in {"none", "open"}
    BY <1>1 DEF Good, Recorded
  <1>3. /\ turns[op].rev \in Revisions
        /\ turns[op].key \in {"none", "open", "closed", "stuck"}
    BY <1>1 DEF AnyTurn, TurnsIn
  <1> QED BY <1>1, <1>2, <1>3 DEF IInv, Shapes

LEMMA Local ==
  ASSUME IInv, NEW op \in Ops, NEW n \in AnyTurn, NEW i \in {"none", "asr", "arm"},
         NEW m \in [Revisions -> MainSteps], NEW s \in [Revisions -> SpeechSteps],
         StepTo(op, n, i, m, s), Good(n, i, m, s),
         active' \in Ops \cup {NoOp},
         n.state \in Active <=> active' = op,
         \A o \in Ops \ {op} : active' = o <=> active = o,
         n.state \in Active /\ n.rev = 1 => Running = n.session
  PROVE  IInv'
  <1>1. Shapes'
    BY DEF IInv, Shapes, StepTo
  <1>2. /\ turns'[op] = n /\ input'[op] = i /\ main'[op] = m /\ speech'[op] = s
        /\ \A o \in Ops \ {op} : /\ turns'[o] = turns[o] /\ input'[o] = input[o]
                                 /\ main'[o] = main[o] /\ speech'[o] = speech[o]
    BY DEF IInv, Shapes, StepTo
  <1>3. \A o \in Ops : Good(turns'[o], input'[o], main'[o], speech'[o])
    BY <1>2 DEF IInv
  <1>4. OneActive'
    BY <1>2 DEF IInv, OneActive, Live
  <1>5. SessionOwnsTurn'
    BY <1>2 DEF IInv, SessionOwnsTurn, Live, Running, StepTo
  <1> QED BY <1>1, <1>3, <1>4, <1>5 DEF IInv

\* A step after which the turn is under way exactly if it was before.
LEMMA Kept ==
  ASSUME IInv, NEW op \in Ops, NEW n \in AnyTurn, NEW i \in {"none", "asr", "arm"},
         NEW m \in [Revisions -> MainSteps], NEW s \in [Revisions -> SpeechSteps],
         StepTo(op, n, i, m, s), Good(n, i, m, s), active' = active,
         n.state \in Active <=> Live(op),
         n.session = turns[op].session, n.rev = turns[op].rev
  PROVE  IInv'
  <1>1. n.state \in Active <=> active' = op
    BY DEF IInv, OneActive
  <1>2. n.state \in Active /\ n.rev = 1 => Running = n.session
    BY DEF IInv, SessionOwnsTurn, Running
  <1>3. active' \in Ops \cup {NoOp}
    BY DEF IInv, Shapes
  <1> QED BY <1>1, <1>2, <1>3, Local

\* A step that ends the turn.
LEMMA Left ==
  ASSUME IInv, NEW op \in Ops, NEW n \in AnyTurn, NEW i \in {"none", "asr", "arm"},
         NEW m \in [Revisions -> MainSteps], NEW s \in [Revisions -> SpeechSteps],
         StepTo(op, n, i, m, s), Good(n, i, m, s), Becomes(op, n), Ended(n)
  PROVE  IInv'
  <1>1. n.state \notin Active
    BY DEF Ended, Active, Terminal
  <1>2. active' # op /\ active' \in Ops \cup {NoOp}
        /\ \A o \in Ops \ {op} : active' = o <=> active = o
    BY OpsAssumption DEF Becomes, IInv, Shapes
  <1> QED BY <1>1, <1>2, Local

\* A step that fails or cancels a turn that has not ended: whatever its
\* goroutines do, they do for nothing.
LEMMA Forced ==
  ASSUME IInv, NEW op \in Ops, NEW t \in AnyTurn, NEW n, NEW i \in {"none", "asr", "arm"},
         NEW m \in [Revisions -> MainSteps], NEW s \in [Revisions -> SpeechSteps],
         input' = [input EXCEPT ![op] = i], main' = [main EXCEPT ![op] = m],
         speech' = [speech EXCEPT ![op] = s], voice' = voice,
         Ends(t, n), Over(n), Becomes(op, n), Consumed(m, s),
         t.speechErr => t.input = "text",
         i # "none" => Waits(t, m, s), i = "arm" => t.input = "candidate"
  PROVE  IInv'
  <1>1. /\ n \in AnyTurn /\ Recorded(n) /\ Ended(n)
        /\ n.speechErr => n.input = "text"
        /\ i # "none" => Waits(n, m, s)
        /\ i = "arm" => n.input = "candidate"
    BY DEF Ends, Waits
  <1>2. Good(n, i, m, s)
    BY <1>1, ForcedIsGood
  <1>3. StepTo(op, n, i, m, s)
    BY DEF StepTo, Becomes
  <1> QED BY <1>1, <1>2, <1>3, Left

-----------------------------------------------------------------------------
(* Starting, accepting and continuing a turn *)

LEMMA InitInv ==
  ASSUME Init
  PROVE  IInv
  <1>1. NoTurn \in AnyTurn
    <2>1. NoSession \in Sessions /\ 1 \in Revisions /\ NoResult \in Results
      BY BoundsAssumption DEF NoSession, Sessions, Revisions, NoResult, Results
    <2>2. <<>> \in Seq(Units) /\ <<>> \in Seq(Audio)
      BY EmptySeq
    <2> QED BY <2>1, <2>2 DEF NoTurn, AnyTurn, TurnsIn, Codes
  <1>2. Idle \in SpeechSteps
    <2>1. <<>> \in Seq(Nat)
      BY EmptySeq
    <2> QED BY <2>1 DEF Idle, SpeechSteps
  <1>3. Shapes
    BY <1>1, <1>2 DEF Init, Shapes, MainSteps
  <1>4. /\ NoTurn.state = "none" /\ NoTurn.rev = 1 /\ ~NoTurn.prodDone /\ NoTurn.key = "none"
        /\ NoTurn.units = <<>> /\ ~NoTurn.speechErr
    BY DEF NoTurn
  <1>5. OneActive /\ SessionOwnsTurn
    BY <1>4, OpsAssumption DEF Init, OneActive, SessionOwnsTurn, Live, Active
  <1>6. ASSUME NEW op \in Ops
        PROVE  Good(turns[op], input[op], main[op], speech[op])
    <2>1. /\ turns[op] = NoTurn /\ input[op] = "none"
          /\ \A r \in Revisions : main[op][r].pc = "none" /\ speech[op][r] = Idle
      BY <1>6 DEF Init
    <2>2. Waits(turns[op], main[op], speech[op])
      BY <1>4, <2>1 DEF Waits, Idle
    <2>3. Consumed(main[op], speech[op])
      BY <2>1 DEF Consumed, Idle
    <2>4. OneAttempt(turns[op], main[op], speech[op])
      BY <1>4, <2>1 DEF OneAttempt, Rests, Idle, Active
    <2> QED BY <1>4, <2>1, <2>2, <2>3, <2>4
            DEF Good, Accepts, SpokenFor, Recorded, Completed, Ended, Terminal
  <1> QED BY <1>3, <1>5, <1>6 DEF IInv

LEMMA StartInv ==
  ASSUME IInv, NEW op \in Ops, NEW kind \in Inputs, NEW session \in Sessions,
         Start(op, kind, session)
  PROVE  IInv'
  <1> DEFINE n == [NoTurn EXCEPT !.state = "RECORDING", !.input = kind,
                                 !.session = session]
             i == IF kind = "candidate" THEN "arm" ELSE "none"
  <1>1. /\ n \in AnyTurn /\ n.state = "RECORDING" /\ n.input = kind
        /\ n.session = session /\ n.rev = 1 /\ ~n.prodDone /\ ~n.speechErr
        /\ n.units = <<>> /\ n.key = "none"
    <2>1. NoSession \in Sessions /\ 1 \in Revisions /\ NoResult \in Results
      BY BoundsAssumption DEF NoSession, Sessions, Revisions, NoResult, Results
    <2>2. <<>> \in Seq(Units) /\ <<>> \in Seq(Audio)
      BY EmptySeq
    <2>3. kind \in Kinds
      BY InputsAssumption DEF Kinds
    <2> QED BY <2>1, <2>2, <2>3 DEF NoTurn, AnyTurn, TurnsIn, Active, Codes
  <1> HIDE DEF n
  <1>2. /\ main[op] \in [Revisions -> MainSteps] /\ speech[op] \in [Revisions -> SpeechSteps]
        /\ Good(turns[op], input[op], main[op], speech[op])
    BY TypedParts
  <1>3. StepTo(op, n, i, main[op], speech[op])
    BY TypedParts DEF Start, SetTurn, StepTo, n
  <1>4. \A r \in Revisions : main[op][r].pc = "none" /\ speech[op][r].pc = "idle"
    BY <1>2 DEF Start, Good, Accepts, Waits
  <1>5. Good(n, i, main[op], speech[op])
    <2>1. Waits(n, main[op], speech[op])
      BY <1>1, <1>4 DEF Waits
    <2>2. OneAttempt(n, main[op], speech[op])
      BY <1>1, <1>4 DEF OneAttempt, Rests
    <2> QED BY <1>1, <1>2, <2>1, <2>2
            DEF Good, Accepts, SpokenFor, Recorded, Completed, Ended, Terminal
  <1>6. Running = session
    BY DEF Start, ValidSession, Running
  <1>7. active' = op /\ active = NoOp
    BY DEF Start
  <1>8. n.state \in Active
    BY <1>1 DEF Active
  <1> QED BY <1>1, <1>2, <1>3, <1>5, <1>6, <1>7, <1>8, OpsAssumption, Local

\* The input goroutine hands over: the first attempt is about to start.
LEMMA HandedOverIsGood ==
  ASSUME NEW t \in AnyTurn, NEW n, NEW i, NEW m \in [Revisions -> MainSteps], NEW s,
         Good(t, i, m, s), i # "none",
         n.input = t.input, n.rev = t.rev, n.prodDone = t.prodDone,
         n.speechErr = t.speechErr, n.units = t.units,
         Recorded(n), n.state \in {"THINKING", "FAILED", "CANCELED"},
         Over(t) => Over(n)
  PROVE  Good(n, "none", [m EXCEPT ![1].pc = "start"], s)
  <1> DEFINE k == [m EXCEPT ![1].pc = "start"]
  <1>1. Waits(t, m, s)
    BY DEF Good, Accepts
  <1>2. t.rev = 1 /\ 1 \in Revisions
    BY <1>1, BoundsAssumption DEF Waits, Revisions
  <1>3. k[1].pc = "start" /\ \A r \in Revisions \ {1} : k[r] = m[r]
    BY <1>2 DEF MainSteps
  <1> HIDE DEF k
  <1>4. Accepts(n, "none", k, s)
    BY DEF Accepts
  <1>5. OneAttempt(n, k, s)
    BY <1>1, <1>2, <1>3 DEF OneAttempt, Waits, Rests
  <1>6. Consumed(k, s)
    BY <1>2, <1>3 DEF Good, Consumed
  <1>7. SpokenFor(n, k, s)
    <2>1. m[1].pc = "none"
      BY <1>1, <1>2 DEF Waits
    <2>2. ~Over(t) => \A u \in DOMAIN t.units : t.units[u].sealed \/ t.speechErr
      BY <1>2, <2>1 DEF Good, SpokenFor, OnItsWay
    <2> QED BY <2>2 DEF SpokenFor
  <1>8. Completed(n)
    BY DEF Good, Completed
  <1> QED BY <1>4, <1>5, <1>6, <1>7, <1>8 DEF Good, k
\* An attempt's goroutine takes a step: what the others of the operation have is
\* as before.
LEMMA MainStep ==
  ASSUME IInv, NEW op \in Ops, NEW r \in Revisions, NEW pc, SetMain(op, r, pc),
         pc \in {"none", "start", "llm", "push", "wait"}
  PROVE  LET m == [main[op] EXCEPT ![r].pc = pc]
         IN  /\ main' = [main EXCEPT ![op] = m] /\ m \in [Revisions -> MainSteps]
             /\ m[r].pc = pc /\ m[r].first = main[op][r].first
             /\ \A q \in Revisions \ {r} : m[q] = main[op][q]
  <1> DEFINE k == [main[op][r] EXCEPT !.pc = pc]
  <1>1. main[op] \in [Revisions -> MainSteps] /\ main[op][r] \in MainSteps
    BY TypedParts
  <1>2. k \in MainSteps /\ k.pc = pc /\ k.first = main[op][r].first
    BY <1>1 DEF MainSteps
  <1>3. [main[op] EXCEPT ![r].pc = pc] = [main[op] EXCEPT ![r] = k]
    BY <1>1
  <1>4. main' = [main EXCEPT ![op] = [main[op] EXCEPT ![r] = k]]
    BY <1>1 DEF SetMain, IInv, Shapes
  <1> HIDE DEF k
  <1> QED BY <1>1, <1>2, <1>3, <1>4

LEMMA SpeechStep ==
  ASSUME IInv, NEW op \in Ops, NEW r \in Revisions, NEW x \in SpeechSteps,
         SetSpeech(op, r, x)
  PROVE  LET s == [speech[op] EXCEPT ![r] = x]
         IN  /\ speech' = [speech EXCEPT ![op] = s] /\ s \in [Revisions -> SpeechSteps]
             /\ s[r] = x /\ \A q \in Revisions \ {r} : s[q] = speech[op][q]
  BY TypedParts DEF SetSpeech, IInv, Shapes

\* A turn that has not ended is stopped with whatever its goroutines have then.
LEMMA Stopped ==
  ASSUME IInv, NEW op \in Ops, NEW t \in AnyTurn, NEW i \in {"none", "asr", "arm"},
         NEW m \in [Revisions -> MainSteps], NEW s \in [Revisions -> SpeechSteps],
         NEW code \in Codes, Fail(op, t, code) \/ CancelTurn(op, t),
         ~Ended(t), t.key \in {"none", "open"}, t.speechErr => t.input = "text",
         input' = [input EXCEPT ![op] = i], main' = [main EXCEPT ![op] = m],
         speech' = [speech EXCEPT ![op] = s], voice' = voice, Consumed(m, s),
         i # "none" => Waits(t, m, s), i = "arm" => t.input = "candidate"
  PROVE  IInv'
  <1>1. PICK n : Ends(t, n) /\ Over(n) /\ Becomes(op, n)
    BY FailEnds, CancelEnds DEF Over
  <1> QED BY <1>1, Forced

\* The same when nothing else happens; an ended turn is left alone.
LEMMA StoppedAsIs ==
  ASSUME IInv, NEW op \in Ops, NEW i \in {"none", input[op]}, NEW code \in Codes,
         Fail(op, turns[op], code) \/ CancelTurn(op, turns[op]),
         input' = [input EXCEPT ![op] = i], main' = main, speech' = speech, voice' = voice
  PROVE  IInv'
  <1> DEFINE t == turns[op]
  <1>1. /\ t \in AnyTurn /\ Good(t, input[op], main[op], speech[op])
        /\ main[op] \in [Revisions -> MainSteps] /\ speech[op] \in [Revisions -> SpeechSteps]
        /\ i \in {"none", "asr", "arm"} /\ turns = [turns EXCEPT ![op] = t]
        /\ main' = [main EXCEPT ![op] = main[op]]
        /\ speech' = [speech EXCEPT ![op] = speech[op]]
    BY TypedParts
  <1>2. Good(t, i, main[op], speech[op])
    BY <1>1 DEF Good, Accepts
  <1>3. CASE Ended(t)
    <2>1. StepTo(op, t, i, main[op], speech[op]) /\ active' = active
      BY <1>1, <1>3 DEF Fail, CancelTurn, Keep, StepTo
    <2>2. t.state \in Active <=> Live(op)
      BY DEF Live
    <2> QED BY <1>1, <1>2, <2>1, <2>2, Kept
  <1>4. CASE ~Ended(t)
    <2>1. t.key \in {"none", "open"} /\ (t.speechErr => t.input = "text")
      BY <1>2, <1>4 DEF Good, Recorded, Completed
    <2>2. /\ Consumed(main[op], speech[op])
          /\ i # "none" => Waits(t, main[op], speech[op])
          /\ i = "arm" => t.input = "candidate"
      BY <1>2 DEF Good, Accepts
    <2> QED BY <1>1, <1>4, <2>1, <2>2, Stopped
  <1> QED BY <1>3, <1>4

LEMMA ArmCandidateInv ==
  ASSUME IInv, NEW op \in Ops, ArmCandidate(op)
  PROVE  IInv'
  <1> DEFINE t == turns[op]
  <1>1. /\ t \in AnyTurn /\ Good(t, "arm", main[op], speech[op])
        /\ main[op] \in [Revisions -> MainSteps] /\ speech[op] \in [Revisions -> SpeechSteps]
        /\ t.state \in {"RECORDING", "FAILED", "CANCELED"} /\ t.input = "candidate"
        /\ Waits(t, main[op], speech[op])
    BY TypedParts DEF ArmCandidate, Good, Accepts
  <1>2. /\ 1 \in Revisions /\ input' = [input EXCEPT ![op] = "none"] /\ voice' = voice
        /\ speech' = [speech EXCEPT ![op] = speech[op]] /\ speech' = speech
    BY BoundsAssumption, TypedParts DEF Revisions, ArmCandidate
  <1>3. ASSUME NEW key \in {"open", "none"},
               Keep(op, Transition(Transition([t EXCEPT !.key = key], "TRANSCRIBING"), "THINKING")),
               SetMain(op, 1, "start")
        PROVE  IInv'
    <2> DEFINE k == [t EXCEPT !.key = key]
               x == [k EXCEPT !.state = "TRANSCRIBING"]
               y == [x EXCEPT !.state = "THINKING"]
               n == IF Ended(t) THEN k ELSE y
    <2>1. /\ k \in AnyTurn /\ k.state = t.state /\ k.key = key
          /\ k.input = t.input /\ k.session = t.session /\ k.rev = t.rev
          /\ k.prodDone = t.prodDone /\ k.speechErr = t.speechErr /\ k.units = t.units
      BY <1>1 DEF AnyTurn, TurnsIn
    <2>2. Transition(Transition(k, "TRANSCRIBING"), "THINKING") = n
      <3>1. CASE Ended(t)
        BY <2>1, <3>1 DEF Transition, Allowed, Ended
      <3>2. CASE ~Ended(t)
        <4>1. t.state = "RECORDING"
          BY <1>1, <3>2 DEF Ended, Terminal
        <4>2. Transition(k, "TRANSCRIBING") = x
          BY <2>1, <4>1 DEF Transition, Allowed, Follows, Ended, Terminal
        <4>3. x.state = "TRANSCRIBING"
          BY <2>1 DEF AnyTurn, TurnsIn
        <4> HIDE DEF x
        <4>4. Transition(x, "THINKING") = y
          BY <4>3 DEF Transition, Allowed, Follows, Ended, Terminal
        <4> QED BY <3>2, <4>2, <4>4
      <3> QED BY <3>1, <3>2
    <2>3. /\ n \in AnyTurn /\ n.key = key
          /\ n.state = IF Ended(t) THEN t.state ELSE "THINKING"
          /\ n.input = t.input /\ n.session = t.session /\ n.rev = t.rev
          /\ n.prodDone = t.prodDone /\ n.speechErr = t.speechErr /\ n.units = t.units
      <3> HIDE DEF k
      <3>1. /\ y \in AnyTurn /\ y.key = k.key /\ y.state = "THINKING"
            /\ y.input = k.input /\ y.session = k.session /\ y.rev = k.rev
            /\ y.prodDone = k.prodDone /\ y.speechErr = k.speechErr /\ y.units = k.units
        BY <2>1 DEF AnyTurn, TurnsIn, Active
      <3> HIDE DEF y
      <3> QED BY <2>1, <3>1
    <2> HIDE DEF n
    <2>4. n.state \in {"THINKING", "FAILED", "CANCELED"} /\ (Over(t) => Over(n))
          /\ (n.state \in Active <=> t.state \in Active)
      BY <1>1, <2>3 DEF Ended, Over, Active, Terminal
    <2>5. Recorded(n)
      BY <1>1, <2>3 DEF Recorded, Ended, Terminal
    <2>6. LET m == [main[op] EXCEPT ![1].pc = "start"]
          IN  /\ main' = [main EXCEPT ![op] = m] /\ m \in [Revisions -> MainSteps]
              /\ Good(n, "none", m, speech[op])
      BY <1>1, <1>2, <1>3, <2>3, <2>4, <2>5, MainStep, HandedOverIsGood
    <2>7. turns' = [turns EXCEPT ![op] = n] /\ active' = active
      BY <1>3, <2>2 DEF Keep
    <2> QED BY <1>1, <1>2, <2>3, <2>4, <2>6, <2>7, Kept DEF StepTo, Live
  <1>4. ASSUME Fail(op, t, "recording"), main' = main
        PROVE  IInv'
    BY <1>1, <1>2, <1>4, StoppedAsIs DEF Codes
  <1> QED BY <1>3, <1>4 DEF ArmCandidate
LEMMA CommitInv ==
  ASSUME IInv, NEW op \in Ops, Commit(op)
  PROVE  IInv'
  <1> DEFINE t == turns[op]
             n == [t EXCEPT !.state = "TRANSCRIBING"]
  <1>1. /\ t \in AnyTurn /\ Good(t, "none", main[op], speech[op]) /\ t.state = "RECORDING"
        /\ main[op] \in [Revisions -> MainSteps] /\ speech[op] \in [Revisions -> SpeechSteps]
    BY TypedParts DEF Commit
  <1>2. Transition(t, "TRANSCRIBING") = n
    BY <1>1 DEF Transition, Allowed, Follows, Ended, Terminal
  <1>3. StepTo(op, n, "asr", main[op], speech[op]) /\ active' = active
    BY <1>2, TypedParts DEF Commit, Keep, StepTo
  <1>4. /\ n \in AnyTurn /\ n.state = "TRANSCRIBING" /\ n.key = t.key
        /\ n.input = t.input /\ n.session = t.session /\ n.rev = t.rev
        /\ n.prodDone = t.prodDone /\ n.speechErr = t.speechErr /\ n.units = t.units
    BY <1>1 DEF AnyTurn, TurnsIn, Active
  <1> HIDE DEF n
  <1>5. Good(n, "asr", main[op], speech[op])
    <2>1. Waits(n, main[op], speech[op])
      BY <1>1, <1>4 DEF Good, Accepts, Waits
    <2>2. ~Over(t) /\ ~Over(n) /\ ~Ended(t) /\ ~Ended(n)
      BY <1>1, <1>4 DEF Over, Ended, Terminal
    <2>3. OneAttempt(n, main[op], speech[op]) /\ SpokenFor(n, main[op], speech[op])
      BY <1>1, <1>4, <2>1, <2>2 DEF Good, Waits, OneAttempt, SpokenFor, OnItsWay
    <2>4. Recorded(n) /\ Completed(n)
      BY <1>1, <1>4, <2>2 DEF Good, Recorded, Completed
    <2> QED BY <1>1, <1>4, <2>1, <2>3, <2>4 DEF Good, Accepts
  <1>6. n.state \in Active <=> Live(op)
    BY <1>1, <1>4 DEF Live, Active
  <1> QED BY <1>1, <1>3, <1>4, <1>5, <1>6, Kept

LEMMA AcceptTranscriptInv ==
  ASSUME IInv, NEW op \in Ops, AcceptTranscript(op)
  PROVE  IInv'
  <1> DEFINE t == turns[op]
  <1>1. /\ t \in AnyTurn /\ Good(t, "asr", main[op], speech[op])
        /\ main[op] \in [Revisions -> MainSteps] /\ speech[op] \in [Revisions -> SpeechSteps]
        /\ Waits(t, main[op], speech[op])
        /\ input' = [input EXCEPT ![op] = "none"] /\ voice' = voice
        /\ speech' = [speech EXCEPT ![op] = speech[op]] /\ speech' = speech
    BY TypedParts DEF AcceptTranscript, Good, Accepts
  <1>2. 1 \in Revisions /\ main = [main EXCEPT ![op] = main[op]]
        /\ turns = [turns EXCEPT ![op] = t]
    BY BoundsAssumption, TypedParts DEF Revisions
  <1>3. ASSUME Live(op), NEW key \in {"open", "none"},
               Keep(op, Transition([t EXCEPT !.key = key], "THINKING")), SetMain(op, 1, "start")
        PROVE  IInv'
    <2> DEFINE k == [t EXCEPT !.key = key]
               n == [k EXCEPT !.state = "THINKING"]
    <2>1. t.state = "TRANSCRIBING"
      BY <1>1, <1>3 DEF Live, Good, Accepts, Active
    <2>2. /\ k \in AnyTurn /\ k.state = t.state /\ k.key = key
          /\ k.input = t.input /\ k.session = t.session /\ k.rev = t.rev
          /\ k.prodDone = t.prodDone /\ k.speechErr = t.speechErr /\ k.units = t.units
      BY <1>1 DEF AnyTurn, TurnsIn
    <2> HIDE DEF k
    <2>3. Transition(k, "THINKING") = n
      BY <2>1, <2>2 DEF Transition, Allowed, Follows, Ended, Terminal
    <2>4. /\ n \in AnyTurn /\ n.state = "THINKING" /\ n.key = key
          /\ n.input = t.input /\ n.session = t.session /\ n.rev = t.rev
          /\ n.prodDone = t.prodDone /\ n.speechErr = t.speechErr /\ n.units = t.units
      BY <2>2 DEF AnyTurn, TurnsIn, Active
    <2> HIDE DEF n
    <2>5. Recorded(n) /\ ~Over(t)
      BY <2>1, <2>4 DEF Recorded, Ended, Terminal, Over
    <2> DEFINE m == [main[op] EXCEPT ![1].pc = "start"]
    <2>6. /\ main' = [main EXCEPT ![op] = m] /\ m \in [Revisions -> MainSteps]
          /\ Good(n, "none", m, speech[op])
      <3>1. main' = [main EXCEPT ![op] = m] /\ m \in [Revisions -> MainSteps]
        BY <1>2, <1>3, MainStep
      <3>2. Good(n, "none", m, speech[op])
        BY <1>1, <2>4, <2>5, HandedOverIsGood
      <3> QED BY <3>1, <3>2
    <2> HIDE DEF m
    <2>7. turns' = [turns EXCEPT ![op] = n] /\ active' = active
      BY <1>3, <2>3 DEF Keep, k
    <2>8. n.state \in Active <=> Live(op)
      BY <1>3, <2>4 DEF Active
    <2> QED BY <1>1, <2>4, <2>6, <2>7, <2>8, Kept DEF StepTo
  <1>4. ASSUME Fail(op, t, "recording"), main' = main
        PROVE  IInv'
    BY <1>1, <1>4, StoppedAsIs DEF Codes
  <1>5. ASSUME Ignored, main' = main
        PROVE  IInv'
    <2>1. Good(t, "none", main[op], speech[op])
      BY <1>1 DEF Good, Accepts
    <2> QED BY <1>1, <1>2, <1>5, <2>1, Kept DEF Ignored, StepTo, Live
  <1> QED BY <1>3, <1>4, <1>5 DEF AcceptTranscript, AcceptedTurn

LEMMA InputRefusedInv ==
  ASSUME IInv, NEW op \in Ops, InputRefused(op)
  PROVE  IInv'
  BY StoppedAsIs DEF InputRefused, Codes

LEMMA ContinueInv ==
  ASSUME IInv, NEW op \in Ops, Continue(op)
  PROVE  IInv'
  <1> DEFINE t == turns[op]
             r == t.rev + 1
  <1>1. /\ t \in AnyTurn /\ Good(t, input[op], main[op], speech[op])
        /\ main[op] \in [Revisions -> MainSteps] /\ speech[op] \in [Revisions -> SpeechSteps]
        /\ speech' = [speech EXCEPT ![op] = speech[op]] /\ voice' = voice
        /\ input' = [input EXCEPT ![op] = input[op]]
        /\ t.state = "INCOMPLETE" /\ t.rev \in Revisions
    BY TypedParts DEF Continue
  <1>2. r \in Revisions /\ r # t.rev /\ r # 1
    BY <1>1, BoundsAssumption DEF Continue, Revisions
  <1>3. input[op] = "none" /\ \A q \in Revisions : Rests(main[op], speech[op], q)
    BY <1>1, TypedParts DEF Good, Accepts, OneAttempt, Over
  <1>4. PICK key \in {"open", "none"} :
          turns' = [turns EXCEPT ![op] =
                      [t EXCEPT !.state = "THINKING", !.rev = r, !.key = key,
                                !.code = "none", !.gen = "nil",
                                !.genDone = FALSE, !.prodDone = FALSE]]
    BY DEF Continue, SetTurn
  <1> DEFINE n == [t EXCEPT !.state = "THINKING", !.rev = r, !.key = key,
                            !.code = "none", !.gen = "nil",
                            !.genDone = FALSE, !.prodDone = FALSE]
             m == [main[op] EXCEPT ![r].pc = "start"]
  <1>5. /\ n \in AnyTurn /\ n.state = "THINKING" /\ n.key = key /\ n.rev = r
        /\ n.input = t.input /\ ~n.prodDone /\ n.speechErr = t.speechErr /\ n.units = t.units
    BY <1>1, <1>2 DEF AnyTurn, TurnsIn, Active, Codes
  <1>6. /\ main' = [main EXCEPT ![op] = m] /\ m \in [Revisions -> MainSteps]
        /\ m[r].pc = "start" /\ \A q \in Revisions \ {r} : m[q] = main[op][q]
    BY <1>2, MainStep DEF Continue
  <1>7. StepTo(op, n, input[op], m, speech[op])
    BY <1>1, <1>4, <1>6 DEF StepTo
  <1> HIDE DEF n, m, r
  <1>8. Good(n, input[op], m, speech[op])
    <2>1. ~Over(t) /\ ~Over(n) /\ ~Ended(n)
      BY <1>1, <1>5 DEF Over, Ended, Terminal
    <2>2. Accepts(n, input[op], m, speech[op])
      BY <1>3, <1>5 DEF Accepts
    <2>3. OneAttempt(n, m, speech[op])
      BY <1>3, <1>5, <1>6 DEF OneAttempt, Rests
    <2>4. Consumed(m, speech[op])
      BY <1>1, <1>2, <1>6 DEF Good, Consumed
    <2>5. SpokenFor(n, m, speech[op])
      <3>1. \A u \in DOMAIN t.units : t.units[u].sealed \/ t.speechErr
        BY <1>1, <1>3, <2>1 DEF Good, SpokenFor, OnItsWay, Rests
      <3> QED BY <1>5, <3>1 DEF SpokenFor
    <2>6. Recorded(n) /\ Completed(n)
      BY <1>1, <1>5, <2>1 DEF Good, Recorded, Completed
    <2> QED BY <2>2, <2>3, <2>4, <2>5, <2>6 DEF Good
  <1>9. active' = op /\ active = NoOp
    BY DEF Continue
  <1>10. n.state \in Active /\ n.rev # 1 /\ input[op] \in {"none", "asr", "arm"}
    BY <1>2, <1>3, <1>5 DEF Active
  <1> QED BY <1>1, <1>5, <1>6, <1>7, <1>8, <1>9, <1>10, OpsAssumption, Local
-----------------------------------------------------------------------------
(* The voice session *)

VoiceStates == [st : {"none", "running", "paused", "stopped"}, id : Nat, epoch : Nat]

\* The session changes while no turn is under way, or its first attempt belongs
\* to none.
LEMMA SessionStep ==
  ASSUME IInv, voice' \in VoiceStates, UNCHANGED <<turns, active, input, main, speech>>,
         \A op \in Ops : Live(op) /\ turns[op].rev = 1 => Running = Running'
  PROVE  IInv'
  <1>1. Shapes'
    BY DEF IInv, Shapes, VoiceStates
  <1>2. OneActive' /\ SessionOwnsTurn'
    BY DEF IInv, OneActive, SessionOwnsTurn, Live, Running
  <1>3. \A op \in Ops : Good(turns'[op], input'[op], main'[op], speech'[op])
    BY DEF IInv
  <1> QED BY <1>1, <1>2, <1>3 DEF IInv

\* The session, or the engine, ends together with the turn that is under way.
LEMMA SessionEnds ==
  ASSUME IInv, voice' \in VoiceStates, UNCHANGED <<input, main, speech>>,
         NEW op \in Ops, Live(op), CancelTurn(op, turns[op])
  PROVE  IInv'
  <1> DEFINE t == turns[op]
  <1>1. /\ t \in AnyTurn /\ Good(t, input[op], main[op], speech[op])
        /\ input[op] \in {"none", "asr", "arm"}
    BY TypedParts
  <1>2. ~Ended(t) /\ t.key \in {"none", "open"}
    BY TypedParts DEF Live, Ended, Active, Terminal
  <1>3. PICK n : Ends(t, n) /\ Over(n) /\ Becomes(op, n)
    BY <1>1, <1>2, CancelEnds DEF Over
  <1>4. n \in AnyTurn /\ Recorded(n) /\ n.state \notin Active
    BY <1>3 DEF Ends, Over, Active
  <1>5. Good(n, input[op], main[op], speech[op])
    <2>1. /\ n.speechErr => n.input = "text"
          /\ input[op] = "arm" => n.input = "candidate"
          /\ input[op] # "none" => Waits(n, main[op], speech[op])
          /\ Consumed(main[op], speech[op])
      BY <1>1, <1>3 DEF Ends, Good, Accepts, Completed, Waits
    <2> QED BY <1>3, <1>4, <2>1, ForcedIsGood
  <1>6. active = op /\ active' = NoOp
    BY <1>3 DEF IInv, OneActive, Becomes
  <1>7. turns'[op] = n /\ \A o \in Ops \ {op} : turns'[o] = turns[o]
    BY <1>3 DEF IInv, Shapes, Becomes
  <1>8. \A o \in Ops : ~Live(o)'
    BY <1>4, <1>6, <1>7 DEF IInv, OneActive, Live
  <1>9. Shapes'
    BY <1>3, <1>4, <1>6 DEF IInv, Shapes, Becomes, VoiceStates
  <1>10. OneActive' /\ SessionOwnsTurn'
    BY <1>6, <1>8, OpsAssumption DEF OneActive, SessionOwnsTurn
  <1>11. \A o \in Ops : Good(turns'[o], input'[o], main'[o], speech'[o])
    BY <1>5, <1>7 DEF IInv
  <1> QED BY <1>9, <1>10, <1>11 DEF IInv

LEMMA VoiceSessionInv ==
  ASSUME IInv, VoiceSession
  PROVE  IInv'
  <1>1. voice \in VoiceStates
    BY DEF IInv, Shapes, VoiceStates
  <1>2. CASE StartVoiceSession
    <2>1. voice' \in VoiceStates
      BY <1>1, <1>2 DEF StartVoiceSession, VoiceStates
    <2>2. \A op \in Ops : ~Live(op)
      BY <1>2, OpsAssumption DEF StartVoiceSession, IInv, OneActive
    <2> QED BY <1>2, <2>1, <2>2, SessionStep DEF StartVoiceSession
  <1>3. CASE ResumeVoiceSession
    <2>1. voice' \in VoiceStates
      <3> DEFINE next == voice.epoch + 1
      <3>1. voice' = [voice EXCEPT !.st = "running", !.epoch = next]
        BY <1>3 DEF ResumeVoiceSession
      <3>2. next \in Nat
        BY <1>1 DEF VoiceStates
      <3> HIDE DEF next
      <3> QED BY <1>1, <3>1, <3>2 DEF VoiceStates
    <2>2. \A op \in Ops : ~Live(op)
      BY <1>3, OpsAssumption DEF ResumeVoiceSession, IInv, OneActive
    <2> QED BY <1>3, <2>1, <2>2, SessionStep DEF ResumeVoiceSession
  <1>4. CASE LeaveVoiceSession
    <2>1. PICK st \in {"paused", "stopped"} : voice' = [voice EXCEPT !.st = st]
      BY <1>4 DEF LeaveVoiceSession
    <2>2. voice' \in VoiceStates /\ voice'.st # "running"
      BY <1>1, <2>1 DEF VoiceStates
    <2>3. ASSUME NEW op \in Ops, active = op, CancelTurn(op, turns[op])
          PROVE  IInv'
      <3>1. Live(op)
        BY <2>3 DEF IInv, OneActive
      <3> QED BY <1>4, <2>2, <2>3, <3>1, SessionEnds DEF LeaveVoiceSession
    <2>4. ASSUME \A op \in Ops : active = op => turns[op].session[1] # voice.id, Ignored
          PROVE  IInv'
      <3>1. ASSUME NEW op \in Ops, Live(op), turns[op].rev = 1
            PROVE  Running = Running'
        <4>1. active = op /\ turns[op].session = Running
          BY <3>1 DEF IInv, OneActive, SessionOwnsTurn, Running
        <4>2. voice.st # "running"
          BY <2>4, <4>1 DEF Running
        <4> QED BY <2>2, <4>2 DEF Running
      <3> QED BY <1>4, <2>2, <2>4, <3>1, SessionStep DEF LeaveVoiceSession, Ignored
    <2> QED BY <1>4, <2>3, <2>4 DEF LeaveVoiceSession
  <1> QED BY <1>2, <1>3, <1>4 DEF VoiceSession

LEMMA CloseInv ==
  ASSUME IInv, Close
  PROVE  IInv'
  <1>1. voice \in VoiceStates /\ voice' \in VoiceStates
    <2>1. voice \in VoiceStates
      BY DEF IInv, Shapes, VoiceStates
    <2>2. [voice EXCEPT !.st = "stopped"] \in VoiceStates
      BY <2>1 DEF VoiceStates
    <2> QED BY <2>1, <2>2 DEF Close
  <1>2. CASE \E op \in Ops : Live(op) /\ CancelTurn(op, turns[op])
    BY <1>1, <1>2, SessionEnds DEF Close
  <1>3. CASE (\A op \in Ops : ~Live(op)) /\ Ignored
    BY <1>1, <1>3, SessionStep DEF Close, Ignored
  <1> QED BY <1>2, <1>3 DEF Close

-----------------------------------------------------------------------------
(* The window *)

\* What the window reports of one chunk or of several.
LEMMA ChunkTypes ==
  ASSUME NEW t \in AnyTurn, NEW i,
         NEW st \in {"queued", "started", "stopped", "cut"}
  PROVE  /\ SetChunk(t, i, st) \in AnyTurn
         /\ \E chunks : SetChunk(t, i, st) = [t EXCEPT !.chunks = chunks]
  <1> DEFINE chunks == [t.chunks EXCEPT ![i].st = st]
  <1>1. t.chunks \in Seq(Audio)
    BY DEF AnyTurn, TurnsIn
  <1>2. chunks \in Seq(Audio)
    <2>1. CASE i \in DOMAIN t.chunks
      <3>1. t.chunks[i] \in Audio /\ i \in 1 .. Len(t.chunks)
        BY <1>1, <2>1, ElementOfSeq, LenProperties
      <3>2. [t.chunks[i] EXCEPT !.st = st] \in Audio
        BY <3>1 DEF Audio
      <3>3. chunks = [t.chunks EXCEPT ![i] = [t.chunks[i] EXCEPT !.st = st]]
        OBVIOUS
      <3> QED BY <1>1, <3>1, <3>2, <3>3, ExceptSeq
    <2>2. CASE i \notin DOMAIN t.chunks
      BY <1>1, <2>2, LenProperties
    <2> QED BY <2>1, <2>2
  <1>3. SetChunk(t, i, st) = [t EXCEPT !.chunks = chunks]
    BY DEF SetChunk, AnyTurn, TurnsIn
  <1> HIDE DEF chunks
  <1>4. [t EXCEPT !.chunks = chunks] \in AnyTurn
    BY <1>2 DEF AnyTurn, TurnsIn
  <1> QED BY <1>3, <1>4

LEMMA InterruptedType ==
  ASSUME NEW t \in AnyTurn, NEW played, NEW cut
  PROVE  /\ Interrupted(t, played, cut) \in AnyTurn
         /\ \E chunks : Interrupted(t, played, cut) = [t EXCEPT !.chunks = chunks]
  <1> DEFINE after(i) == IF t.chunks[i].st = "stopped" \/ i \in played THEN "stopped"
                         ELSE IF i \in cut THEN "cut" ELSE t.chunks[i].st
             chunks == [i \in DOMAIN t.chunks |-> [t.chunks[i] EXCEPT !.st = after(i)]]
  <1>1. t.chunks \in Seq(Audio)
    BY DEF AnyTurn, TurnsIn
  <1>2. ASSUME NEW i \in DOMAIN t.chunks
        PROVE  [t.chunks[i] EXCEPT !.st = after(i)] \in Audio
    <2>1. t.chunks[i] \in Audio
      BY <1>1, ElementOfSeq, LenProperties
    <2>2. after(i) \in {"queued", "started", "stopped", "cut"}
      <3>1. t.chunks[i].st \in {"queued", "started", "stopped", "cut"}
        BY <2>1 DEF Audio
      <3> QED BY <3>1
    <2> HIDE DEF after
    <2> QED BY <2>1, <2>2 DEF Audio
  <1>3. chunks \in Seq(Audio)
    <2> DEFINE a(i) == [t.chunks[i] EXCEPT !.st = after(i)]
    <2>1. DOMAIN t.chunks = 1 .. Len(t.chunks) /\ Len(t.chunks) \in Nat
      BY <1>1, LenProperties
    <2>2. \A i \in 1 .. Len(t.chunks) : a(i) \in Audio
      BY <1>2, <2>1
    <2>3. chunks = [i \in 1 .. Len(t.chunks) |-> a(i)]
      BY <2>1
    <2> HIDE DEF a
    <2>4. [i \in 1 .. Len(t.chunks) |-> a(i)] \in Seq(Audio)
      BY <2>1, <2>2
    <2> QED BY <2>3, <2>4
  <1>4. Interrupted(t, played, cut) = [t EXCEPT !.chunks = chunks]
    BY DEF Interrupted, AnyTurn, TurnsIn
  <1> HIDE DEF chunks
  <1>5. [t EXCEPT !.chunks = chunks] \in AnyTurn
    BY <1>3 DEF AnyTurn, TurnsIn
  <1> QED BY <1>4, <1>5
\* A step of a turn under way: it goes on as u, or it ends there.
LEMMA LiveStep ==
  ASSUME IInv, NEW op \in Ops, Live(op), NEW u \in AnyTurn, u.state \in Active,
         u.rev = turns[op].rev, u.session = turns[op].session,
         NEW m \in [Revisions -> MainSteps], NEW s \in [Revisions -> SpeechSteps],
         Good(u, input[op], m, s), NEW code \in Codes,
         \/ Keep(op, u) \/ CompleteIfPlayed(op, u)
         \/ Fail(op, u, code) \/ CancelTurn(op, u),
         input' = input, main' = [main EXCEPT ![op] = m],
         speech' = [speech EXCEPT ![op] = s], voice' = voice
  PROVE  IInv'
  <1>1. ~Ended(u) /\ u.key \in {"none", "open"}
    BY DEF Ended, Active, Terminal, Good, Recorded
  <1>2. input[op] \in {"none", "asr", "arm"} /\ input' = [input EXCEPT ![op] = input[op]]
    BY TypedParts
  <1>3. CASE Keep(op, u)
    <2>1. StepTo(op, u, input[op], m, s) /\ active' = active
      BY <1>2, <1>3 DEF Keep, StepTo
    <2> QED BY <1>2, <2>1, Kept
  <1>4. CASE CompleteIfPlayed(op, u)
    <2>1. CASE Keep(op, u)
      BY <1>3, <2>1
    <2>2. ASSUME NEW n, Ends(u, n), Becomes(op, n), PlayedOut(u), n.gen = u.gen,
                 n.state \in {"COMPLETED", "INCOMPLETE", "FAILED"},
                 n.state = "COMPLETED" => u.gen = "complete"
          PROVE  IInv'
      <3>1. Good(n, input[op], m, s)
        BY <1>2, <2>2, PlayedOutIsGood
      <3>2. StepTo(op, n, input[op], m, s) /\ n \in AnyTurn /\ Ended(n)
        BY <1>2, <2>2 DEF StepTo, Becomes, Ends
      <3> QED BY <1>2, <2>2, <3>1, <3>2, Left
    <2> QED BY <1>1, <1>4, <2>1, <2>2, CompleteEnds
  <1>5. CASE Fail(op, u, code) \/ CancelTurn(op, u)
    <2>1. /\ u.speechErr => u.input = "text"
          /\ Consumed(m, s)
          /\ input[op] # "none" => Waits(u, m, s)
          /\ input[op] = "arm" => u.input = "candidate"
      BY DEF Good, Completed, Accepts
    <2> QED BY <1>1, <1>2, <1>5, <2>1, Stopped
  <1> QED BY <1>3, <1>4, <1>5

\* The same when the window, and no goroutine, takes the step.
LEMMA WindowStep ==
  ASSUME IInv, NEW op \in Ops, Live(op), NEW u \in AnyTurn,
         GoesOn(turns[op], u), u.session = turns[op].session, NEW code \in Codes,
         \/ Keep(op, u) \/ CompleteIfPlayed(op, u)
         \/ Fail(op, u, code) \/ CancelTurn(op, u),
         UNCHANGED <<voice, input, main, speech>>
  PROVE  IInv'
  <1>1. Good(u, input[op], main[op], speech[op])
    BY TypedParts, GoesOnIsGood DEF Live
  <1>2. u.state \in Active /\ u.rev = turns[op].rev
    BY DEF GoesOn
  <1> QED BY <1>1, <1>2, TypedParts, LiveStep

\* A turn under way, with other chunks.
LEMMA OtherChunks ==
  ASSUME IInv, NEW op \in Ops, Live(op), NEW u \in AnyTurn, NEW chunks,
         u = [turns[op] EXCEPT !.chunks = chunks]
  PROVE  /\ GoesOn(turns[op], u) /\ u.session = turns[op].session
         /\ u.state = turns[op].state
  <1> DEFINE t == turns[op]
  <1>1. /\ u.state = t.state /\ u.session = t.session /\ u.key = t.key /\ u.input = t.input
        /\ u.rev = t.rev /\ u.prodDone = t.prodDone /\ u.speechErr = t.speechErr
        /\ u.units = t.units
    BY TypedParts DEF AnyTurn, TurnsIn
  <1>2. t.key \in {"none", "open"} /\ t.state \in Active
    BY TypedParts DEF Live, Ended, Active, Terminal
  <1> QED BY <1>1, <1>2 DEF GoesOn

LEMMA PlaybackAckInv ==
  ASSUME IInv, NEW op \in Ops, NEW i, PlaybackAck(op, i)
  PROVE  IInv'
  <1> DEFINE t == turns[op]
             p == [t EXCEPT !.state = "PLAYING"]
             started == SetChunk(IF t.state = "SYNTHESIZING" THEN Transition(t, "PLAYING")
                                                             ELSE t, i, "started")
             stopped == SetChunk(t, i, "stopped")
  <1>1. PICK u \in {started, stopped} :
          CompleteIfPlayed(op, u) \/ Fail(op, u, "recording")
    BY DEF PlaybackAck
  <1>2. t \in AnyTurn /\ Live(op) /\ "recording" \in Codes
    BY TypedParts DEF PlaybackAck, Codes
  <1>3. ASSUME NEW st \in {"started", "stopped"}
        PROVE  LET x == SetChunk(t, i, st)
               IN  x \in AnyTurn /\ GoesOn(t, x) /\ x.session = t.session
    <2> DEFINE x == SetChunk(t, i, st)
    <2>1. x \in AnyTurn /\ \E chunks : x = [t EXCEPT !.chunks = chunks]
      <3>1. t \in AnyTurn /\ st \in {"queued", "started", "stopped", "cut"}
        BY <1>2
      <3> HIDE DEF t
      <3> QED BY <3>1, ChunkTypes
    <2> HIDE DEF x
    <2>2. GoesOn(t, x) /\ x.session = t.session
      BY <1>2, <2>1, OtherChunks
    <2> QED BY <2>1, <2>2 DEF x
  <1>4. ASSUME t.state = "SYNTHESIZING"
        PROVE  LET x == SetChunk(Transition(t, "PLAYING"), i, "started")
               IN  x \in AnyTurn /\ GoesOn(t, x) /\ x.session = t.session
    <2>1. Transition(t, "PLAYING") = p
      BY <1>4 DEF Transition, Allowed, Follows, Ended, Terminal
    <2>2. /\ p \in AnyTurn /\ p.state = "PLAYING" /\ p.key = t.key
          /\ p.input = t.input /\ p.session = t.session /\ p.rev = t.rev
          /\ p.prodDone = t.prodDone /\ p.speechErr = t.speechErr /\ p.units = t.units
      BY <1>2 DEF AnyTurn, TurnsIn, Active
    <2> HIDE DEF p
    <2> DEFINE x == SetChunk(p, i, "started")
    <2>3. x \in AnyTurn /\ \E chunks : x = [p EXCEPT !.chunks = chunks]
      BY <2>2, ChunkTypes
    <2> HIDE DEF x
    <2>4. /\ x.state = p.state /\ x.session = p.session /\ x.key = p.key /\ x.input = p.input
          /\ x.rev = p.rev /\ x.prodDone = p.prodDone /\ x.speechErr = p.speechErr
          /\ x.units = p.units
      BY <2>2, <2>3 DEF AnyTurn, TurnsIn
    <2>5. t.key \in {"none", "open"}
      BY <1>4, TypedParts DEF Ended, Terminal
    <2>6. GoesOn(t, x) /\ x.session = t.session
      BY <1>4, <2>2, <2>3, <2>4, <2>5 DEF GoesOn, Active
    <2> QED BY <2>1, <2>3, <2>6 DEF x
  <1>5. u \in AnyTurn /\ GoesOn(t, u) /\ u.session = t.session
    BY <1>3, <1>4
  <1> HIDE DEF started, stopped
  <1> QED BY <1>1, <1>2, <1>5, WindowStep DEF PlaybackAck

LEMMA WindowInv ==
  ASSUME IInv, NEW op \in Ops, Window(op)
  PROVE  IInv'
  <1>1. \A i : PlaybackAck(op, i) => IInv'
    BY PlaybackAckInv
  <1>2. input = [input EXCEPT ![op] = input[op]] /\ "none" \in Codes
        /\ {"playback", "input", "playback_timeout"} \subseteq Codes
    BY TypedParts DEF Codes
  <1>3. CASE WindowFails(op)
    BY <1>2, <1>3, StoppedAsIs DEF WindowFails
  <1>4. CASE PlaybackTimeout(op)
    BY <1>2, <1>4, StoppedAsIs DEF PlaybackTimeout
  <1>5. CASE Cancel(op)
    BY <1>2, <1>5, StoppedAsIs DEF Cancel
  <1>6. ASSUME NEW played, NEW cut, CancelTurn(op, Interrupted(turns[op], played, cut)),
               Live(op), UNCHANGED <<closed, voice, input, main, speech, late>>
        PROVE  IInv'
    <2> DEFINE u == Interrupted(turns[op], played, cut)
    <2>1. u \in AnyTurn /\ \E chunks : u = [turns[op] EXCEPT !.chunks = chunks]
      <3>1. turns[op] \in AnyTurn
        BY TypedParts
      <3> QED BY <3>1, InterruptedType
    <2>2. GoesOn(turns[op], u) /\ u.session = turns[op].session
      BY <1>6, <2>1, OtherChunks
    <2> HIDE DEF u
    <2>3. CancelTurn(op, u)
      BY <1>6 DEF u
    <2> QED BY <1>2, <1>6, <2>1, <2>2, <2>3, WindowStep
  <1>7. CASE Interrupt(op)
    BY <1>6, <1>7 DEF Interrupt
  <1>8. CASE ObserveCandidateStop(op)
    BY <1>6, <1>8 DEF ObserveCandidateStop
  <1> QED BY <1>1, <1>3, <1>4, <1>5, <1>7, <1>8 DEF Window
-----------------------------------------------------------------------------
(* The generator *)

\* A goroutine that still has something to do belongs to the latest attempt of a
\* turn past its input, or to one that was ended by force.
LEMMA Busy ==
  ASSUME NEW t \in AnyTurn, NEW i, NEW m, NEW s, Good(t, i, m, s),
         NEW r \in Revisions, ~Rests(m, s, r)
  PROVE  /\ i = "none"
         /\ \/ Over(t)
            \/ /\ t.state \in {"THINKING", "SYNTHESIZING", "PLAYING"}
               /\ t.state \in Active /\ ~Ended(t) /\ t.rev = r /\ ~t.prodDone
  <1>1. ~Waits(t, m, s)
    BY DEF Waits, Rests
  <1>2. i = "none" /\ t.state \notin {"none", "RECORDING", "TRANSCRIBING"}
    BY <1>1 DEF Good, Accepts
  <1>3. t.state \in Active \cup Terminal \cup {"none"}
    BY DEF AnyTurn, TurnsIn
  <1>4. ASSUME ~Over(t)
        PROVE  /\ t.state \in {"THINKING", "SYNTHESIZING", "PLAYING"}
               /\ t.rev = r /\ ~t.prodDone
    <2>1. t.rev = r
      BY <1>4 DEF Good, OneAttempt
    <2>2. t.state \notin {"COMPLETED", "INCOMPLETE"} /\ ~(t.state \in Active /\ t.prodDone)
      BY <2>1 DEF Good, OneAttempt
    <2> QED BY <1>2, <1>3, <1>4, <2>1, <2>2 DEF Over, Active, Terminal
  <1> QED BY <1>2, <1>4 DEF Active, Ended, Terminal

\* Whatever the goroutines of a turn do that was ended by force.
LEMMA OverStep ==
  ASSUME IInv, NEW op \in Ops, Over(turns[op]), input[op] = "none",
         NEW m \in [Revisions -> MainSteps], NEW s \in [Revisions -> SpeechSteps],
         Consumed(m, s), NEW n \in AnyTurn,
         Good(n, "none", main[op], speech[op]), Over(n),
         n.session = turns[op].session, n.rev = turns[op].rev,
         turns' = [turns EXCEPT ![op] = n], active' = active, input' = input,
         main' = [main EXCEPT ![op] = m], speech' = [speech EXCEPT ![op] = s], voice' = voice
  PROVE  IInv'
  <1>1. n.speechErr => n.input = "text"
    BY DEF Good, Completed
  <1>2. Good(n, "none", m, s)
    BY <1>1, ForcedIsGood DEF Good
  <1>3. StepTo(op, n, "none", m, s)
    BY TypedParts DEF StepTo
  <1>4. n.state \in Active <=> Live(op)
    BY DEF Over, Live, Active
  <1> QED BY <1>2, <1>3, <1>4, Kept

\* A goroutine moves while the turn is unchanged.
LEMMA GoroutineStep ==
  ASSUME IInv, NEW op \in Ops, NEW r \in Revisions, ~Rests(main[op], speech[op], r),
         NEW m \in [Revisions -> MainSteps], NEW s \in [Revisions -> SpeechSteps],
         Consumed(m, s), UNCHANGED <<turns, active, input, voice>>,
         main' = [main EXCEPT ![op] = m], speech' = [speech EXCEPT ![op] = s],
         GenerationLive(op, r) => OneAttempt(turns[op], m, s) /\ SpokenFor(turns[op], m, s)
  PROVE  IInv'
  <1> DEFINE t == turns[op]
  <1>1. /\ t \in AnyTurn /\ Good(t, input[op], main[op], speech[op])
        /\ turns' = [turns EXCEPT ![op] = t] /\ input' = [input EXCEPT ![op] = input[op]]
    BY TypedParts
  <1>2. /\ input[op] = "none"
        /\ \/ Over(t)
           \/ /\ t.state \in {"THINKING", "SYNTHESIZING", "PLAYING"}
              /\ t.state \in Active /\ ~Ended(t) /\ t.rev = r /\ ~t.prodDone
    BY <1>1, Busy
  <1>3. CASE Over(t)
    BY <1>1, <1>2, <1>3, OverStep
  <1>4. CASE ~Over(t)
    <2>1. GenerationLive(op, r)
      BY <1>2, <1>4 DEF GenerationLive, Live
    <2>2. Good(t, "none", m, s)
      BY <1>1, <1>2, <1>4, <2>1 DEF Good, Accepts
    <2>3. StepTo(op, t, "none", m, s)
      BY <1>1, <1>2 DEF StepTo
    <2>4. t.state \in Active <=> Live(op)
      BY DEF Live
    <2> QED BY <1>1, <2>2, <2>3, <2>4, Kept
  <1> QED BY <1>3, <1>4

\* What one attempt does leaves the others alone.
LEMMA ConsumedStep ==
  ASSUME NEW m, NEW s, NEW k, NEW x, NEW r \in Revisions, Consumed(m, s),
         \A q \in Revisions \ {r} : k[q] = m[q] /\ x[q] = s[q],
         x[r].closed => k[r].pc \in {"none", "start", "wait"},
         x[r].pc = "done" /\ ~x[r].failed => x[r].closed /\ x[r].queue = <<>>,
         x[r].pc = "drain" => x[r].failed
  PROVE  Consumed(k, x)
  BY DEF Consumed

LEMMA OneAttemptStep ==
  ASSUME NEW t, NEW m, NEW s, NEW k, NEW x, NEW r \in Revisions, OneAttempt(t, m, s),
         \A q \in Revisions \ {r} : k[q] = m[q] /\ x[q] = s[q],
         t.rev = r, ~t.prodDone, t.state \in Active
  PROVE  OneAttempt(t, k, x)
  BY DEF OneAttempt, Rests, Active

LEMMA AttemptTypes ==
  ASSUME IInv, NEW op \in Ops, NEW r \in Revisions
  PROVE  /\ main[op][r] \in MainSteps /\ speech[op][r] \in SpeechSteps
         /\ speech[op][r].queue \in Seq(Nat) /\ speech[op][r].unit \in Nat
         /\ speech[op][r].done \in Nat
         /\ Len(turns[op].chunks) \in Nat /\ Len(turns[op].units) \in Nat
         /\ turns[op].chunks \in Seq(Audio) /\ turns[op].units \in Seq(Units)
         /\ DOMAIN turns[op].units = 1 .. Len(turns[op].units)
         /\ Consumed(main[op], speech[op])
  <1>1. main[op][r] \in MainSteps /\ speech[op][r] \in SpeechSteps
    BY TypedParts
  <1>2. turns[op].chunks \in Seq(Audio) /\ turns[op].units \in Seq(Units)
    BY TypedParts DEF AnyTurn, TurnsIn
  <1>3. /\ Len(turns[op].chunks) \in Nat /\ Len(turns[op].units) \in Nat
        /\ DOMAIN turns[op].units = 1 .. Len(turns[op].units)
    BY <1>2, LenProperties
  <1>4. Consumed(main[op], speech[op])
    BY TypedParts DEF Good
  <1>5. /\ speech[op][r].queue \in Seq(Nat) /\ speech[op][r].unit \in Nat
        /\ speech[op][r].done \in Nat
    BY <1>1 DEF SpeechSteps
  <1> QED BY <1>1, <1>2, <1>3, <1>4, <1>5

LEMMA GenerateInv ==
  ASSUME IInv, NEW op \in Ops, NEW r \in Revisions, Generate(op, r)
  PROVE  IInv'
  <1> DEFINE t == turns[op]
             x == [Idle EXCEPT !.pc = "wait"]
             y == [pc |-> "llm", first |-> Len(t.chunks)]
             m == [main[op] EXCEPT ![r] = y]
             s == [speech[op] EXCEPT ![r] = x]
  <1>1. /\ t \in AnyTurn /\ Good(t, input[op], main[op], speech[op])
        /\ main[op] \in [Revisions -> MainSteps] /\ speech[op] \in [Revisions -> SpeechSteps]
        /\ speech = [speech EXCEPT ![op] = speech[op]]
        /\ main[op][r].pc = "start" /\ ~Rests(main[op], speech[op], r)
    BY TypedParts DEF Generate, Rests
  <1>2. CASE Live(op)
    <2>1. y \in MainSteps /\ y.pc = "llm"
      BY AttemptTypes DEF MainSteps
    <2>2. x \in SpeechSteps /\ ~x.closed /\ x.pc = "wait"
      <3>1. <<>> \in Seq(Nat)
        BY EmptySeq
      <3> QED BY <3>1 DEF Idle, SpeechSteps
    <2>3. SetSpeech(op, r, x) /\ main' = [main EXCEPT ![op][r] = y]
      BY <1>2 DEF Generate
    <2> HIDE DEF x, y
    <2>4. /\ speech' = [speech EXCEPT ![op] = s] /\ s \in [Revisions -> SpeechSteps]
          /\ s[r] = x /\ \A q \in Revisions \ {r} : s[q] = speech[op][q]
      BY <2>2, <2>3, SpeechStep
    <2>5. /\ main' = [main EXCEPT ![op] = m] /\ m \in [Revisions -> MainSteps]
          /\ m[r] = y /\ \A q \in Revisions \ {r} : m[q] = main[op][q]
      BY <1>1, <2>1, <2>3 DEF IInv, Shapes
    <2> HIDE DEF m, s
    <2>6. Consumed(m, s)
      BY <1>1, <2>1, <2>2, <2>4, <2>5, ConsumedStep DEF Good
    <2>7. ASSUME GenerationLive(op, r)
          PROVE  OneAttempt(t, m, s) /\ SpokenFor(t, m, s)
      <3>1. t.rev = r /\ ~t.prodDone /\ ~Over(t) /\ t.state \in Active
        BY <1>1, <2>7, Busy DEF GenerationLive, Live, Over, Active
      <3>2. OneAttempt(t, m, s)
        BY <1>1, <2>4, <2>5, <3>1, OneAttemptStep DEF Good
      <3>3. \A u \in DOMAIN t.units : t.units[u].sealed \/ t.speechErr
        BY <1>1, <3>1 DEF Good, SpokenFor, OnItsWay
      <3> QED BY <3>2, <3>3 DEF SpokenFor
    <2> QED BY <1>1, <2>4, <2>5, <2>6, <2>7, GoroutineStep DEF Generate
  <1>3. CASE ~Live(op)
    <2> DEFINE k == [main[op] EXCEPT ![r].pc = "none"]
    <2>1. /\ main' = [main EXCEPT ![op] = k] /\ k \in [Revisions -> MainSteps]
          /\ k[r].pc = "none" /\ \A q \in Revisions \ {r} : k[q] = main[op][q]
      BY <1>3, MainStep DEF Generate
    <2> HIDE DEF k
    <2>2. Consumed(k, speech[op])
      BY <1>1, <2>1 DEF Good, Consumed
    <2> QED BY <1>1, <1>3, <2>1, <2>2, GoroutineStep DEF Generate, GenerationLive
  <1> QED BY <1>2, <1>3

LEMMA PushInv ==
  ASSUME IInv, NEW op \in Ops, NEW r \in Revisions, Push(op, r)
  PROVE  IInv'
  <1> DEFINE t == turns[op]
             o == speech[op][r]
             q == Append(o.queue, Len(t.units))
             x == [o EXCEPT !.queue = q]
             m == [main[op] EXCEPT ![r].pc = "llm"]
             s == [speech[op] EXCEPT ![r] = x]
  <1>1. /\ Good(t, input[op], main[op], speech[op]) /\ main[op][r].pc = "push"
        /\ ~Rests(main[op], speech[op], r) /\ t \in AnyTurn
    BY TypedParts DEF Push, Rests
  <1>2. /\ q \in Seq(Nat) /\ DOMAIN o.queue = 1 .. Len(o.queue)
        /\ DOMAIN q = 1 .. Len(o.queue) + 1 /\ Len(o.queue) \in Nat
        /\ q[Len(o.queue) + 1] = Len(t.units)
        /\ \A j \in 1 .. Len(o.queue) : q[j] = o.queue[j]
    <2>1. o.queue \in Seq(Nat) /\ Len(t.units) \in Nat
      BY AttemptTypes
    <2> HIDE DEF o, t
    <2> QED BY <2>1, AppendProperties, LenProperties
  <1> HIDE DEF q
  <1>3. /\ x \in SpeechSteps /\ x.pc = o.pc /\ x.queue = q /\ x.closed = o.closed
        /\ x.failed = o.failed /\ x.unit = o.unit
    BY <1>2, AttemptTypes DEF SpeechSteps
  <1>4. SetSpeech(op, r, x) /\ SetMain(op, r, "llm")
    BY DEF Push, q
  <1> HIDE DEF x
  <1>5. /\ speech' = [speech EXCEPT ![op] = s] /\ s \in [Revisions -> SpeechSteps]
        /\ s[r] = x /\ \A p \in Revisions \ {r} : s[p] = speech[op][p]
    BY <1>3, <1>4, SpeechStep
  <1>6. /\ main' = [main EXCEPT ![op] = m] /\ m \in [Revisions -> MainSteps]
        /\ m[r].pc = "llm" /\ \A p \in Revisions \ {r} : m[p] = main[op][p]
    BY <1>4, MainStep
  <1> HIDE DEF m, s
  <1>7. Consumed(main[op], speech[op]) /\ ~o.closed /\ (o.pc = "done" => o.failed)
        /\ (o.pc = "drain" => o.failed)
    BY <1>1 DEF Good, Consumed
  <1>8. Consumed(m, s)
    BY <1>3, <1>5, <1>6, <1>7, ConsumedStep
  <1>9. ASSUME GenerationLive(op, r)
        PROVE  OneAttempt(t, m, s) /\ SpokenFor(t, m, s)
    <2>1. t.rev = r /\ ~t.prodDone /\ ~Over(t) /\ t.state \in Active
      BY <1>1, <1>9, Busy DEF GenerationLive, Live, Over, Active
    <2>2. OneAttempt(t, m, s)
      BY <1>1, <1>5, <1>6, <2>1, OneAttemptStep DEF Good
    <2>3. ASSUME NEW u \in DOMAIN t.units, OnItsWay(t, main[op][r], o, u)
          PROVE  OnItsWay(t, m[r], s[r], u)
      <3>1. CASE u = Len(t.units)
        <4>1. Len(o.queue) + 1 \in DOMAIN q /\ q[Len(o.queue) + 1] = u
          BY <1>2, <3>1
        <4> QED BY <1>3, <1>5, <1>6, <4>1 DEF OnItsWay
      <3>2. CASE \E j \in DOMAIN o.queue : o.queue[j] = u
        <4>1. PICK j \in 1 .. Len(o.queue) : q[j] = u
          BY <1>2, <3>2
        <4>2. j \in DOMAIN q
          BY <1>2
        <4> QED BY <1>3, <1>5, <1>6, <4>1, <4>2 DEF OnItsWay
      <3> QED BY <1>3, <1>5, <1>6, <2>3, <3>1, <3>2 DEF OnItsWay
    <2>4. SpokenFor(t, m, s)
      BY <1>1, <2>1, <2>3 DEF Good, SpokenFor
    <2> QED BY <2>2, <2>4
  <1> QED BY <1>1, <1>5, <1>6, <1>8, <1>9, GoroutineStep DEF Push
\* The generator's next steps, up to what becomes of the turn.
LEMMA ProgressInv ==
  ASSUME IInv, NEW op \in Ops, NEW r \in Revisions, Progress(op, r)
  PROVE  IInv'
  <1> DEFINE t == turns[op]
  <1>1. /\ t \in AnyTurn /\ Good(t, input[op], main[op], speech[op])
        /\ main[op] \in [Revisions -> MainSteps] /\ speech[op] \in [Revisions -> SpeechSteps]
        /\ main = [main EXCEPT ![op] = main[op]] /\ speech = [speech EXCEPT ![op] = speech[op]]
        /\ main[op][r].pc = "llm" /\ GenerationLive(op, r) /\ t.gen # "complete"
        /\ ~Rests(main[op], speech[op], r)
        /\ UNCHANGED <<closed, voice, input, speech, late>>
    BY TypedParts DEF Progress, Rests
  <1>2. /\ input[op] = "none" /\ t.state \in {"THINKING", "SYNTHESIZING", "PLAYING"}
        /\ t.state \in Active /\ ~Ended(t) /\ t.rev = r /\ ~t.prodDone /\ ~Over(t)
        /\ t.key \in {"none", "open"} /\ Live(op)
    BY <1>1, Busy, TypedParts DEF GenerationLive, Live, Over, Active
  <1>3. PICK unit \in BOOLEAN, gen \in {"partial", "complete"} :
          \/ /\ Fail(op, [t EXCEPT !.gen = gen], "tts_audio_limit") /\ UNCHANGED main
          \/ /\ Keep(op, Advance(t, unit, gen))
             /\ SetMain(op, r, IF unit THEN "push" ELSE "llm")
          \/ /\ Fail(op, [t EXCEPT !.gen = gen], "recording") /\ UNCHANGED main
    BY DEF Progress
  <1> DEFINE g == [t EXCEPT !.gen = gen]
  <1>4. /\ g \in AnyTurn /\ g.state = t.state /\ g.key = t.key /\ g.input = t.input
        /\ g.session = t.session /\ g.rev = t.rev /\ g.prodDone = t.prodDone
        /\ g.speechErr = t.speechErr /\ g.units = t.units
    BY <1>1 DEF AnyTurn, TurnsIn
  <1>5. CASE /\ Fail(op, g, "tts_audio_limit") \/ Fail(op, g, "recording")
             /\ UNCHANGED main
    <2> HIDE DEF g
    <2>1. GoesOn(t, g)
      BY <1>2, <1>4 DEF GoesOn
    <2> QED BY <1>1, <1>2, <1>4, <1>5, <2>1, WindowStep DEF Codes
  <1>6. CASE /\ Keep(op, Advance(t, unit, gen))
             /\ SetMain(op, r, IF unit THEN "push" ELSE "llm")
    <2> DEFINE new == [rev |-> t.rev, sealed |-> FALSE]
               units == IF unit THEN Append(t.units, new) ELSE t.units
               a == [t EXCEPT !.gen = gen, !.units = units]
               n == IF unit /\ t.state = "THINKING" THEN [a EXCEPT !.state = "SYNTHESIZING"]
                                                    ELSE a
               m == [main[op] EXCEPT ![r].pc = IF unit THEN "push" ELSE "llm"]
    <2>1. /\ units \in Seq(Units)
          /\ \A u \in DOMAIN units :
               \/ u \in DOMAIN t.units /\ units[u] = t.units[u]
               \/ unit /\ u = Len(units)
      <3>1. new \in Units /\ t.units \in Seq(Units)
        BY AttemptTypes, TypedParts DEF Units
      <3> HIDE DEF new, t
      <3>2. CASE unit
        BY <3>1, <3>2, AppendProperties, LenProperties
      <3> QED BY <3>1, <3>2
    <2> HIDE DEF units
    <2>2. /\ a \in AnyTurn /\ a.state = t.state /\ a.key = t.key /\ a.input = t.input
          /\ a.session = t.session /\ a.rev = t.rev /\ a.prodDone = t.prodDone
          /\ a.speechErr = t.speechErr /\ a.units = units
      BY <1>1, <2>1 DEF AnyTurn, TurnsIn
    <2> HIDE DEF a
    <2>3. /\ n \in AnyTurn /\ n.state \in {"THINKING", "SYNTHESIZING", "PLAYING"}
          /\ n.key = t.key /\ n.input = t.input
          /\ n.session = t.session /\ n.rev = t.rev /\ n.prodDone = t.prodDone
          /\ n.speechErr = t.speechErr /\ n.units = units
      BY <1>2, <2>2 DEF AnyTurn, TurnsIn, Active
    <2>4. Advance(t, unit, gen) = n
      <3>1. [t EXCEPT !.gen = gen, !.units = IF unit THEN Append(@, new) ELSE @] = a
        BY <1>1 DEF AnyTurn, TurnsIn, a, units
      <3>2. t.state = "THINKING" => Transition(a, "SYNTHESIZING") = [a EXCEPT !.state = "SYNTHESIZING"]
        BY <2>2 DEF Transition, Allowed, Follows, Ended, Terminal
      <3> QED BY <3>1, <3>2 DEF Advance
    <2> HIDE DEF n
    <2>5. /\ main' = [main EXCEPT ![op] = m] /\ m \in [Revisions -> MainSteps]
          /\ m[r].pc = (IF unit THEN "push" ELSE "llm")
          /\ \A q \in Revisions \ {r} : m[q] = main[op][q]
      BY <1>6, MainStep
    <2> HIDE DEF m
    <2>6. ~Over(n) /\ ~Ended(n) /\ n.state \in Active
      BY <2>3 DEF Over, Ended, Active, Terminal
    <2>7. ~speech[op][r].closed /\ (speech[op][r].pc = "done" => speech[op][r].failed)
          /\ (speech[op][r].pc = "drain" => speech[op][r].failed)
      BY <1>1 DEF Good, Consumed
    <2>8. Consumed(m, speech[op])
      BY <1>1, <2>5, <2>7, ConsumedStep DEF Good
    <2>9. OneAttempt(n, m, speech[op])
      BY <1>1, <1>2, <2>3, <2>5, <2>6 DEF Good, OneAttempt, Rests
    <2>10. SpokenFor(n, m, speech[op])
      <3>1. ASSUME NEW u \in DOMAIN units
            PROVE  units[u].sealed \/ n.speechErr \/ OnItsWay(n, m[r], speech[op][r], u)
        <4>1. CASE unit /\ u = Len(units)
          BY <2>3, <2>5, <4>1 DEF OnItsWay
        <4>2. CASE u \in DOMAIN t.units /\ units[u] = t.units[u]
          <5>1. t.units[u].sealed \/ t.speechErr \/ OnItsWay(t, main[op][r], speech[op][r], u)
            BY <1>1, <1>2, <4>2 DEF Good, SpokenFor
          <5>2. OnItsWay(t, main[op][r], speech[op][r], u) => OnItsWay(n, m[r], speech[op][r], u)
            BY <1>1, <2>5 DEF OnItsWay
          <5> QED BY <2>3, <4>2, <5>1, <5>2
        <4> QED BY <2>1, <4>1, <4>2
      <3> QED BY <1>2, <2>3, <3>1 DEF SpokenFor
    <2>11. Recorded(n) /\ Completed(n) /\ Accepts(n, "none", m, speech[op])
      BY <1>1, <1>2, <2>3, <2>6 DEF Good, Recorded, Completed, Accepts
    <2>12. Good(n, input[op], m, speech[op])
      BY <1>2, <2>8, <2>9, <2>10, <2>11 DEF Good
    <2>13. Keep(op, n) /\ "none" \in Codes
      BY <1>6, <2>4 DEF Codes
    <2> QED BY <1>1, <1>2, <2>3, <2>5, <2>6, <2>12, <2>13, LiveStep
  <1> QED BY <1>3, <1>5, <1>6
\* The generator is over: the queue of its speech goroutine is closed.
LEMMA GeneratorEnds ==
  ASSUME IInv, NEW op \in Ops, NEW r \in Revisions, NEW pc \in {"none", "wait"},
         main[op][r].pc \in {"llm", "push", "wait"},
         SetMain(op, r, pc),
         SetSpeech(op, r, [speech[op][r] EXCEPT !.closed = TRUE])
  PROVE  \E m \in [Revisions -> MainSteps], s \in [Revisions -> SpeechSteps] :
           /\ main' = [main EXCEPT ![op] = m] /\ speech' = [speech EXCEPT ![op] = s]
           /\ m[r].pc = pc /\ s[r] = [speech[op][r] EXCEPT !.closed = TRUE]
           /\ \A q \in Revisions \ {r} : m[q] = main[op][q] /\ s[q] = speech[op][q]
           /\ s[r].pc = speech[op][r].pc /\ s[r].queue = speech[op][r].queue
           /\ s[r].unit = speech[op][r].unit /\ s[r].failed = speech[op][r].failed
           /\ Consumed(m, s)
  <1> DEFINE o == speech[op][r]
             x == [o EXCEPT !.closed = TRUE]
             m == [main[op] EXCEPT ![r].pc = pc]
             s == [speech[op] EXCEPT ![r] = x]
  <1>1. /\ x \in SpeechSteps /\ x.pc = o.pc /\ x.queue = o.queue /\ x.unit = o.unit
        /\ x.failed = o.failed /\ x.closed
    BY AttemptTypes DEF SpeechSteps
  <1>2. /\ main' = [main EXCEPT ![op] = m] /\ m \in [Revisions -> MainSteps]
        /\ m[r].pc = pc /\ \A q \in Revisions \ {r} : m[q] = main[op][q]
    BY MainStep
  <1> HIDE DEF x
  <1>3. /\ speech' = [speech EXCEPT ![op] = s] /\ s \in [Revisions -> SpeechSteps]
        /\ s[r] = x /\ \A q \in Revisions \ {r} : s[q] = speech[op][q]
    BY <1>1, SpeechStep DEF x
  <1> HIDE DEF m, s
  <1>4. Consumed(main[op], speech[op])
    BY AttemptTypes
  <1>5. (o.pc = "done" /\ ~o.failed => o.queue = <<>>) /\ (o.pc = "drain" => o.failed)
    BY <1>4 DEF Consumed
  <1>6. Consumed(m, s)
    BY <1>1, <1>2, <1>3, <1>4, <1>5, ConsumedStep
  <1> QED BY <1>1, <1>2, <1>3, <1>6 DEF x

LEMMA LlmReturnsInv ==
  ASSUME IInv, NEW op \in Ops, NEW r \in Revisions, LlmReturns(op, r)
  PROVE  IInv'
  <1> DEFINE t == turns[op]
  <1>1. /\ t \in AnyTurn /\ Good(t, input[op], main[op], speech[op])
        /\ main[op][r].pc = "llm" /\ GenerationLive(op, r)
        /\ ~Rests(main[op], speech[op], r)
        /\ UNCHANGED <<closed, voice, input, late>>
    BY TypedParts DEF LlmReturns, Rests
  <1>2. /\ input[op] = "none" /\ t.state \in {"THINKING", "SYNTHESIZING", "PLAYING"}
        /\ t.state \in Active /\ ~Ended(t) /\ t.rev = r /\ ~t.prodDone /\ ~Over(t)
        /\ t.key \in {"none", "open"} /\ Live(op)
    BY <1>1, Busy, TypedParts DEF GenerationLive, Live, Over, Active
  <1>3. PICK gen \in {"partial", "complete"}, pc \in {"none", "wait"} :
          LET u == [t EXCEPT !.gen = gen, !.genDone = TRUE]
          IN  /\ \/ Keep(op, u) /\ pc = "wait"
                 \/ Fail(op, u, "recording") /\ pc = "none"
              /\ SetMain(op, r, pc)
    BY DEF LlmReturns
  <1> DEFINE u == [t EXCEPT !.gen = gen, !.genDone = TRUE]
  <1>4. /\ u \in AnyTurn /\ u.state = t.state /\ u.key = t.key /\ u.input = t.input
        /\ u.session = t.session /\ u.rev = t.rev /\ u.prodDone = t.prodDone
        /\ u.speechErr = t.speechErr /\ u.units = t.units
    BY <1>1 DEF AnyTurn, TurnsIn
  <1>5. PICK m \in [Revisions -> MainSteps], s \in [Revisions -> SpeechSteps] :
           /\ main' = [main EXCEPT ![op] = m] /\ speech' = [speech EXCEPT ![op] = s]
           /\ m[r].pc = pc
           /\ \A q \in Revisions \ {r} : m[q] = main[op][q] /\ s[q] = speech[op][q]
           /\ s[r].pc = speech[op][r].pc /\ s[r].queue = speech[op][r].queue
           /\ s[r].unit = speech[op][r].unit /\ s[r].failed = speech[op][r].failed
           /\ Consumed(m, s)
    BY <1>1, <1>3, GeneratorEnds DEF LlmReturns
  <1>6. \/ Keep(op, u) /\ pc = "wait"
        \/ Fail(op, u, "recording") /\ pc = "none"
    BY <1>3
  <1> HIDE DEF u
  <1>7. CASE Keep(op, u) /\ pc = "wait"
    <2>1. ~Over(u) /\ ~Ended(u) /\ u.state \in Active
      BY <1>2, <1>4 DEF Over, Ended
    <2>2. OneAttempt(u, m, s)
      BY <1>1, <1>2, <1>4, <1>5, <2>1 DEF Good, OneAttempt, Rests
    <2>3. SpokenFor(u, m, s)
      <3>1. ASSUME NEW x, OnItsWay(t, main[op][r], speech[op][r], x)
            PROVE  OnItsWay(u, m[r], s[r], x)
        BY <1>1, <1>5, <1>7, <3>1 DEF OnItsWay
      <3> QED BY <1>1, <1>2, <1>4, <3>1 DEF Good, SpokenFor
    <2>4. Recorded(u) /\ Completed(u) /\ Accepts(u, input[op], m, s)
      BY <1>1, <1>2, <1>4, <2>1 DEF Good, Recorded, Completed, Accepts
    <2>5. Good(u, input[op], m, s) /\ "none" \in Codes
      BY <1>5, <2>2, <2>3, <2>4 DEF Good, Codes
    <2> QED BY <1>1, <1>2, <1>4, <1>5, <1>7, <2>1, <2>5, LiveStep
  <1>8. CASE Fail(op, u, "recording") /\ pc = "none"
    <2>1. /\ ~Ended(u) /\ u.key \in {"none", "open"}
          /\ u.speechErr => u.input = "text"
          /\ input' = [input EXCEPT ![op] = "none"] /\ "recording" \in Codes
      BY <1>1, <1>2, <1>4, TypedParts DEF Good, Completed, Ended, Codes
    <2> QED BY <1>1, <1>4, <1>5, <1>8, <2>1, Stopped
  <1> QED BY <1>6, <1>7, <1>8

LEMMA LlmFailsInv ==
  ASSUME IInv, NEW op \in Ops, NEW r \in Revisions, LlmFails(op, r)
  PROVE  IInv'
  <1> DEFINE t == turns[op]
             u == [t EXCEPT !.gen = "partial"]
  <1>1. /\ t \in AnyTurn /\ Good(t, input[op], main[op], speech[op])
        /\ main[op][r].pc \in {"llm", "push", "wait"} /\ GenerationLive(op, r)
        /\ ~Rests(main[op], speech[op], r)
        /\ UNCHANGED <<closed, voice, input, late>> /\ Fail(op, u, "llm")
    BY TypedParts DEF LlmFails, Rests
  <1>2. input[op] = "none" /\ ~Ended(t) /\ t.key \in {"none", "open"}
    BY <1>1, Busy, TypedParts DEF GenerationLive, Live, Over, Active
  <1>3. /\ u \in AnyTurn /\ u.state = t.state /\ u.key = t.key /\ u.input = t.input
        /\ u.speechErr = t.speechErr
    BY <1>1 DEF AnyTurn, TurnsIn
  <1> HIDE DEF u
  <1>4. PICK m \in [Revisions -> MainSteps], s \in [Revisions -> SpeechSteps] :
           /\ main' = [main EXCEPT ![op] = m] /\ speech' = [speech EXCEPT ![op] = s]
           /\ Consumed(m, s)
    BY <1>1, GeneratorEnds DEF LlmFails
  <1>5. /\ ~Ended(u) /\ u.key \in {"none", "open"}
        /\ u.speechErr => u.input = "text"
        /\ input' = [input EXCEPT ![op] = "none"] /\ "llm" \in Codes
    BY <1>1, <1>2, <1>3, TypedParts DEF Good, Completed, Ended, Codes
  <1> QED BY <1>1, <1>3, <1>4, <1>5, Stopped

LEMMA GeneratorStopsInv ==
  ASSUME IInv, NEW op \in Ops, NEW r \in Revisions, GeneratorStops(op, r)
  PROVE  IInv'
  <1>1. PICK m \in [Revisions -> MainSteps], s \in [Revisions -> SpeechSteps] :
           /\ main' = [main EXCEPT ![op] = m] /\ speech' = [speech EXCEPT ![op] = s]
           /\ Consumed(m, s)
    BY GeneratorEnds DEF GeneratorStops
  <1>2. ~Rests(main[op], speech[op], r) /\ ~GenerationLive(op, r)
    BY DEF GeneratorStops, Rests
  <1> QED BY <1>1, <1>2, GoroutineStep DEF GeneratorStops

\* The speech goroutine is done: a turn that was not ended meanwhile has every
\* unit synthesized, or goes on without its speech.
LEMMA AwaitInv ==
  ASSUME IInv, NEW op \in Ops, NEW r \in Revisions, Await(op, r)
  PROVE  IInv'
  <1> DEFINE t == turns[op]
             o == speech[op][r]
             m == [main[op] EXCEPT ![r].pc = "none"]
             s == speech[op]
             u == [t EXCEPT !.prodDone = TRUE, !.speechErr = t.speechErr \/ o.failed]
  <1>1. /\ t \in AnyTurn /\ Good(t, input[op], main[op], s) /\ s \in [Revisions -> SpeechSteps]
        /\ speech' = [speech EXCEPT ![op] = s] /\ turns = [turns EXCEPT ![op] = t]
        /\ main[op][r].pc = "wait" /\ o.pc = "done"
        /\ ~Rests(main[op], s, r) /\ UNCHANGED <<closed, voice, input, speech, late>>
    BY TypedParts DEF Await, Rests
  <1>2. /\ input[op] = "none" /\ input' = [input EXCEPT ![op] = "none"]
        /\ \/ Over(t)
           \/ /\ t.state \in {"THINKING", "SYNTHESIZING", "PLAYING"}
              /\ t.state \in Active /\ ~Ended(t) /\ t.rev = r /\ ~t.prodDone
    BY <1>1, Busy, TypedParts
  <1>3. /\ main' = [main EXCEPT ![op] = m] /\ m \in [Revisions -> MainSteps]
        /\ m[r].pc = "none" /\ \A q \in Revisions \ {r} : m[q] = main[op][q]
    BY MainStep DEF Await
  <1> HIDE DEF m
  <1>4. Consumed(m, s)
    BY <1>1, <1>3 DEF Good, Consumed
  <1>5. CASE Over(t)
    <2>1. Ended(t) /\ ~GenerationLive(op, r)
      BY <1>5 DEF Over, Ended, Terminal, GenerationLive, Live, Active
    <2>2. UNCHANGED <<turns, active>>
      BY <1>1, <2>1 DEF Await, Fail, Keep, Ignored
    <2> QED BY <1>1, <1>3, <1>4, <2>1, <2>2, GoroutineStep
  <1>6. CASE ~Over(t)
    <2>1. /\ t.state \in Active /\ ~Ended(t) /\ t.rev = r /\ ~t.prodDone
          /\ t.state \in {"THINKING", "SYNTHESIZING", "PLAYING"}
          /\ t.key \in {"none", "open"} /\ Live(op) /\ GenerationLive(op, r)
      BY <1>2, <1>6, TypedParts DEF Live, GenerationLive
    <2>2. CASE o.failed /\ t.input # "text"
      <3>1. Fail(op, t, "tts") /\ (t.speechErr => t.input = "text") /\ "tts" \in Codes
        BY <1>1, <2>2 DEF Await, Good, Completed, Codes
      <3> QED BY <1>1, <1>2, <1>3, <1>4, <2>1, <3>1, Stopped
    <2>3. CASE ~(o.failed /\ t.input # "text")
      <3>1. /\ Fail(op, u, "tts_empty_audio") \/ CompleteIfPlayed(op, u)
            /\ "tts_empty_audio" \in Codes
        <4>1. u = [t EXCEPT !.prodDone = TRUE, !.speechErr = @ \/ o.failed]
          OBVIOUS
        <4> HIDE DEF u
        <4> QED BY <2>1, <2>3, <4>1 DEF Await, Codes
      <3>2. o.failed \in BOOLEAN /\ t.speechErr \in BOOLEAN
        BY <1>1, AttemptTypes DEF AnyTurn, TurnsIn, SpeechSteps
      <3>3. /\ u \in AnyTurn /\ u.state = t.state /\ u.key = t.key /\ u.input = t.input
            /\ u.session = t.session /\ u.rev = t.rev
            /\ u.speechErr = (t.speechErr \/ o.failed) /\ u.units = t.units
        <4> DEFINE err == t.speechErr \/ o.failed
        <4>1. err \in BOOLEAN /\ u = [t EXCEPT !.prodDone = TRUE, !.speechErr = err]
          BY <3>2
        <4> HIDE DEF err, u
        <4>2. /\ u \in AnyTurn /\ u.state = t.state /\ u.key = t.key /\ u.input = t.input
              /\ u.session = t.session /\ u.rev = t.rev
              /\ u.speechErr = err /\ u.units = t.units
          BY <1>1, <4>1 DEF AnyTurn, TurnsIn
        <4> QED BY <4>2 DEF err
      <3> HIDE DEF u
      <3>4. ~Over(u) /\ ~Ended(u) /\ u.state \in Active
        BY <1>6, <2>1, <3>3 DEF Over, Ended
      <3>5. Rests(m, s, r)
        BY <1>1, <1>3 DEF Rests
      <3>6. OneAttempt(u, m, s)
        BY <1>1, <1>3, <1>6, <2>1, <3>3, <3>4, <3>5 DEF Good, OneAttempt, Rests
      <3>7. SpokenFor(u, m, s)
        <4>1. ASSUME NEW x \in DOMAIN t.units
              PROVE  t.units[x].sealed \/ u.speechErr
          <5>1. CASE o.failed
            BY <3>3, <5>1
          <5>2. CASE ~o.failed
            <6>1. o.queue = <<>> /\ DOMAIN o.queue = {}
              BY <1>1, <5>2 DEF Good, Consumed
            <6>2. ~OnItsWay(t, main[op][r], o, x)
              BY <1>1, <5>2, <6>1 DEF OnItsWay
            <6> QED BY <1>1, <1>6, <2>1, <3>3, <6>2 DEF Good, SpokenFor
          <5> QED BY <5>1, <5>2
        <4> QED BY <3>3, <4>1 DEF SpokenFor
      <3>8. Recorded(u) /\ Accepts(u, input[op], m, s)
        BY <1>2, <2>1, <3>3, <3>4 DEF Recorded, Accepts
      <3>9. Completed(u)
        BY <1>1, <2>3, <3>3, <3>4 DEF Good, Completed, Active
      <3>10. Good(u, input[op], m, s)
        BY <1>4, <3>6, <3>7, <3>8, <3>9 DEF Good
      <3> QED BY <1>1, <1>3, <2>1, <3>1, <3>3, <3>4, <3>10, LiveStep
    <2> QED BY <2>2, <2>3
  <1> QED BY <1>5, <1>6
-----------------------------------------------------------------------------
(* The speech goroutine *)

\* It moves to x, while the turn is unchanged: what it still owes stays on its
\* way.
LEMMA SpeechMoves ==
  ASSUME IInv, NEW op \in Ops, NEW r \in Revisions, NEW x \in SpeechSteps,
         SetSpeech(op, r, x), UNCHANGED <<turns, active, input, main, voice>>,
         speech[op][r].pc \notin {"idle", "done"},
         x.closed => speech[op][r].closed,
         x.pc = "done" /\ ~x.failed => x.closed /\ x.queue = <<>>,
         x.pc = "drain" => x.failed,
         GenerationLive(op, r) =>
           \A u \in DOMAIN turns[op].units :
             OnItsWay(turns[op], main[op][r], speech[op][r], u) =>
               OnItsWay(turns[op], main[op][r], x, u)
  PROVE  IInv'
  <1> DEFINE t == turns[op]
             s == [speech[op] EXCEPT ![r] = x]
  <1>1. /\ t \in AnyTurn /\ Good(t, input[op], main[op], speech[op])
        /\ main[op] \in [Revisions -> MainSteps] /\ main' = [main EXCEPT ![op] = main[op]]
        /\ ~Rests(main[op], speech[op], r)
    BY TypedParts DEF Rests
  <1>2. /\ speech' = [speech EXCEPT ![op] = s] /\ s \in [Revisions -> SpeechSteps]
        /\ s[r] = x /\ \A q \in Revisions \ {r} : s[q] = speech[op][q]
    BY SpeechStep
  <1> HIDE DEF s
  <1>3. Consumed(main[op], s)
    <2>1. /\ Consumed(main[op], speech[op])
          /\ speech[op][r].closed => main[op][r].pc \in {"none", "start", "wait"}
      BY <1>1 DEF Good, Consumed
    <2> QED BY <1>2, <2>1, ConsumedStep
  <1>4. ASSUME GenerationLive(op, r)
        PROVE  OneAttempt(t, main[op], s) /\ SpokenFor(t, main[op], s)
    <2>1. t.rev = r /\ ~t.prodDone /\ ~Over(t) /\ t.state \in Active
      BY <1>1, <1>4, Busy DEF GenerationLive, Live, Over, Active
    <2>2. OneAttempt(t, main[op], s)
      BY <1>1, <1>2, <2>1, OneAttemptStep DEF Good
    <2>3. SpokenFor(t, main[op], s)
      BY <1>1, <1>2, <1>4, <2>1 DEF Good, SpokenFor
    <2> QED BY <2>2, <2>3
  <1> QED BY <1>1, <1>2, <1>3, <1>4, GoroutineStep

LEMMA SpeechTakeInv ==
  ASSUME IInv, NEW op \in Ops, NEW r \in Revisions, SpeechTake(op, r)
  PROVE  IInv'
  <1> DEFINE o == speech[op][r]
             h == Head(o.queue)
             q == Tail(o.queue)
             x == [o EXCEPT !.pc = "synth", !.unit = h, !.queue = q]
  <1>1. o.queue \in Seq(Nat) /\ o \in SpeechSteps /\ o.queue # <<>> /\ o.pc = "wait"
    BY AttemptTypes DEF SpeechTake
  <1>2. /\ h \in Nat /\ q \in Seq(Nat)
        /\ \A u : (\E j \in DOMAIN o.queue : o.queue[j] = u) =>
                    u = h \/ \E j \in DOMAIN q : q[j] = u
    <2> DEFINE z == o.queue
    <2>1. z \in Seq(Nat) /\ z # <<>>
      BY <1>1
    <2> HIDE DEF z, o
    <2>2. /\ Head(z) \in Nat /\ Tail(z) \in Seq(Nat) /\ Len(Tail(z)) = Len(z) - 1
          /\ \A j \in 1 .. Len(Tail(z)) : Tail(z)[j] = z[j + 1]
      BY <2>1, HeadTailProperties
    <2>3. /\ DOMAIN z = 1 .. Len(z) /\ Len(z) \in Nat
          /\ DOMAIN Tail(z) = 1 .. Len(Tail(z)) /\ Head(z) = z[1]
      BY <2>1, <2>2, LenProperties
    <2>4. ASSUME NEW j \in DOMAIN z
          PROVE  z[j] = Head(z) \/ \E k \in DOMAIN Tail(z) : Tail(z)[k] = z[j]
      <3>1. CASE j = 1
        BY <2>3, <3>1
      <3>2. CASE j # 1
        <4>1. j - 1 \in DOMAIN Tail(z) /\ Tail(z)[j - 1] = z[j]
          BY <2>2, <2>3, <3>2
        <4> QED BY <4>1
      <3> QED BY <3>1, <3>2
    <2> QED BY <2>2, <2>4 DEF z
  <1>3. SetSpeech(op, r, x) /\ UNCHANGED <<turns, active, input, main, voice>>
    BY DEF SpeechTake
  <1> HIDE DEF h, q
  <1>4. /\ x \in SpeechSteps /\ x.pc = "synth" /\ x.unit = h /\ x.queue = q
        /\ x.closed = o.closed /\ x.failed = o.failed
    BY <1>1, <1>2 DEF SpeechSteps
  <1> HIDE DEF x
  <1>5. \A u : OnItsWay(turns[op], main[op][r], o, u) => OnItsWay(turns[op], main[op][r], x, u)
    BY <1>1, <1>2, <1>4 DEF OnItsWay
  <1> QED BY <1>1, <1>3, <1>4, <1>5, SpeechMoves

\* What is drained belongs to an answer without speech.
LEMMA SpeechDrainInv ==
  ASSUME IInv, NEW op \in Ops, NEW r \in Revisions, SpeechDrain(op, r)
  PROVE  IInv'
  <1> DEFINE o == speech[op][r]
             q == Tail(o.queue)
             x == [o EXCEPT !.queue = q]
  <1>1. /\ o.queue \in Seq(Nat) /\ o \in SpeechSteps /\ o.queue # <<>> /\ o.pc = "drain"
        /\ o.failed
    BY AttemptTypes DEF SpeechDrain, Consumed
  <1>2. q \in Seq(Nat)
    BY <1>1, HeadTailProperties
  <1>3. SetSpeech(op, r, x) /\ UNCHANGED <<turns, active, input, main, voice>>
    BY DEF SpeechDrain
  <1> HIDE DEF q
  <1>4. /\ x \in SpeechSteps /\ x.pc = "drain" /\ x.closed = o.closed /\ x.failed
    BY <1>1, <1>2 DEF SpeechSteps
  <1> HIDE DEF x
  <1>5. \A u : OnItsWay(turns[op], main[op][r], o, u) => OnItsWay(turns[op], main[op][r], x, u)
    BY <1>4 DEF OnItsWay
  <1> QED BY <1>1, <1>3, <1>4, <1>5, SpeechMoves

LEMMA SpeechEndsInv ==
  ASSUME IInv, NEW op \in Ops, NEW r \in Revisions, SpeechEnds(op, r)
  PROVE  IInv'
  <1> DEFINE o == speech[op][r]
             x == [o EXCEPT !.pc = "done"]
  <1>1. o \in SpeechSteps /\ o.queue = <<>> /\ o.pc \in {"wait", "drain"} /\ o.closed
    BY AttemptTypes DEF SpeechEnds
  <1>2. SetSpeech(op, r, x) /\ UNCHANGED <<turns, active, input, main, voice>>
    BY DEF SpeechEnds
  <1>3. /\ x \in SpeechSteps /\ x.pc = "done" /\ x.closed /\ x.queue = o.queue
        /\ x.failed = o.failed
    BY <1>1 DEF SpeechSteps
  <1> HIDE DEF x
  <1>4. \A u : OnItsWay(turns[op], main[op][r], o, u) => OnItsWay(turns[op], main[op][r], x, u)
    BY <1>1, <1>3 DEF OnItsWay
  <1> QED BY <1>1, <1>2, <1>3, <1>4, SpeechMoves

LEMMA SpeechStopsInv ==
  ASSUME IInv, NEW op \in Ops, NEW r \in Revisions, SpeechStops(op, r)
  PROVE  IInv'
  <1> DEFINE o == speech[op][r]
             x == [o EXCEPT !.pc = "done", !.failed = TRUE]
  <1>1. o \in SpeechSteps /\ o.pc \in {"wait", "drain"} /\ ~GenerationLive(op, r)
    BY AttemptTypes DEF SpeechStops
  <1>2. SetSpeech(op, r, x) /\ UNCHANGED <<turns, active, input, main, voice>>
    BY DEF SpeechStops
  <1>3. x \in SpeechSteps /\ x.pc = "done" /\ x.closed = o.closed /\ x.failed
    BY <1>1 DEF SpeechSteps
  <1> HIDE DEF x
  <1> QED BY <1>1, <1>2, <1>3, SpeechMoves

LEMMA SpeechChunkInv ==
  ASSUME IInv, NEW op \in Ops, NEW r \in Revisions, SpeechChunk(op, r)
  PROVE  IInv'
  <1> DEFINE t == turns[op]
             o == speech[op][r]
             chunks == Append(t.chunks, [unit |-> o.unit, st |-> "queued"])
             u == [t EXCEPT !.chunks = chunks]
  <1>1. Live(op) /\ Keep(op, u) /\ UNCHANGED <<closed, voice, input, main, speech, late>>
    BY DEF SpeechChunk, GenerationLive
  <1>2. t \in AnyTurn /\ t.chunks \in Seq(Audio) /\ o.unit \in Nat
    BY TypedParts, AttemptTypes
  <1>3. [unit |-> o.unit, st |-> "queued"] \in Audio
    BY <1>2 DEF Audio
  <1>4. chunks \in Seq(Audio)
    BY <1>2, <1>3, AppendProperties
  <1> HIDE DEF chunks
  <1>5. u \in AnyTurn
    BY <1>2, <1>4 DEF AnyTurn, TurnsIn
  <1>6. GoesOn(t, u) /\ u.session = t.session
    BY <1>1, <1>5, OtherChunks
  <1> HIDE DEF u
  <1>7. "none" \in Codes
    BY DEF Codes
  <1> QED BY <1>1, <1>5, <1>6, <1>7, WindowStep

\* What sealing a unit of the turn does, from wherever it is called.
LEMMA SealedTurn ==
  ASSUME IInv, NEW op \in Ops, NEW r \in Revisions, NEW u
  PROVE  LET n == Sealed(op, r, u)
             t == turns[op]
         IN  /\ n \in AnyTurn /\ Good(n, input[op], main[op], speech[op])
             /\ n.state = t.state /\ n.session = t.session /\ n.rev = t.rev
             /\ n.key = t.key /\ n.input = t.input /\ n.prodDone = t.prodDone
             /\ n.speechErr = t.speechErr
             /\ DOMAIN n.units = DOMAIN t.units /\ Len(n.units) = Len(t.units)
             /\ \A x \in DOMAIN t.units :
                  /\ t.units[x].sealed => n.units[x].sealed
                  /\ x = u /\ t.rev = r => n.units[x].sealed
  <1> DEFINE t == turns[op]
             n == [t EXCEPT !.units[u].sealed = TRUE]
  <1>1. t \in AnyTurn /\ Good(t, input[op], main[op], speech[op])
    BY TypedParts
  <1>2. CASE t.rev = r
    <2>1. /\ n \in AnyTurn /\ Good(n, input[op], main[op], speech[op]) /\ n.state = t.state
          /\ n = [t EXCEPT !.units = n.units] /\ DOMAIN n.units = DOMAIN t.units
          /\ \A x \in DOMAIN t.units : /\ t.units[x].sealed => n.units[x].sealed
                                       /\ x = u => n.units[x].sealed
      <3> HIDE DEF t
      <3> QED BY <1>1, SealedIsGood
    <2>2. Sealed(op, r, u) = n
      BY <1>2 DEF Sealed
    <2> HIDE DEF n
    <2>3. /\ n.session = t.session /\ n.rev = t.rev
          /\ n.key = t.key /\ n.input = t.input /\ n.prodDone = t.prodDone
          /\ n.speechErr = t.speechErr /\ n.units \in Seq(Units) /\ t.units \in Seq(Units)
      BY <1>1, <2>1 DEF AnyTurn, TurnsIn
    <2>4. Len(n.units) = Len(t.units)
      BY <2>1, <2>3, LenProperties
    <2> QED BY <2>1, <2>2, <2>3, <2>4
  <1>3. CASE t.rev # r
    BY <1>1, <1>3 DEF Sealed
  <1> QED BY <1>2, <1>3

LEMMA SpeechSucceedsInv ==
  ASSUME IInv, NEW op \in Ops, NEW r \in Revisions, SpeechSucceeds(op, r)
  PROVE  IInv'
  <1> DEFINE t == turns[op]
             o == speech[op][r]
             done == o.done + 1
             x == [o EXCEPT !.pc = "wait", !.done = done]
             s == [speech[op] EXCEPT ![r] = x]
             n == Sealed(op, r, o.unit)
  <1>1. /\ o \in SpeechSteps /\ o.pc = "synth" /\ GenerationLive(op, r) /\ Live(op)
        /\ Keep(op, n) /\ SetSpeech(op, r, x)
        /\ UNCHANGED <<closed, voice, input, main, late>>
        /\ t.rev = r /\ t.state \in Active /\ ~Over(t)
    BY AttemptTypes DEF SpeechSucceeds, GenerationLive, Live, Over, Active
  <1>2. done \in Nat
    BY AttemptTypes
  <1> HIDE DEF done
  <1>3. /\ x \in SpeechSteps /\ x.pc = "wait" /\ x.closed = o.closed /\ x.failed = o.failed
        /\ x.queue = o.queue
    BY <1>1, <1>2 DEF SpeechSteps
  <1> HIDE DEF x
  <1>4. /\ speech' = [speech EXCEPT ![op] = s] /\ s \in [Revisions -> SpeechSteps]
        /\ s[r] = x /\ \A q \in Revisions \ {r} : s[q] = speech[op][q]
    BY <1>1, <1>3, SpeechStep
  <1> HIDE DEF s
  <1>5. /\ n \in AnyTurn /\ Good(n, input[op], main[op], speech[op])
        /\ n.state = t.state /\ n.session = t.session /\ n.rev = t.rev
        /\ DOMAIN n.units = DOMAIN t.units /\ Len(n.units) = Len(t.units)
        /\ \A u \in DOMAIN t.units : /\ t.units[u].sealed => n.units[u].sealed
                                     /\ u = o.unit => n.units[u].sealed
    BY <1>1, SealedTurn
  <1> HIDE DEF n
  <1>6. ~Rests(main[op], speech[op], r) /\ main = [main EXCEPT ![op] = main[op]]
        /\ main[op] \in [Revisions -> MainSteps] /\ input[op] \in {"none", "asr", "arm"}
    BY <1>1, TypedParts DEF Rests
  <1>7. ~Over(n) /\ n.state \in Active /\ input[op] = "none" /\ ~n.prodDone
        /\ n.state \notin {"none", "RECORDING", "TRANSCRIBING"}
    BY <1>1, <1>5, <1>6, Busy DEF Over
  <1>8. Consumed(main[op], s)
    <2>1. /\ Consumed(main[op], speech[op])
          /\ o.closed => main[op][r].pc \in {"none", "start", "wait"}
      BY <1>5 DEF Good, Consumed
    <2> QED BY <1>3, <1>4, <2>1, ConsumedStep
  <1>9. OneAttempt(n, main[op], s)
    BY <1>1, <1>4, <1>5, <1>7, OneAttemptStep DEF Good
  <1>10. SpokenFor(n, main[op], s)
    <2>1. ASSUME NEW u \in DOMAIN n.units, ~n.units[u].sealed,
                 OnItsWay(n, main[op][r], o, u)
          PROVE  OnItsWay(n, main[op][r], x, u)
      <3>1. u # o.unit
        BY <1>5, <2>1
      <3> QED BY <1>3, <2>1, <3>1 DEF OnItsWay
    <2> QED BY <1>1, <1>4, <1>5, <1>7, <2>1 DEF Good, SpokenFor
  <1>11. Good(n, input[op], main[op], s)
    BY <1>5, <1>7, <1>8, <1>9, <1>10 DEF Good, Accepts
  <1>12. "none" \in Codes
    BY DEF Codes
  <1> QED BY <1>1, <1>4, <1>5, <1>6, <1>7, <1>11, <1>12, LiveStep

LEMMA SpeechFailsInv ==
  ASSUME IInv, NEW op \in Ops, NEW r \in Revisions, SpeechFails(op, r)
  PROVE  IInv'
  <1> DEFINE t == turns[op]
             o == speech[op][r]
             text == t.input = "text"
             x == [o EXCEPT !.pc = IF text THEN "drain" ELSE "done", !.failed = TRUE]
             s == [speech[op] EXCEPT ![r] = x]
  <1>1. /\ o \in SpeechSteps /\ o.pc = "synth" /\ SetSpeech(op, r, x)
        /\ UNCHANGED <<closed, voice, input, main>>
    BY AttemptTypes DEF SpeechFails
  <1>2. PICK n \in {t, Sealed(op, r, o.unit)} :
          IF text THEN Keep(op, n) ELSE Fail(op, n, "tts")
    BY DEF SpeechFails
  <1>3. /\ x \in SpeechSteps /\ x.pc = (IF text THEN "drain" ELSE "done")
        /\ x.closed = o.closed /\ x.failed /\ x.queue = o.queue
    BY <1>1 DEF SpeechSteps
  <1> HIDE DEF x
  <1>4. /\ speech' = [speech EXCEPT ![op] = s] /\ s \in [Revisions -> SpeechSteps]
        /\ s[r] = x /\ \A q \in Revisions \ {r} : s[q] = speech[op][q]
    BY <1>1, <1>3, SpeechStep
  <1> HIDE DEF s
  <1>5. /\ n \in AnyTurn /\ Good(n, input[op], main[op], speech[op])
        /\ n.state = t.state /\ n.session = t.session /\ n.rev = t.rev /\ n.input = t.input
        /\ Len(n.units) = Len(t.units)
    BY <1>2, SealedTurn, TypedParts
  <1>6. /\ ~Rests(main[op], speech[op], r) /\ main' = [main EXCEPT ![op] = main[op]]
        /\ main[op] \in [Revisions -> MainSteps]
        /\ input' = [input EXCEPT ![op] = input[op]]
    BY <1>1, TypedParts DEF Rests
  <1>7. Consumed(main[op], s)
    <2>1. /\ Consumed(main[op], speech[op])
          /\ o.closed => main[op][r].pc \in {"none", "start", "wait"}
      BY <1>5 DEF Good, Consumed
    <2> QED BY <1>3, <1>4, <2>1, ConsumedStep
  <1>8. /\ input[op] = "none" /\ (n.speechErr => n.input = "text")
        /\ \/ Over(n)
           \/ n.state \in Active /\ ~Ended(n) /\ n.rev = r /\ ~n.prodDone
    BY <1>5, <1>6, Busy DEF Good, Completed
  <1>9. CASE text /\ ~Over(n)
    <2>1. OneAttempt(n, main[op], s)
      BY <1>4, <1>5, <1>8, <1>9, OneAttemptStep DEF Good
    <2>2. SpokenFor(n, main[op], s)
      <3>1. \A u : OnItsWay(n, main[op][r], o, u) => OnItsWay(n, main[op][r], x, u)
        BY <1>3 DEF OnItsWay
      <3> QED BY <1>4, <1>5, <1>8, <1>9, <3>1 DEF Good, SpokenFor
    <2>3. Accepts(n, "none", main[op], s)
      <3>1. n.state \notin {"none", "RECORDING", "TRANSCRIBING"}
        BY <1>5, <1>6, <1>9, Busy
      <3> QED BY <3>1 DEF Accepts
    <2>4. Good(n, input[op], main[op], s)
      BY <1>5, <1>7, <1>8, <2>1, <2>2, <2>3 DEF Good
    <2>5. Keep(op, n) /\ Live(op) /\ "none" \in Codes
      BY <1>2, <1>5, <1>8, <1>9 DEF Live, Codes
    <2> QED BY <1>1, <1>4, <1>5, <1>6, <1>8, <1>9, <2>4, <2>5, LiveStep
  <1>10. CASE Over(n)
    <2>1. Ended(n) /\ Over(t)
      BY <1>5, <1>10 DEF Over, Ended, Terminal
    <2>2. Keep(op, n)
      BY <1>2, <2>1 DEF Fail
    <2> QED BY <1>1, <1>4, <1>5, <1>6, <1>7, <1>8, <1>10, <2>1, <2>2, OverStep DEF Keep
  <1>11. CASE ~text /\ ~Over(n)
    <2>1. ~Ended(n) /\ n.key \in {"none", "open"} /\ "tts" \in Codes
      BY <1>5, <1>8, <1>11 DEF Good, Recorded, Codes
    <2> QED BY <1>1, <1>2, <1>4, <1>5, <1>6, <1>7, <1>8, <1>11, <2>1, Stopped
  <1> QED BY <1>9, <1>10, <1>11

LEMMA LateSealInv ==
  ASSUME IInv, NEW op \in Ops, NEW r \in Revisions, NEW u, LateSeal(op, r, u)
  PROVE  IInv'
  <1> DEFINE n == Sealed(op, r, u)
  <1>1. /\ n \in AnyTurn /\ Good(n, input[op], main[op], speech[op])
        /\ n.state = turns[op].state /\ n.session = turns[op].session
        /\ n.rev = turns[op].rev
    BY SealedTurn
  <1>2. Keep(op, n) /\ UNCHANGED <<closed, voice, input, main, speech>>
    BY DEF LateSeal
  <1> HIDE DEF n
  <1>3. StepTo(op, n, input[op], main[op], speech[op]) /\ active' = active
    BY <1>2, TypedParts DEF Keep, StepTo
  <1>4. n.state \in Active <=> Live(op)
    BY <1>1 DEF Live
  <1> QED BY <1>1, <1>3, <1>4, TypedParts, Kept
-----------------------------------------------------------------------------
(* Every step *)

LEMMA NextInv ==
  ASSUME IInv, Next
  PROVE  IInv'
  <1>1. CASE VoiceSession
    BY <1>1, VoiceSessionInv
  <1>2. CASE Close
    BY <1>2, CloseInv
  <1>3. ASSUME NEW op \in Ops, Entry(op)
        PROVE  IInv'
    BY <1>3, StartInv, CommitInv, ContinueInv DEF Entry
  <1>4. ASSUME NEW op \in Ops, Accepting(op)
        PROVE  IInv'
    BY <1>4, ArmCandidateInv, InputRefusedInv, AcceptTranscriptInv DEF Accepting
  <1>5. ASSUME NEW op \in Ops, Window(op)
        PROVE  IInv'
    BY <1>5, WindowInv
  <1>6. ASSUME NEW op \in Ops, NEW r \in Revisions, Generator(op, r)
        PROVE  IInv'
    BY <1>6, GenerateInv, ProgressInv, PushInv, LlmReturnsInv, LlmFailsInv,
       GeneratorStopsInv, AwaitInv DEF Generator
  <1>7. ASSUME NEW op \in Ops, NEW r \in Revisions, Speech(op, r)
        PROVE  IInv'
    BY <1>7, SpeechTakeInv, SpeechDrainInv, SpeechEndsInv, SpeechStopsInv,
       SpeechChunkInv, SpeechSucceedsInv, SpeechFailsInv, LateSealInv DEF Speech
  <1> QED BY <1>1, <1>2, <1>3, <1>4, <1>5, <1>6, <1>7 DEF Next

LEMMA StutterInv ==
  ASSUME IInv, UNCHANGED vars
  PROVE  IInv'
  <1>1. /\ turns' = turns /\ active' = active /\ voice' = voice /\ input' = input
        /\ main' = main /\ speech' = speech
    BY DEF vars
  <1> QED BY <1>1 DEF IInv, Shapes, OneActive, SessionOwnsTurn, Live

THEOREM Invariance == Spec => []IInv
  <1>1. Init => IInv
    BY InitInv
  <1>2. IInv /\ [Next]_vars => IInv'
    BY NextInv, StutterInv
  <1> QED BY <1>1, <1>2, PTL DEF Spec

-----------------------------------------------------------------------------
(* What follows *)

\* The engine, the voice session and the draft of its recording belong to a turn
\* exactly as long as it is under way, however many operations there are
\* (InteractionEngine.active, validVoiceSessionLocked, finishLocked).
THEOREM TurnsOwn == Spec => []Ownership
  <1>1. IInv => Ownership
    <2>1. ASSUME IInv
          PROVE  DraftsClosed
      BY <2>1, TypedParts DEF Good, Recorded, DraftsClosed
    <2> QED BY <2>1 DEF Ownership, IInv
  <1> QED BY <1>1, Invariance, PTL

\* A turn that is called complete was generated, synthesized and heard to the
\* end, and no goroutine of any of its attempts is left (completeIfPlayedLocked,
\* runGeneration).
THEOREM CompletionIsReal == Spec => []CompletionHolds
  <1>1. ASSUME IInv, NEW op \in Ops, turns[op].state = "COMPLETED"
        PROVE  LET t == turns[op]
               IN  /\ t.gen = "complete" /\ AllStopped(t)
                   /\ t.speechErr => t.input = "text"
                   /\ t.speechErr \/ \A u \in DOMAIN t.units : t.units[u].sealed
    <2> DEFINE t == turns[op]
    <2>1. /\ t \in AnyTurn /\ Good(t, input[op], main[op], speech[op]) /\ ~Over(t)
          /\ t.rev \in Revisions
      BY <1>1, TypedParts DEF Over
    <2>2. main[op][t.rev].pc = "none"
      BY <1>1, <2>1 DEF Good, OneAttempt, Rests
    <2>3. \A u \in DOMAIN t.units : t.units[u].sealed \/ t.speechErr
      BY <2>1, <2>2 DEF Good, SpokenFor, OnItsWay
    <2> QED BY <1>1, <2>1, <2>3 DEF Good, Completed
  <1>2. ASSUME IInv, NEW op \in Ops, turns[op].state \in {"COMPLETED", "INCOMPLETE"},
               NEW r \in Revisions
        PROVE  main[op][r].pc = "none" /\ speech[op][r].pc \in {"idle", "done"}
    BY <1>2, TypedParts DEF Good, OneAttempt, Rests, Over
  <1>3. IInv => CompletionHolds
    BY <1>1, <1>2 DEF CompletionHolds, CompletedHeard, NoGeneratorLeft, AllStopped
  <1> QED BY <1>3, Invariance, PTL

\* What the recording says of an ended turn agrees with its state, its units and
\* its chunks: nothing counts as heard that was not, whoever ended the turn and
\* whatever its providers do afterwards (recordedAssistant, finishLocked,
\* sealSpeechUnit).
THEOREM RecordIsTrue == Spec => []RecordMatchesTurn
  <1>1. IInv => RecordMatchesTurn
    BY TypedParts DEF Good, Recorded, RecordMatchesTurn
  <1> QED BY <1>1, Invariance, PTL

=============================================================================
