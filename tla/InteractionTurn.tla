----------------------------- MODULE InteractionTurn -----------------------------
(***************************************************************************)
(* desktop/interaction.go: the engine that takes a typed or spoken input   *)
(* through recognition, generation, speech synthesis and playback.  At     *)
(* most one operation is active.  Each generation attempt (revision) of an *)
(* operation runs two goroutines, the generator (`main') and the speech    *)
(* consumer (`speech'), while the user interface acknowledges playback,    *)
(* cancels, interrupts, continues an incomplete answer, and pauses or ends *)
(* the voice session.  Every action below is one critical section under    *)
(* InteractionEngine.mu, or one step of a goroutine outside it.            *)
(*                                                                         *)
(* Abstractions.  The context of a revision is canceled exactly when its   *)
(* turn becomes terminal, so a goroutine's context is alive when its turn  *)
(* is live in its revision.  A text is not modelled; a generation is nil,  *)
(* partial or complete.  CANCELING and IDLE never outlive one critical     *)
(* section: no state shows them.  The recorder is what desktop/recording   *)
(* shows its caller: a draft that is open, closed with a result, or stuck  *)
(* after a failed write.  Deadlines are steps that may happen as soon as   *)
(* they are armed; recognition is one stage, and its streaming sessions    *)
(* are left out, as are the age and the number of the turns that are kept. *)
(* Events for the window, traces and metadata carry no property here.      *)
(***************************************************************************)
EXTENDS Naturals, Sequences, FiniteSets

CONSTANTS Ops,            \* operation ids; NoOp is none of them
          NoOp,
          Inputs,         \* a subset of {"text", "voice", "candidate"}
          MaxRevisions,   \* generation_resume_limit
          MaxUnits,       \* speech units a turn may register
          AttemptUnits,   \* speech units an attempt emits, progressCount
          MaxChunks,      \* bound on audio chunks of a turn
          SpeechQueue,    \* capacity of the queue of speech units
          MaxSessions,    \* bound on voice sessions
          MaxEpochs,      \* bound on the epochs of a session
          Faults          \* a subset of {"record", "trace"}: stores that may fail

ASSUME OpsAssumption == NoOp \notin Ops
ASSUME InputsAssumption == Inputs \subseteq {"text", "voice", "candidate"}
ASSUME BoundsAssumption ==
  /\ MaxRevisions \in Nat \ {0} /\ SpeechQueue \in Nat \ {0}
  /\ MaxUnits \in Nat /\ AttemptUnits \in Nat /\ MaxChunks \in Nat
  /\ MaxSessions \in Nat /\ MaxEpochs \in Nat \ {0}
ASSUME FaultAssumption == Faults \subseteq {"record", "trace"}

Revisions == 1..MaxRevisions
Active    == {"RECORDING", "TRANSCRIBING", "THINKING", "SYNTHESIZING", "PLAYING"}
Terminal  == {"COMPLETED", "CANCELED", "FAILED", "INCOMPLETE"}
Codes     == {"none", "asr", "llm", "tts", "playback", "input", "recording",
              "trace", "completion", "incomplete", "playback_timeout",
              "tts_audio_limit", "tts_empty_audio"}

\* <<id, epoch>> of a voice session; <<0, 0>>: the turn belongs to none.
Sessions  == (0..MaxSessions) \X (0..MaxEpochs)
NoSession == <<0, 0>>

Units  == [rev : Revisions, sealed : BOOLEAN]
Chunks == [unit : 1..MaxUnits, st : {"queued", "started", "stopped", "cut"}]
Results == [generation : {"completed", "canceled", "failed"},
            playback : {"completed", "interrupted", "failed", "not_started",
                        "unknown"}]
NoResult == [generation |-> "failed", playback |-> "unknown"]

\* key: the recording draft of the latest attempt; result: what closed it.
Turns ==
  [state : Active \cup Terminal \cup {"none"},
   input : Inputs \cup {"none"}, session : Sessions, rev : Revisions,
   gen : {"nil", "partial", "complete"}, genDone : BOOLEAN, prodDone : BOOLEAN,
   speechErr : BOOLEAN, units : Seq(Units), chunks : Seq(Chunks),
   key : {"none", "open", "closed", "stuck"}, result : Results, code : Codes]
NoTurn ==
  [state |-> "none", input |-> "none", session |-> NoSession, rev |-> 1,
   gen |-> "nil", genDone |-> FALSE, prodDone |-> FALSE, speechErr |-> FALSE,
   units |-> <<>>, chunks |-> <<>>, key |-> "none", result |-> NoResult,
   code |-> "none"]

\* The speech goroutine of one attempt, and the queue it consumes.
Idle == [pc |-> "idle", queue |-> <<>>, closed |-> FALSE, done |-> 0,
         unit |-> 0, failed |-> FALSE]

VARIABLES turns,    \* InteractionEngine.turns
          active,   \* InteractionEngine.active
          closed,
          voice,    \* the voice session: its state, id and epoch
          input,    \* per operation, the goroutine that accepts its input
          main,     \* per attempt, runGeneration: its step and firstSequence
          speech,   \* per attempt, its speech goroutine
          late      \* units whose provider outlived its stage

vars == <<turns, active, closed, voice, input, main, speech, late>>

-----------------------------------------------------------------------------
(* The state machine of a turn *)

Live(op) == turns[op].state \in Active
GenerationLive(op, r) == Live(op) /\ turns[op].rev = r
Ended(t) == t.state \in Terminal

TextWithoutSpeech(t) == t.input = "text" /\ t.speechErr /\ t.genDone

Follows(old) ==
  CASE old = "none" -> "RECORDING"          [] old = "RECORDING" -> "TRANSCRIBING"
    [] old = "TRANSCRIBING" -> "THINKING"   [] old = "THINKING" -> "SYNTHESIZING"
    [] old = "SYNTHESIZING" -> "PLAYING"    [] old = "PLAYING" -> "COMPLETED"
    [] old = "CANCELING" -> "CANCELED"      [] OTHER -> "none"

Allowed(t, s) ==
  /\ ~Ended(t)
  /\ \/ s \in {Follows(t.state), "CANCELING", "FAILED", "INCOMPLETE"}
     \/ s = "COMPLETED" /\ t.state = "THINKING" /\ t.genDone
     \/ s = "COMPLETED" /\ TextWithoutSpeech(t)

\* transitionLocked; its callers ignore the error.
Transition(t, s) == IF Allowed(t, s) THEN [t EXCEPT !.state = s] ELSE t

MayComplete(t) ==
  \/ t.state = "PLAYING"
  \/ t.state = "THINKING" /\ t.genDone
  \/ TextWithoutSpeech(t)

-----------------------------------------------------------------------------
(* What was heard, and what is recorded of it *)

Pieces(t, u) == {i \in DOMAIN t.chunks : t.chunks[i].unit = u}
Heard(t, u) ==
  /\ t.units[u].sealed /\ Pieces(t, u) # {}
  /\ \A i \in Pieces(t, u) : t.chunks[i].st = "stopped"
CutOff(t, u)    == ~Heard(t, u) /\ \E i \in Pieces(t, u) : t.chunks[i].st = "cut"
StartedAny(t)   == \E i \in DOMAIN t.chunks : t.chunks[i].st # "queued"
AllStopped_started(t) ==   \* mutant
  \A i \in DOMAIN t.chunks : t.chunks[i].st \in {"started", "stopped"}
AllStopped(t)   == \A i \in DOMAIN t.chunks : t.chunks[i].st = "stopped"

\* recordedAssistant, from the speech units as refreshed for state s.
Playback_any(t) ==   \* mutant
  IF t.speechErr THEN "failed"
  ELSE IF t.units # <<>> /\ (\E u \in DOMAIN t.units : Heard(t, u)) THEN "completed"
  ELSE "unknown"
Playback(t) ==
  IF t.speechErr THEN "failed"
  ELSE IF t.units # <<>> /\ (\A u \in DOMAIN t.units : Heard(t, u)) THEN "completed"
  ELSE IF \E u \in DOMAIN t.units : CutOff(t, u) THEN "interrupted"
  ELSE IF t.code = "playback" THEN "failed"
  ELSE IF ~StartedAny(t) /\ t.chunks = <<>> THEN "not_started"
  ELSE "unknown"
RecordedAssistant(t, s) ==
  [generation |-> IF t.gen = "complete" THEN "completed"
                  ELSE IF s \in {"CANCELED", "CANCELING"} THEN "canceled"
                  ELSE "failed",
   playback |-> Playback(t)]

-----------------------------------------------------------------------------
(* Ending a turn: the recording first, then the trace, then the state *)

\* finishLocked; `faults' are the stores that fail this time.
Finished(t, wanted, code, faults) ==
  LET refused  == wanted = "COMPLETED" /\ ~MayComplete(t)
      asked    == IF refused THEN "FAILED" ELSE wanted
      named    == [t EXCEPT !.code = IF refused THEN "completion" ELSE code]
      lost     == t.key = "open" /\ "record" \in faults
      untraced == "trace" \in faults
  IN  Transition(
        [named EXCEPT
           !.key = IF @ # "open" THEN @ ELSE IF lost THEN "stuck" ELSE "closed",
           !.result = IF t.key = "open" /\ ~lost
                      THEN RecordedAssistant(named, asked) ELSE @,
           !.code = IF untraced THEN "trace" ELSE IF lost THEN "recording" ELSE @],
        IF untraced \/ lost THEN "FAILED" ELSE asked)

Finish(op, t, state, code) ==
  /\ \E faults \in SUBSET Faults :
       turns' = [turns EXCEPT ![op] = Finished(t, state, code, faults)]
  /\ active' = IF active = op THEN NoOp ELSE active

Keep(op, t) == turns' = [turns EXCEPT ![op] = t] /\ UNCHANGED active
Ignored == UNCHANGED <<turns, active>>

\* failLocked and stageFailure
Fail(op, t, code) == IF Ended(t) THEN Keep(op, t) ELSE Finish(op, t, "FAILED", code)

\* cancelTurnLocked
CancelTurn(op, t) ==
  IF Ended(t) THEN Keep(op, t)
  ELSE Finish(op, Transition([t EXCEPT !.gen = IF @ = "nil" THEN "partial" ELSE @],
                             "CANCELING"), "CANCELED", "none")

\* completeIfPlayedLocked
PlayedOut(t) == t.prodDone /\ t.genDone /\ AllStopped(t)
CompleteIfPlayed(op, t) ==
  IF ~PlayedOut(t) THEN Keep(op, t)
  ELSE IF t.gen = "complete" THEN Finish(op, t, "COMPLETED", "none")
  ELSE Finish(op, t, "INCOMPLETE", "incomplete")

\* checkpointRecordingLocked may fail only while there is a draft.
CheckpointFails(t) == t.key = "open" /\ "record" \in Faults

SetTurn(op, t) == turns' = [turns EXCEPT ![op] = t]
SetMain(op, r, step) == main' = [main EXCEPT ![op][r].pc = step]
SetSpeech(op, r, s) == speech' = [speech EXCEPT ![op][r] = s]

-----------------------------------------------------------------------------
(* The voice session and its owner's calls *)

\* validVoiceSessionLocked
ValidSession(s) ==
  IF s = NoSession THEN voice.st # "running"
  ELSE voice.st = "running" /\ s = <<voice.id, voice.epoch>>

StartVoiceSession ==
  /\ ~closed /\ active = NoOp /\ voice.st \in {"none", "stopped"}
  /\ voice.id < MaxSessions
  /\ voice' = [st |-> "running", id |-> voice.id + 1, epoch |-> 1]
  /\ UNCHANGED <<turns, active, closed, input, main, speech, late>>

ResumeVoiceSession ==
  /\ ~closed /\ active = NoOp /\ voice.st = "paused"
  /\ voice.epoch < MaxEpochs
  /\ voice' = [voice EXCEPT !.st = "running", !.epoch = @ + 1]
  /\ UNCHANGED <<turns, active, closed, input, main, speech, late>>

\* "pause" and "end" cancel the active turn if it belongs to the session.
LeaveVoiceSession ==
  /\ ~closed /\ voice.st \in {"running", "paused"}
  /\ \E st \in {"paused", "stopped"} : voice' = [voice EXCEPT !.st = st]
  /\ \/ \E op \in Ops : /\ active = op /\ turns[op].session[1] = voice.id
                        /\ CancelTurn(op, turns[op])
     \/ /\ \A op \in Ops : active = op => turns[op].session[1] # voice.id
        /\ Ignored
  /\ UNCHANGED <<closed, input, main, speech, late>>

\* InteractionEngine.Close
Close ==
  /\ ~closed /\ closed' = TRUE
  /\ voice' = IF voice.st = "none" THEN voice ELSE [voice EXCEPT !.st = "stopped"]
  /\ \/ \E op \in Ops : Live(op) /\ CancelTurn(op, turns[op])
     \/ (\A op \in Ops : ~Live(op)) /\ Ignored
  /\ UNCHANGED <<input, main, speech, late>>

-----------------------------------------------------------------------------
(* Starting a turn and accepting its input *)

Start(op, kind, s) ==
  /\ turns[op].state = "none" /\ ~closed /\ active = NoOp
  /\ ValidSession(s)
  /\ SetTurn(op, [NoTurn EXCEPT !.state = "RECORDING", !.input = kind,
                                !.session = s])
  /\ active' = op
  /\ input' = [input EXCEPT ![op] = IF kind = "candidate" THEN "arm" ELSE "none"]
  /\ UNCHANGED <<closed, voice, main, speech, late>>

\* The rest of StartPreparedCandidate, which takes the lock a second time.
\* The draft is begun whatever became of the turn in between.
ArmCandidate(op) ==
  /\ input[op] = "arm"
  /\ input' = [input EXCEPT ![op] = "none"]
  /\ \/ /\ \E key \in {"open", "none"} :
             Keep(op, Transition(Transition([turns[op] EXCEPT !.key = key],
                                            "TRANSCRIBING"), "THINKING"))
        /\ SetMain(op, 1, "start")
     \/ /\ "record" \in Faults /\ Fail(op, turns[op], "recording")
        /\ UNCHANGED main
  /\ UNCHANGED <<closed, voice, speech, late>>

Commit(op) ==
  /\ turns[op].state = "RECORDING" /\ input[op] = "none"
  /\ Keep(op, Transition(turns[op], "TRANSCRIBING"))
  /\ input' = [input EXCEPT ![op] = "asr"]
  /\ UNCHANGED <<closed, voice, main, speech, late>>

\* run, when recognition fails, or the resident layer takes the input as a
\* command to itself.  An ended turn is left alone.
InputRefused(op) ==
  /\ input[op] = "asr"
  /\ input' = [input EXCEPT ![op] = "none"]
  /\ Fail(op, turns[op], "asr") \/ CancelTurn(op, turns[op])
  /\ UNCHANGED <<closed, voice, main, speech, late>>

\* acceptTranscript, which looks at the turn again before it records the input.
AcceptedTurn_any(op) == TRUE   \* mutant
AcceptedTurn(op) == Live(op)
AcceptTranscript(op) ==
  /\ input[op] = "asr"
  /\ input' = [input EXCEPT ![op] = "none"]
  /\ \/ /\ AcceptedTurn(op)
        /\ \E key \in {"open", "none"} :
             Keep(op, Transition([turns[op] EXCEPT !.key = key], "THINKING"))
        /\ SetMain(op, 1, "start")
     \/ /\ AcceptedTurn(op)
        /\ "record" \in Faults /\ Fail(op, turns[op], "recording")
        /\ UNCHANGED main
     \/ ~AcceptedTurn(op) /\ Ignored /\ UNCHANGED main
  /\ UNCHANGED <<closed, voice, speech, late>>

\* Continue: the next attempt of an incomplete answer.
Continue(op) ==
  LET r == turns[op].rev + 1 IN
  /\ ~closed /\ active = NoOp
  /\ turns[op].state = "INCOMPLETE" /\ r =< MaxRevisions
  /\ \E key \in {"open", "none"} :
       SetTurn(op, [turns[op] EXCEPT !.state = "THINKING", !.rev = r, !.key = key,
                                     !.code = "none", !.gen = "nil",
                                     !.genDone = FALSE, !.prodDone = FALSE])
  /\ active' = op
  /\ SetMain(op, r, "start")
  /\ UNCHANGED <<closed, voice, input, speech, late>>

-----------------------------------------------------------------------------
(* The generator of an attempt: runGeneration *)

Generate(op, r) ==
  /\ main[op][r].pc = "start"
  /\ IF Live(op)
       THEN /\ main' = [main EXCEPT ![op][r] =
                          [pc |-> "llm", first |-> Len(turns[op].chunks)]]
            /\ SetSpeech(op, r, [Idle EXCEPT !.pc = "wait"])
       ELSE SetMain(op, r, "none") /\ UNCHANGED speech
  /\ UNCHANGED <<turns, active, closed, voice, input, late>>

\* An attempt emits a bounded number of units; what is left is joined to one.
MayEmit(t) == Cardinality({u \in DOMAIN t.units : t.units[u].rev = t.rev}) < AttemptUnits

\* onProgress: the answer grew, perhaps by a unit to be spoken.  A prepared
\* candidate is one complete unit.
Advance(t, unit, gen) ==
  LET u == [t EXCEPT !.gen = gen,
                     !.units = IF unit THEN Append(@, [rev |-> t.rev, sealed |-> FALSE])
                                       ELSE @]
  IN  IF unit /\ t.state = "THINKING" THEN Transition(u, "SYNTHESIZING") ELSE u

Progress(op, r) ==
  LET t == turns[op] IN
  /\ main[op][r].pc = "llm" /\ GenerationLive(op, r) /\ t.gen # "complete"
  /\ \E unit \in BOOLEAN, gen \in {"partial", "complete"} :
       /\ t.input = "candidate" => unit /\ gen = "complete"
       /\ unit => MayEmit(t)
       /\ \/ /\ unit /\ Len(t.units) = MaxUnits
             /\ Fail(op, [t EXCEPT !.gen = gen], "tts_audio_limit")
             /\ UNCHANGED main
          \/ /\ unit => Len(t.units) < MaxUnits
             /\ Keep(op, Advance(t, unit, gen))
             /\ SetMain(op, r, IF unit THEN "push" ELSE "llm")
          \/ /\ unit => Len(t.units) < MaxUnits
             /\ CheckpointFails(t) /\ Fail(op, [t EXCEPT !.gen = gen], "recording")
             /\ UNCHANGED main
  /\ UNCHANGED <<closed, voice, input, speech, late>>

\* The unit goes to the speech goroutine, which may be behind.
Push(op, r) ==
  /\ main[op][r].pc = "push" /\ Len(speech[op][r].queue) < SpeechQueue
  /\ SetMain(op, r, "llm")
  /\ SetSpeech(op, r, [speech[op][r] EXCEPT !.queue = Append(@, Len(turns[op].units))])
  /\ UNCHANGED <<turns, active, closed, voice, input, late>>

LlmReturns(op, r) ==
  LET t == turns[op] IN
  /\ main[op][r].pc = "llm" /\ GenerationLive(op, r)
  /\ t.input = "candidate" => t.gen = "complete"
  /\ \E gen \in {"partial", "complete"} :
       /\ t.gen = "complete" => gen = "complete"
       /\ LET u == [t EXCEPT !.gen = gen, !.genDone = TRUE] IN
          \/ Keep(op, u) /\ SetMain(op, r, "wait")
          \/ CheckpointFails(t) /\ Fail(op, u, "recording") /\ SetMain(op, r, "none")
  /\ SetSpeech(op, r, [speech[op][r] EXCEPT !.closed = TRUE])
  /\ UNCHANGED <<closed, voice, input, late>>

\* An error of the provider, or the deadline of the stage.
LlmFails(op, r) ==
  /\ main[op][r].pc \in {"llm", "push"} /\ GenerationLive(op, r)
  /\ Fail(op, [turns[op] EXCEPT !.gen = "partial"], "llm")
  /\ SetMain(op, r, "none")
  /\ SetSpeech(op, r, [speech[op][r] EXCEPT !.closed = TRUE])
  /\ UNCHANGED <<closed, voice, input, late>>

\* The attempt was canceled while the generator worked or waited.
GeneratorStops(op, r) ==
  /\ main[op][r].pc \in {"llm", "push", "wait"} /\ ~GenerationLive(op, r)
  /\ SetMain(op, r, "none")
  /\ SetSpeech(op, r, [speech[op][r] EXCEPT !.closed = TRUE])
  /\ UNCHANGED <<turns, active, closed, voice, input, late>>

\* The speech goroutine has ended: what became of the attempt.  A typed answer
\* survives the failure of its speech.
Await(op, r) ==
  LET t == turns[op]
      s == speech[op][r]
      u == [t EXCEPT !.prodDone = TRUE, !.speechErr = @ \/ s.failed]
      silent == s.done > 0 /\ Len(t.chunks) = main[op][r].first
  IN
  /\ main[op][r].pc = "wait" /\ s.pc = "done"
  /\ SetMain(op, r, "none")
  /\ IF s.failed /\ t.input # "text" THEN Fail(op, t, "tts")
     ELSE IF ~GenerationLive(op, r) THEN Ignored
     ELSE IF ~s.failed /\ silent THEN Fail(op, u, "tts_empty_audio")
     ELSE CompleteIfPlayed(op, u)
  /\ UNCHANGED <<closed, voice, input, speech, late>>

-----------------------------------------------------------------------------
(* The speech goroutine of an attempt *)

SpeechTake(op, r) ==
  LET s == speech[op][r] IN
  /\ s.pc = "wait" /\ s.queue # <<>>
  /\ SetSpeech(op, r, [s EXCEPT !.pc = "synth", !.unit = Head(s.queue),
                                !.queue = Tail(@)])
  /\ UNCHANGED <<turns, active, closed, voice, input, main, late>>

\* A typed answer without speech: what is queued for it is dropped.
SpeechDrain(op, r) ==
  LET s == speech[op][r] IN
  /\ s.pc = "drain" /\ s.queue # <<>>
  /\ SetSpeech(op, r, [s EXCEPT !.queue = Tail(@)])
  /\ UNCHANGED <<turns, active, closed, voice, input, main, late>>

\* The queue is closed and empty.
SpeechEnds(op, r) ==
  LET s == speech[op][r] IN
  /\ s.pc \in {"wait", "drain"} /\ s.closed /\ s.queue = <<>>
  /\ SetSpeech(op, r, [s EXCEPT !.pc = "done"])
  /\ UNCHANGED <<turns, active, closed, voice, input, main, late>>

SpeechStops(op, r) ==
  LET s == speech[op][r] IN
  /\ s.pc \in {"wait", "drain"} /\ ~GenerationLive(op, r)
  /\ SetSpeech(op, r, [s EXCEPT !.pc = "done", !.failed = TRUE])
  /\ UNCHANGED <<turns, active, closed, voice, input, main, late>>

\* emitSpeechUnitAudio.  At the limit of chunks the provider gets an error.
SpeechChunk(op, r) ==
  LET s == speech[op][r] IN
  /\ s.pc = "synth" /\ GenerationLive(op, r)
  /\ Len(turns[op].chunks) < MaxChunks
  /\ Keep(op, [turns[op] EXCEPT !.chunks =
                 Append(@, [unit |-> s.unit, st |-> "queued"])])
  /\ UNCHANGED <<closed, voice, input, main, speech, late>>

\* sealSpeechUnit: what the provider finished counts, whenever it says so, but
\* never for a later attempt.
Sealed(op, r, u) ==
  IF turns[op].rev = r THEN [turns[op] EXCEPT !.units[u].sealed = TRUE]
                       ELSE turns[op]

SpeechSucceeds(op, r) ==
  LET s == speech[op][r] IN
  /\ s.pc = "synth" /\ GenerationLive(op, r)
  /\ Keep(op, Sealed(op, r, s.unit))
  /\ SetSpeech(op, r, [s EXCEPT !.pc = "wait", !.done = @ + 1])
  /\ UNCHANGED <<closed, voice, input, main, late>>

\* An error, the deadline or the cancellation of the stage.  The provider may
\* have finished the unit just before, or may still finish it later.  A typed
\* answer goes on without speech: its units are drained.
SpeechFails(op, r) ==
  LET s == speech[op][r]
      text == turns[op].input = "text"
  IN
  /\ s.pc = "synth"
  /\ SetSpeech(op, r, [s EXCEPT !.pc = IF text THEN "drain" ELSE "done",
                                !.failed = TRUE])
  /\ \E t \in {turns[op], Sealed(op, r, s.unit)} :
       IF text THEN Keep(op, t) ELSE Fail(op, t, "tts")
  /\ late' \in {late, late \cup {<<op, r, s.unit>>}}
  /\ UNCHANGED <<closed, voice, input, main>>

LateSeal(op, r, u) ==
  /\ <<op, r, u>> \in late
  /\ late' = late \ {<<op, r, u>>}
  /\ Keep(op, Sealed(op, r, u))
  /\ UNCHANGED <<closed, voice, input, main, speech>>

-----------------------------------------------------------------------------
(* The window: playback, cancellation, interruption *)

SetChunk(t, i, st) == [t EXCEPT !.chunks[i].st = st]

\* Playback(started | stopped), once per chunk.
PlaybackAck(op, i) ==
  LET t == turns[op] IN
  /\ Live(op)
  /\ \E u \in {IF t.chunks[i].st = "queued"
                 THEN SetChunk(IF t.state = "SYNTHESIZING" THEN Transition(t, "PLAYING")
                                                            ELSE t, i, "started")
                 ELSE SetChunk(t, i, "stopped")} :
       /\ t.chunks[i].st = "queued" => t.state \in {"SYNTHESIZING", "PLAYING"}
       /\ t.chunks[i].st \in {"queued", "started"}
       /\ \/ CompleteIfPlayed(op, u)
          \/ CheckpointFails(t) /\ Fail(op, u, "recording")
  /\ UNCHANGED <<closed, voice, input, main, speech, late>>

\* Playback(failed), and Fail for the microphone.
WindowFails(op) ==
  /\ Live(op)
  /\ \/ turns[op].chunks # <<>> /\ Fail(op, turns[op], "playback")
     \/ Fail(op, turns[op], "input")
  /\ UNCHANGED <<closed, voice, input, main, speech, late>>

\* playbackDeadlineLocked: the earliest chunk that has not stopped.
Outstanding_started(t) == \E i \in DOMAIN t.chunks : t.chunks[i].st = "started"   \* mutant
Outstanding(t) == \E i \in DOMAIN t.chunks : t.chunks[i].st # "stopped"
PlaybackTimeout(op) ==
  /\ Live(op) /\ Outstanding(turns[op])
  /\ Fail(op, turns[op], "playback_timeout")
  /\ UNCHANGED <<closed, voice, input, main, speech, late>>

Cancel(op) ==
  /\ Live(op) /\ CancelTurn(op, turns[op])
  /\ UNCHANGED <<closed, voice, input, main, speech, late>>

\* Interrupt: the window says which chunks it played and which it cut.
Interrupted(t, played, cut) ==
  [t EXCEPT !.chunks = [i \in DOMAIN t.chunks |->
     LET st == t.chunks[i].st IN
     [t.chunks[i] EXCEPT !.st = IF st = "stopped" \/ i \in played THEN "stopped"
                                ELSE IF i \in cut THEN "cut" ELSE st]]]
Interrupt(op) ==
  LET t == turns[op] IN
  /\ Live(op) /\ ValidSession(t.session)
  /\ \E played, cut \in SUBSET (DOMAIN t.chunks) :
       played \cap cut = {} /\ CancelTurn(op, Interrupted(t, played, cut))
  /\ UNCHANGED <<closed, voice, input, main, speech, late>>

\* The same for the one chunk a candidate was stopped in.
ObserveCandidateStop(op) ==
  LET t == turns[op] IN
  /\ Live(op) /\ t.input = "candidate"
  /\ \E i \in DOMAIN t.chunks : CancelTurn(op, Interrupted(t, {}, {i}))
  /\ UNCHANGED <<closed, voice, input, main, speech, late>>

-----------------------------------------------------------------------------

Init ==
  /\ turns = [op \in Ops |-> NoTurn] /\ active = NoOp /\ closed = FALSE
  /\ voice = [st |-> "none", id |-> 0, epoch |-> 0]
  /\ input = [op \in Ops |-> "none"]
  /\ main = [op \in Ops |-> [r \in Revisions |-> [pc |-> "none", first |-> 0]]]
  /\ speech = [op \in Ops |-> [r \in Revisions |-> Idle]]
  /\ late = {}

VoiceSession == StartVoiceSession \/ ResumeVoiceSession \/ LeaveVoiceSession
Entry(op) == \/ \E kind \in Inputs, s \in Sessions : Start(op, kind, s)
             \/ Commit(op) \/ Continue(op)
Accepting(op) == ArmCandidate(op) \/ InputRefused(op) \/ AcceptTranscript(op)
Generator(op, r) == \/ Generate(op, r) \/ Progress(op, r) \/ Push(op, r)
                    \/ LlmReturns(op, r) \/ LlmFails(op, r)
                    \/ GeneratorStops(op, r) \/ Await(op, r)
Speech(op, r) == \/ SpeechTake(op, r) \/ SpeechDrain(op, r)
                 \/ SpeechEnds(op, r) \/ SpeechStops(op, r)
                 \/ SpeechChunk(op, r) \/ SpeechSucceeds(op, r) \/ SpeechFails(op, r)
                 \/ \E u \in 1..MaxUnits : LateSeal(op, r, u)
Window(op) == \/ \E i \in 1..Len(turns[op].chunks) : PlaybackAck(op, i)
              \/ WindowFails(op) \/ PlaybackTimeout(op)
              \/ Cancel(op) \/ Interrupt(op) \/ ObserveCandidateStop(op)

Next == \/ VoiceSession \/ Close
        \/ \E op \in Ops : \/ Entry(op) \/ Accepting(op) \/ Window(op)
                           \/ \E r \in Revisions : Generator(op, r) \/ Speech(op, r)

Spec == Init /\ [][Next]_vars

\* Every stage has a deadline, after which it fails if it has not ended, and
\* the goroutines run.  What the window does is not fair: it may never answer.
Fairness ==
  \A op \in Ops :
    /\ WF_vars(Accepting(op)) /\ WF_vars(PlaybackTimeout(op))
    /\ \A r \in Revisions :
         /\ WF_vars(Generate(op, r)) /\ WF_vars(Push(op, r))
         /\ WF_vars(LlmFails(op, r)) /\ WF_vars(GeneratorStops(op, r))
         /\ WF_vars(Await(op, r))
         /\ WF_vars(SpeechTake(op, r)) /\ WF_vars(SpeechDrain(op, r))
         /\ WF_vars(SpeechEnds(op, r))
         /\ WF_vars(SpeechStops(op, r)) /\ WF_vars(SpeechFails(op, r))

FairSpec == Spec /\ Fairness

-----------------------------------------------------------------------------
(* Properties *)

\* Every variable stays in its range.
TypeOK ==
  /\ turns \in [Ops -> Turns] /\ active \in Ops \cup {NoOp} /\ closed \in BOOLEAN
  /\ voice \in [st : {"none", "running", "paused", "stopped"},
                id : 0..MaxSessions, epoch : 0..MaxEpochs]
  /\ input \in [Ops -> {"none", "asr", "arm"}]
  /\ main \in [Ops -> [Revisions ->
       [pc : {"none", "start", "llm", "push", "wait"}, first : 0..MaxChunks]]]
  /\ speech \in [Ops -> [Revisions ->
       [pc : {"idle", "wait", "synth", "drain", "done"}, queue : Seq(1..MaxUnits),
        closed : BOOLEAN, done : 0..MaxUnits, unit : 0..MaxUnits,
        failed : BOOLEAN]]]
  /\ late \subseteq Ops \X Revisions \X (1..MaxUnits)

\* The engine is busy exactly while a turn is under way, so one turn at most is,
\* and a turn that has ended never keeps the next one out
\* (INTERACTION_LOOP_C0.md: one active operation).
OneActive == \A op \in Ops : Live(op) <=> active = op

\* A turn is complete only when its generation is, every unit of its speech was
\* synthesized to the end and every chunk was heard to stop; only a typed
\* answer may be complete without its speech.
CompletedHeard ==
  \A op \in Ops : LET t == turns[op] IN
    t.state = "COMPLETED" =>
      /\ t.gen = "complete" /\ \A i \in DOMAIN t.chunks : t.chunks[i].st = "stopped"
      /\ t.speechErr => t.input = "text"
      /\ t.speechErr \/ \A u \in DOMAIN t.units : t.units[u].sealed

\* Whatever ended the turn, the draft of its recording is closed before the
\* end is visible.  (A prepared candidate begins its draft without looking at
\* the turn: see CandidateDraftClosed.)
DraftsClosed ==
  \A op \in Ops : Ended(turns[op]) /\ turns[op].input # "candidate"
                    => turns[op].key # "open"
CandidateDraftClosed ==
  \A op \in Ops : Ended(turns[op]) => turns[op].key # "open"

\* What was recorded of an ended turn agrees with what its state and its chunks
\* say: nothing is recorded as heard that was not, and a generation as completed
\* if and only if it was.
RecordMatchesTurn ==
  \A op \in Ops : LET t == turns[op] IN
    Ended(t) /\ t.key = "closed" =>
      /\ t.result.generation = "completed" <=> t.gen = "complete"
      /\ t.result.playback = "completed" =>
           t.units # <<>> /\ \A u \in DOMAIN t.units : Heard(t, u)
      /\ t.result.playback = "not_started" => t.chunks = <<>>
      /\ t.state = "COMPLETED" => t.result.generation = "completed"

\* When an answer is complete, or may be continued, no goroutine of any of its
\* attempts is left that could still speak, or fail what comes next.
NoGeneratorLeft ==
  \A op \in Ops : turns[op].state \in {"COMPLETED", "INCOMPLETE"} =>
    \A r \in Revisions : /\ main[op][r].pc = "none"
                         /\ speech[op][r].pc \in {"idle", "done"}

\* While a voice session runs, the first attempt of a turn belongs to it; while
\* none does, to none.  Pausing, ending and resuming leave no turn behind.
SessionOwnsTurn ==
  \A op \in Ops : LET t == turns[op] IN
    Live(op) /\ t.rev = 1 =>
      (IF voice.st = "running" THEN <<voice.id, voice.epoch>> ELSE NoSession) = t.session

\* What belongs to a turn, the engine, its session and its draft, it holds
\* exactly as long as it is under way.
Ownership == OneActive /\ SessionOwnsTurn /\ DraftsClosed

\* A completed turn is over for the listener and for the engine.
CompletionHolds == CompletedHeard /\ NoGeneratorLeft

\* An ended turn does not change any more, except that Continue resumes an
\* incomplete one and a late provider may still seal a unit.
Fixed(t) == [t EXCEPT !.units = <<>>]
TerminalFrozen ==
  [][\A op \in Ops :
       Ended(turns[op]) /\ turns[op].input # "candidate" =>
         \/ Fixed(turns'[op]) = Fixed(turns[op])
         \/ turns[op].state = "INCOMPLETE" /\ turns'[op].state = "THINKING"]_vars

\* An input that was submitted comes to an end, whatever the providers and the
\* window do.
EventuallyTerminal ==
  \A op \in Ops :
    (turns[op].state \in {"TRANSCRIBING", "THINKING", "SYNTHESIZING", "PLAYING"})
      ~> Ended(turns[op])

\* A typed answer is not lost because it could not be read aloud (runGeneration:
\* "speech failure cannot cancel its answer").  A unit that ends without any
\* audio is left aside: the speech service reports one as an error of its own.
TextSurvivesSpeech ==
  \A op \in Ops : turns[op].input = "text" =>
    turns[op].code \notin {"tts", "tts_audio_limit"}

=============================================================================
