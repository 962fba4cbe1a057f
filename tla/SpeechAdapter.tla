---------------------------- MODULE SpeechAdapter ----------------------------
(***************************************************************************)
(* What a worker process does with one request (apps/speech/qwen.py,       *)
(* irodori.py, audiocpp.py, reference_audio.py): it loads its model when   *)
(* it is first asked, finds the consented voice, and generates.  Any call  *)
(* may fail.  On the way library functions are replaced, native objects    *)
(* are created and a reference is written to the private directory; all of *)
(* that has to be undone whatever fails, since the process may be asked    *)
(* again.                                                                  *)
(***************************************************************************)
EXTENDS Integers, Sequences, FiniteSets, TLC

CONSTANTS
  Kinds,        \* the adapters looked at
  Utterances,   \* the requests: text, style, current, digest, provenance
  NoUtterance,
  Assets,       \* the provenance of each voice in the store, by digest
  Artifacts,    \* the states the files of the model can be in
  Sounds,       \* what a model can produce: rate, seconds, finite, ended
  MaxServed     \* bound: requests served by one process

KindsAssumption == Kinds \subseteq {"qwen3-tts", "irodori-tts", "irodori-audiocpp"}

VARIABLES
  kind,      \* which adapter the process has
  artifact,  \* the state of the files of its model
  asked,     \* the request it works on
  at,        \* how many calls of it have succeeded
  model,     \* whether the model is loaded
  patched,   \* the library functions that are replaced
  native,    \* the objects of the C library: "null", "live", "dangling"
  misused,   \* whether one was freed twice
  cache,     \* the voices kept: provenance by digest
  files,     \* the references in the private directory
  sound,     \* what the model produced last
  voice,     \* the provenance of the voice of the last audio
  served

adapterVars == <<kind, artifact, asked, at, model, patched, native, misused, cache, files, sound, voice, served>>

-----------------------------------------------------------------------------
Captions == {"neutral", "warm", "cheerful", "cute", "sleepy", "concerned"}

\* style_caption and normalize_speech_text: a style without words for it is refused, and
\* a text that is empty once emoji are taken away.
Captioned(style) ==
  /\ style.affect \in Captions /\ style.intensity \in {75, 100, 125} /\ style.pace \in {85, 100, 115}
  /\ style.pause \in {"natural", "short", "deliberate"}
Speakable(text) == /\ Len(text) \in 1 .. 180
                   /\ \E i \in DOMAIN text : text[i] \notin {"emoji", "space"}

\* The files of a model are the pinned ones; only Qwen takes them through a link.
QwenVerified(f) == f \in {"pinned", "linked"}
IrodoriVerified(f) == f = "pinned"
AudioCppVerified(f) == f = "pinned"    \* also the library and the build manifest
Verified ==
  CASE kind = "qwen3-tts" -> QwenVerified(artifact)
    [] kind = "irodori-tts" -> IrodoriVerified(artifact)
    [] kind = "irodori-audiocpp" -> AudioCppVerified(artifact)

\* What is made of the samples: Qwen must have ended by itself.
Rates == 8000 .. 48000
QwenRate == 24000
QwenWav(s) == s.ended /\ s.rate = QwenRate /\ s.finite /\ s.seconds \in 1 .. 60
IrodoriWav(s) == s.rate \in Rates /\ s.finite /\ s.seconds \in 1 .. 60
Converted == IF kind = "qwen3-tts" THEN QwenWav(sound) ELSE IrodoriWav(sound)
\* validate_wav of the service
Playable(s) == s.rate \in Rates /\ s.seconds \in 1 .. 60

\* The calls of one request, in order; audio.cpp looks at the request before it loads.
QwenCalls == <<"verify", "build", "check", "voice", "generate", "run", "finish">>
IrodoriCalls ==
  <<"verify", "get_model", "from_pretrained", "build", "restore",
    "check", "voice", "text", "reference", "run", "finish">>
AudioCppCalls ==
  <<"check", "voice", "text", "verify", "library", "registry", "model", "family", "options", "session", "ready",
    "reference", "request", "run", "finish">>
Calls ==
  CASE kind = "qwen3-tts" -> QwenCalls
    [] kind = "irodori-tts" -> IrodoriCalls
    [] kind = "irodori-audiocpp" -> AudioCppCalls

\* Those of them that load the model.
QwenLoads == {"verify", "build"}
IrodoriLoads == {"verify", "get_model", "from_pretrained", "build", "restore"}
AudioCppLoads == {"verify", "library", "registry", "model", "family", "options", "session", "ready"}
LoadCalls ==
  CASE kind = "qwen3-tts" -> QwenLoads
    [] kind = "irodori-tts" -> IrodoriLoads
    [] kind = "irodori-audiocpp" -> AudioCppLoads

Call == Calls[at + 1]
Working == asked # NoUtterance
CannotDo(call) ==    \* what is asked, or what there is, makes the call fail
  \/ call = "verify" /\ ~Verified
  \/ call = "finish" /\ ~Converted
  \/ call = "check" /\ ~asked.current
  \/ call = "text" /\ ~(Speakable(asked.text) /\ Captioned(asked.style))

Handles == {"registry", "model", "session", "options", "request", "result"}
NoSound == [rate |-> 0, seconds |-> 0, finite |-> TRUE, ended |-> FALSE]
Null == [h \in Handles |-> "null"]

\* The library ignores a null pointer; a dangling one is freed twice.
Free(hs, now) == [h \in Handles |-> IF h \in hs THEN now ELSE native[h]]
Misuses(hs) == \E h \in hs : native[h] = "dangling"

-----------------------------------------------------------------------------
TakeRequest(u) ==
  /\ ~Working /\ served < MaxServed
  /\ asked' = u /\ at' = 0 /\ served' = served + 1
  /\ UNCHANGED <<kind, artifact, model, patched, native, misused, cache, files, sound, voice>>

\* _prompt and _group: a kept voice, or one of the store, of the profile's provenance.
Found_cached(d) == d \in DOMAIN cache \/ (d \in DOMAIN Assets /\ Assets[d] = asked.provenance)    \* mutant
Found(d) ==
  /\ IF d \in DOMAIN cache THEN cache[d] = asked.provenance
     ELSE d \in DOMAIN Assets /\ Assets[d] = asked.provenance
  /\ d \in DOMAIN cache \/ Cardinality(DOMAIN cache) < 16

Works(call) ==
  LET Becomes(h) == native' = [native EXCEPT ![h] = "live"] /\ UNCHANGED <<model, patched, cache, files, misused>>
      Patch(f) == patched' = patched \cup {f} /\ UNCHANGED <<model, native, cache, files, misused>>
  IN
  CASE call \in {"verify", "library", "family", "check", "text"} -> UNCHANGED <<model, patched, native, cache, files, misused>>
    [] call \in {"get_model", "from_pretrained", "generate"} -> Patch(call)
    [] call = "build" -> model' = (kind = "qwen3-tts") /\ UNCHANGED <<patched, native, cache, files, misused>>
    [] call = "restore" -> model' = TRUE /\ patched' = {} /\ UNCHANGED <<native, cache, files, misused>>
    [] call \in {"registry", "model", "options", "session", "request"} -> Becomes(call)
    [] call = "ready" ->
         /\ model' = TRUE /\ native' = Free({"options"}, "null") /\ misused' = (misused \/ Misuses({"options"}))
         /\ UNCHANGED <<patched, cache, files>>
    [] call = "voice" ->
         /\ cache' = [d \in DOMAIN cache \cup {asked.digest} |-> IF d \in DOMAIN cache THEN cache[d] ELSE Assets[d]]
         /\ UNCHANGED <<model, patched, native, files, misused>>
    [] call = "reference" -> files' = files \cup {asked.digest} /\ UNCHANGED <<model, patched, native, cache, misused>>
    [] call = "run" ->
         /\ native' = IF kind = "irodori-audiocpp" THEN [native EXCEPT !["result"] = "live"] ELSE native
         /\ UNCHANGED <<model, patched, cache, files, misused>>

\* A model that is loaded is not loaded again.
Skips == model /\ Call \in LoadCalls

Step ==
  /\ Working /\ Call # "finish"
  /\ (Skips \/ ~CannotDo(Call)) /\ (Call = "voice" => Found(asked.digest))
  /\ at' = at + 1
  /\ sound' \in IF Call = "run" THEN Sounds ELSE {sound}
  /\ IF Skips THEN UNCHANGED <<model, patched, native, cache, files, misused>> ELSE Works(Call)
  /\ UNCHANGED <<kind, artifact, asked, voice, served>>

\* The finally clauses: what was replaced is restored, what was made is released.
Unwinds(freed) ==
  /\ asked' = NoUtterance /\ at' = 0
  /\ patched' = {} /\ files' = files \ {asked.digest}
  /\ native' = freed /\ misused' = (misused \/ Misuses({"request", "result"}))
  /\ UNCHANGED <<kind, artifact, cache, sound, served>>

\* The conversion of the samples is the last call.
Conclude ==
  /\ Working /\ Call = "finish" /\ ~CannotDo(Call)
  /\ Unwinds(Free({"request", "result"}, "null"))
  /\ voice' = cache[asked.digest]
  /\ UNCHANGED model

Closed == Null

\* The call fails: a C library that is not all loaded is closed.
CallFails ==
  /\ Working /\ ~Skips /\ Call \notin {"restore", "ready"}
  /\ IF kind = "irodori-audiocpp" /\ Call \in LoadCalls
     THEN /\ asked' = NoUtterance /\ at' = 0 /\ native' = Closed
          /\ misused' = (misused \/ Misuses(Handles))
          /\ UNCHANGED <<kind, artifact, patched, files, cache, sound, served>>
     ELSE Unwinds(Free({"request", "result"}, "null"))
  /\ UNCHANGED <<model, voice>>

\* Writing the reference breaks off: what is written is left to the end of the process.
ReferenceBreaks ==
  /\ Working /\ Call = "reference" /\ "torn" \notin files
  /\ files' = files \cup {"torn"} /\ asked' = NoUtterance /\ at' = 0
  /\ UNCHANGED <<kind, artifact, model, patched, native, misused, cache, sound, voice, served>>

AdapterInit ==
  /\ kind \in Kinds /\ artifact \in Artifacts /\ sound = NoSound /\ asked = NoUtterance /\ at = 0 /\ model = FALSE /\ patched = {}
  /\ native = Null /\ misused = FALSE /\ cache = <<>> /\ files = {} /\ voice = "" /\ served = 0

AdapterNext == (\E u \in Utterances : TakeRequest(u)) \/ Step \/ Conclude \/ CallFails \/ ReferenceBreaks

AdapterSpec == AdapterInit /\ [][AdapterNext]_adapterVars

-----------------------------------------------------------------------------

\* Audio is made with the voice of the profile that was asked for, also when the voice was
\* kept from a profile with the same digest and another provenance; and the service does
\* not refuse what an adapter made.
VoiceIsProfiles == [][Conclude => voice' = asked.provenance /\ Playable(sound)]_adapterVars
=============================================================================
