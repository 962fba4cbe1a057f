------------------------------ MODULE MCSpeech ------------------------------
(***************************************************************************)
(* The worker of the speech service, one of its processes, and the store   *)
(* of voice assets meet only in files: a behaviour of this module is one   *)
(* of them, the others resting in their initial states.                    *)
(***************************************************************************)
EXTENDS SpeechWorker, SpeechAssets, SpeechAdapter

CONSTANTS
  first, again, other, stale,    \* the calls of the speech service
  i1, i2, i3                     \* the invocations of the asset commands

VARIABLE part    \* whose behaviour it is

Voices ==
  ("en" :> [provider |-> "qwen3-tts", revision |-> 1, clone |-> "c", group |-> "", synthesis |-> "s", style |-> [volume |-> 10]]) @@
  ("ja" :> [provider |-> "irodori-tts", revision |-> 2, clone |-> "", group |-> "g", synthesis |-> "s", style |-> [affect |-> "warm"]])
Saying(id, v, revision) ==
  [id |-> id, profile |-> v, revision |-> revision, clone |-> Voices[v].clone, group |-> Voices[v].group,
   synthesis |-> "", style |-> [volume |-> 20]]

\* again is the retry of first, with the same id; other wants the other voice; stale
\* names a revision that was replaced.
Said ==
  (first :> Saying("1", "en", 1)) @@ (again :> Saying("1", "en", 1)) @@
  (other :> Saying("2", "ja", 2)) @@ (stale :> Saying("3", "en", 0))
Both == {"qwen3-tts", "irodori-tts"}
Pairs == {{first, again}, {first, other}, {stale}}

Consent(verified) ==
  [authority |-> "owned", allowed |-> TRUE, signed |-> TRUE, verified |-> verified, evidence |-> FALSE]
Wav == [chunks |-> {"fmt", "data", "LIST"}, rate |-> 24000, seconds |-> 5]

\* A clip with its transcript and one without; the third is offered without consent.
Offered ==
  {[wav |-> Wav, transcript |-> "hello", consent |-> Consent(TRUE)],
   [wav |-> Wav, transcript |-> "", consent |-> Consent(FALSE)],
   [wav |-> Wav, transcript |-> "hello", consent |-> Consent(FALSE)]}
Lists == {<<i1>>, <<i1, i2>>}

Style(affect) == [affect |-> affect, intensity |-> 100, pace |-> 100, pause |-> "natural"]
Utterance(text, affect, current, provenance) ==
  [text |-> text, style |-> Style(affect), current |-> current, digest |-> "g", provenance |-> provenance]

\* One is fine; the others have nothing to say, an unknown affect, an old revision, and a
\* profile whose voice has another provenance.
Wishes ==
  {Utterance(<<"word">>, "warm", TRUE, "p"), Utterance(<<"emoji", "space">>, "warm", TRUE, "p"),
   Utterance(<<"word">>, "angry", TRUE, "p"), Utterance(<<"word">>, "warm", FALSE, "p"),
   Utterance(<<"word">>, "warm", TRUE, "q")}
Stored == "g" :> "p"
Heard ==
  {[rate |-> 24000, seconds |-> 5, finite |-> TRUE, ended |-> TRUE],
   [rate |-> 22050, seconds |-> 61, finite |-> TRUE, ended |-> TRUE],
   [rate |-> 44100, seconds |-> 5, finite |-> TRUE, ended |-> FALSE]}

ASSUME RequestsAssumption /\ CatalogAssumption /\ GroupsAssumption /\ KindsAssumption

all == <<vars, assetVars, adapterVars, part>>

InitOne ==
  /\ Init /\ AssetsInit /\ AdapterInit
  /\ \/ part = "worker" /\ kind = "qwen3-tts" /\ artifact = "pinned"
     \/ part = "assets" /\ kind = "qwen3-tts" /\ artifact = "pinned" /\ stage[first] = "never" /\ stage[stale] = "sent"
     \/ part = "adapter" /\ stage[first] = "never" /\ stage[stale] = "sent"

NextOne ==
  \/ part = "worker" /\ Next /\ UNCHANGED <<assetVars, adapterVars, part>>
  \/ part = "assets" /\ AssetsNext /\ UNCHANGED <<vars, adapterVars, part>>
  \/ part = "adapter" /\ AdapterNext /\ UNCHANGED <<vars, assetVars, part>>

\* The fairness of the worker.
Rest == UNCHANGED <<assetVars, adapterVars, part>>
FairOne ==
  /\ \A r \in Requests : WF_all(part = "worker" /\ Job(r) /\ Rest) /\ WF_all(part = "worker" /\ Stream(r) /\ Rest)
  /\ WF_all(part = "worker" /\ Cleanup /\ Rest)

SpecOne == InitOne /\ [][NextOne]_all /\ FairOne
=============================================================================
