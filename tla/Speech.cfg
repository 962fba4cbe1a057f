\* Requests with one id and of two voices; what they, the voices and the clips are
\* stands in MCSpeech.
CONSTANTS
  NoRequest = NoRequest
  first = first
  again = again
  other = other
  stale = stale
  Requests = {first, again, other, stale}
  Asked <- Said
  Catalog <- Voices
  Default = "en"
  Installed <- Both
  Arrivals <- Pairs
  i1 = i1
  i2 = i2
  i3 = i3
  Runs = {i1, i2, i3}
  Clips <- Offered
  Groups <- Lists
  Kinds = {"qwen3-tts", "irodori-tts", "irodori-audiocpp"}
  Utterances <- Wishes
  NoUtterance = NoUtterance
  Assets <- Stored
  Artifacts = {"pinned", "linked", "other"}
  Sounds <- Heard
  MaxServed = 2
  MaxFaults = 1
SPECIFICATION SpecOne
INVARIANTS NothingLost AnswerIsOwn OwnerUndisturbed AssetsHold
PROPERTIES EveryRequestEnds VoiceIsProfiles
CHECK_DEADLOCK FALSE
