CONSTANTS
  InputKinds = {"text", "microphone"}
  Capacity = 9
  Reserve = 1
  AttemptEvents = 7
  EndEvents = 2
  ThinkingDeltas = 1
  MaxOps = 1
  MaxAttempts = 2
  MaxUpdates = 2
SPECIFICATION FairSpec
INVARIANT ProducersNeverBlock
PROPERTIES EndShown UpdatesArrive
CHECK_DEADLOCK FALSE
