CONSTANTS
  InputKinds = {"text"}
  Capacity = 5
  Reserve = 0
  AttemptEvents = 5
  EndEvents = 2
  ThinkingDeltas = 8
  MaxOps = 1
  MaxAttempts = 1
  MaxUpdates = 1
SPECIFICATION FairSpec
PROPERTY MutexReleased
CHECK_DEADLOCK FALSE
