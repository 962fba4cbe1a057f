CONSTANTS
  o1 = o1
  NoOp = NoOp
  Ops = {o1}
  Inputs = {"text", "voice", "candidate"}
  MaxRevisions = 2
  MaxUnits = 2
  AttemptUnits = 2
  MaxChunks = 2
  SpeechQueue = 1
  MaxSessions = 1
  MaxEpochs = 2
  Faults = {"record", "trace"}
SPECIFICATION FairShape
INVARIANTS Ownership CompletionHolds RecordMatchesTurn
PROPERTY EventuallyTerminal
CHECK_DEADLOCK FALSE
