\* The index of one document in two files over the default store and over Qdrant;
\* two requests to change one of two documents.
CONSTANTS
  Docs = {d}
  Paths = {p, q}
  Managed = managed
  Issues = {"invalid_utf8"}
  Stores = {"default", "qdrant"}
  MaxVersion = 2
  MaxEdits = 2
  MaxJobs = 1
  MaxFailures = 1
  NoDoc = NoDoc
  Threads = {"gateway"}
  Publishers = {"gateway"}
  Requests = {search, append}
  Project = {search, append}
  Resolution <- TheResolution
  Intended <- TheIntended
  Kinds = {0, 1}
  Explicit <- NoneExplicit
  Signals <- TheSignals
  Documents = {near, close}
  Words <- TheWords
  KindOf <- OneKind
  MaxShown = 2
  MaxChanges = 1
  search = search
  append = append
  near = near
  close = close
SPECIFICATION SpecEither
INVARIANTS IndexIsSnapshot SentAsReviewed PlansMeetContract NeverMissing
PROPERTY IndexCatchesUp
\* Nothing more may be edited or asked for.
CHECK_DEADLOCK FALSE
