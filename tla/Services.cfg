\* Small instances of the parts; what each is made of stands in MCServices.
CONSTANTS
  Missing = "missing"
  m = m
  n = n
  x = x
  y = y
  z = z
  i1 = i1
  i2 = i2
  a1 = a1
  s1 = s1
  s2 = s2
  d1 = d1
  l1 = l1
  l2 = l2
  k1 = k1
  sel = sel
  c1 = c1
  c2 = c2
  r1 = r1
  r2 = r2
  e1 = e1
  w1 = w1
  w2 = w2
  NoValue = NoValue
  NoId = NoId
  Windows = {w1, w2}
  SessionOf <- TwoSessions
  Offers <- SaidByOwner
  Selections <- Owned
  MaxRecords = 2
  MaxSwitches = 2
  MaxRestarts = 1
  MaxTime = 0
  Retention = 0
  Commands = {}
  Jobs <- Chores
  Roles = {"fast", "code"}
  ModelPaths = {}
  GGUF = {"gm", "gn", "ga"}
  MaxContext <- Few
  AtFirst <- Disk
  Known <- AllKnown
  Chosen <- WithX
  MaxReplaced = 0
  Calls = {c2}
  Limit <- Once
  Reviewers = {r1, r2}
  Exports = {e1}
  Format <- Dpo
  Datasets <- OneDataset
  Modes = {"prompt_v1_v2", "base_vs_adapter"}
  Target = 2
  Role = "fast"
  Orders = {"ba"}
  Outcomes <- Good
  OtherBatches = FALSE
  MaxVotes = 2
  MaxReloads = 0
  MaxCrashes = 0
SPECIFICATION SpecOne
INVARIANTS SelectionResolves SessionKeepsArtifacts OneCurrentVote ExportAsReviewed
PROPERTIES AppliedOnWhatWasSeen UndoRestores
\* Each part stops when all its requests are answered.
CHECK_DEADLOCK FALSE
