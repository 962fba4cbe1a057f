\* Two calls of generate, one reload, nothing else going on.
CONSTANTS
  m = m
  c1 = c1
  c2 = c2
  NoId = NoId
  Missing = "missing"
  Commands = {}
  Roles = {"fast"}
  ModelPaths = {}
  GGUF = {"gm"}
  Jobs <- NoJobs
  MaxContext <- NoProfiles
  AtFirst <- OneFile
  Known <- OneModel
  Chosen <- OneSelection
  MaxReplaced = 0
  Calls = {c1, c2}
  Limit <- OneEach
  Reviewers = {}
  Exports = {}
  Format <- NoFormat
  Datasets <- OneBook
  Modes = {"same_prompt"}
  Target = 2
  Role = "fast"
  Orders = {"ab"}
  Outcomes <- AtOnce
  OtherBatches = FALSE
  MaxVotes = 0
  MaxReloads = 1
  MaxCrashes = 0
SPECIFICATION FairSpec
PROPERTY LeaseEnds
\* The gateway rests between calls.
CHECK_DEADLOCK FALSE
