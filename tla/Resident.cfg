\* Two callers and two paths for the tools; two operations and two documents for
\* the candidates; two starts of the resident.
CONSTANTS
  Threads = {a, b}
  NoThread = NoThread
  fine = fine
  Paths = {fine, secret}
  PlaceOf <- Where
  Texts = {v, w}
  Contexts = {{"write_files"}, {"execute_process"}, {"read_files"}}
  MaxOffers = 2
  MaxGrants = 2
  MaxEdits = 1
  MaxOutput = 2
  MaxEntries = 1
  Ops = {o1, o2}
  NoOp = NoOp
  Docs = {d1, d2}
  MaxTools = 2
  MaxForeground = 2
  MaxChanges = 1
  b1 = b1
  b2 = b2
  q1 = q1
  g1 = g1
  Resident = TRUE
  Ports = {"gateway"}
  Apps = {"runtime"}
  Order <- InOrder
  Closing <- Backwards
  Commands = {b1, b2}
  Does <- AllStart
  Watchers = {g1}
  Tries = 2
  MaxProcesses = 4
  MaxKills = 0
  Nobody = Nobody
SPECIFICATION SpecOne
INVARIANTS OneExecutionPerApproval GateAccounts OneReadyPerCandidate StartedIsRecorded
PROPERTIES ReplacesWhatWasShown WindowsAlwaysFirst
\* Each part may rest once all that was asked for is done.
CHECK_DEADLOCK FALSE
