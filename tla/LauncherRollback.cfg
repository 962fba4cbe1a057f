\* A start, and a second one while everything runs.
CONSTANTS
  c1 = c1
  c2 = c2
  w1 = w1
  Resident = TRUE
  Ports = {"gateway", "irodori"}
  Apps = {"runtime"}
  Order <- StartOrder
  Closing <- StopOrder
  Commands = {c1, c2}
  Does <- Starts
  Watchers = {w1}
  Tries = 2
  MaxProcesses = 4
  MaxKills = 0
  Nobody = Nobody
SPECIFICATION StackSpec
PROPERTY RollbackOnlyNew
CHECK_DEADLOCK FALSE
