\* One plan for the turns of the chat; two requests for a Discord service that
\* keeps one record.
CONSTANTS
  t1 = t1
  t2 = t2
  p1 = p1
  p2 = p2
  c1 = c1
  Plans = {p1}
  Turns = {t1, t2}
  Cancelers = {c1}
  MaxPlanners = 2
  NoTask = NoTask
  MaxPlans = 1
  Providers = {"worker", "searxng"}
  d1 = d1
  d2 = d2
  r1 = r1
  r2 = r2
  Polls = {d1, d2}
  Queries = {r1}
  IdOf <- Numbers
  DaysOf <- Days
  Posts <- Community
  Results <- Ends
  Replies <- Said
  SelectionMessages = 2
  SelectionChars = 4
  MaxKept = 1
  MaxRecords = 1
  MaxReloads = 1
SPECIFICATION SpecEither
INVARIANTS CancellationHolds TurnKeepsPlan RunsHoldTheirPlace
PROPERTIES EveryTurnEnds RunEnds
CHECK_DEADLOCK FALSE
