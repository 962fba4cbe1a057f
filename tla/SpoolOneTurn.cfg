CONSTANTS
  k1 = k1
  k2 = k2
  c1 = c1
  n1 = n1
  Keys = {k1}
  Convs = {c1}
  ConvOf <- MCConvOf
  MaxText = 1
  MaxPending = 2
  Candidates = {n1}
  NoCandidate = NoCandidate
  Faults = {"early"}
  KarteErrors = {"permission"}
  MaxCrashes = 1
SPECIFICATION FairSpec
INVARIANT RecordedAsSaid
PROPERTY EventuallyDelivered
CHECK_DEADLOCK FALSE
