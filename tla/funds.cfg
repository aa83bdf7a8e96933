SPECIFICATION FairSpec
CONSTANTS
  r1 = r1
  r2 = r2
  Requests = {r1, r2}
  None = None
  Opening = 2
  Filled = 1
  MaxFaults = 1
  MaxCrashes = 1
INVARIANTS
  UsedOnce
  FundCovered
  DisabledIsClosed
PROPERTIES
  ClaimSettles
CHECK_DEADLOCK FALSE
