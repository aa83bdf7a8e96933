SPECIFICATION FairSpec
CONSTANTS
  l1 = l1
  l2 = l2
  Slots = {l1, l2}
  Settlements = 1
  Deposits <- AllDeposits
  MaxTimers = 1
  MaxRecycles = 1
  MaxDrops = 1
  MaxCrashes = 1
  MaxFailures = 1
  MaxExpiries = 1
  MaxFaults = 2
INVARIANTS CreditedOnce LostBoundedByFaults
PROPERTIES CursorReachesAll
