SPECIFICATION FairSpec
CONSTANTS
  r1 = r1
  r2 = r2
  Requests = {r1, r2}
  None = None
  Opening = 3
  Wallet = 2
  Threshold = 1
  Fee = 1
  Cap = 1
  Budget = 2
  Dormant = TRUE
  MaxDeposits = 1
  MaxCrashes = 1
  MaxDrops = 1
INVARIANTS
  LimitHolds
  NothingMinted
  BudgetHolds
  CapPassedByOverlapOnly
  LostOnlyToAnother
PROPERTIES
  AppsAnswered
CHECK_DEADLOCK FALSE
