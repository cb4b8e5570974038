SPECIFICATION FairSpec
CONSTANTS
  NULL = NULL
  b1 = b1
  b2 = b2
  r1 = r1
  r2 = r2
  admin = admin
  mgr = mgr
  dhanmondi = dhanmondi
  gulshan = gulshan
  Home <- ManagerHome
  Managers = {}
  Bookings = {b1, b2}
  Requests = {r1, r2}
  Users = {admin}
  Branches <- OneBranch
  ActiveBranches <- OneBranch
  Operations <- PaxAndCloseOperations
  NumberSuffixes = {1}
  InitialPaxes = {1}
  Deltas <- UpAndDown
  ActualPaxes = {0}
  MaxDay = 0
  MaxAdjustments = 3
  MaxFailures = 0
INVARIANT TypeOK
INVARIANT LedgerBalanced
PROPERTY ImplementsPaxCounter
PROPERTY EveryRequestAnswered
CHECK_DEADLOCK FALSE
