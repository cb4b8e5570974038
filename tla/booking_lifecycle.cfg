SPECIFICATION Spec
CONSTANTS
  NULL = NULL
  b1 = b1
  b2 = b2
  r1 = r1
  r2 = r2
  admin = admin
  mgr = mgr
  dhanmondi = dhanmondi
  gulshan = gulshan
  Home <- ManagerHome
  Managers = {mgr}
  Bookings = {b1}
  Requests = {r1, r2}
  Users <- TwoUsers
  Branches <- TwoBranches
  ActiveBranches <- TwoBranches
  Operations <- LifecycleOperations
  NumberSuffixes = {1}
  InitialPaxes = {1}
  Deltas <- Down
  ActualPaxes = {0}
  MaxDay = 1
  MaxAdjustments = 0
  MaxFailures = 1
SYMMETRY SlotSymmetry
INVARIANT CompletedHasActualPax
INVARIANT HistoryExplainsStatus
INVARIANT StampsMatchHistory
INVARIANT ManagersKeepToTheirBranch
CHECK_DEADLOCK FALSE
