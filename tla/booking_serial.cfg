SPECIFICATION Spec
CONSTANTS
  NULL = NULL
  b1 = b1
  b2 = b2
  r1 = r1
  r2 = r2
  admin = admin
  mgr = mgr
  dhanmondi = dhanmondi
  gulshan = gulshan
  Home <- ManagerHome
  Managers = {}
  Bookings = {b1, b2}
  Requests = {r1}
  Users = {admin}
  Branches <- OneBranch
  ActiveBranches <- OneBranch
  Operations <- AllOperations
  NumberSuffixes = {1}
  InitialPaxes = {1}
  Deltas <- Down
  ActualPaxes = {0}
  MaxDay = 2
  MaxAdjustments = 1
  MaxFailures = 1
PROPERTY ImplementsBookingRules
CHECK_DEADLOCK FALSE
