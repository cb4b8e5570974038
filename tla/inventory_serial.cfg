SPECIFICATION Spec
CONSTANTS
  NULL = NULL
  i1 = i1
  i2 = i2
  r1 = r1
  r2 = r2
  admin = admin
  mgr = mgr
  dhanmondi = dhanmondi
  gulshan = gulshan
  Home <- ManagerHome
  Managers = {}
  Operations <- AllOperations
  Items = {i1}
  Catalog = {}
  Branches <- OneBranch
  MaxMonth = 3
  Users = {admin}
  Requests = {r1}
  Inputs <- OpenAndBreak
  MaxFailures = 1
PROPERTY ImplementsInventoryRules
CHECK_DEADLOCK FALSE
