SPECIFICATION FairSpec
CONSTANTS
  NULL = NULL
  i1 = i1
  i2 = i2
  r1 = r1
  r2 = r2
  admin = admin
  mgr = mgr
  dhanmondi = dhanmondi
  gulshan = gulshan
  Home <- ManagerHome
  Managers = {mgr}
  Operations <- StatementOperations
  Items = {i1}
  Catalog = {i1}
  Branches <- OneBranch
  MaxMonth = 2
  Users <- TwoUsers
  Requests = {r1, r2}
  Inputs <- OpenAndBreak
  MaxFailures = 0
INVARIANT ClosingAddsUp
CHECK_DEADLOCK FALSE
