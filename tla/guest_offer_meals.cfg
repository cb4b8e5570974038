SPECIFICATION Spec
CONSTANTS
  NULL = NULL
  x1 = x1
  r1 = r1
  r2 = r2
  super = super
  coo = coo
  mgr = mgr
  dhanmondi = dhanmondi
  gulshan = gulshan
  Home <- ManagerHome
  Logs = {x1}
  Users = {mgr}
  Managers = {mgr}
  SuperAdmins = {}
  Approvers = {}
  Signers = {super}
  Branches = {dhanmondi, gulshan}
  Bills = {10, 25}
  Percents = {10, 50}
  Costs = {5}
  Meals = {TRUE}
  Requests = {r1}
INVARIANT MealsAreAsSent
CHECK_DEADLOCK FALSE
