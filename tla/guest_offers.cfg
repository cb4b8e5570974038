SPECIFICATION Spec
CONSTANTS
  NULL = NULL
  x1 = x1
  r1 = r1
  r2 = r2
  super = super
  coo = coo
  mgr = mgr
  dhanmondi = dhanmondi
  gulshan = gulshan
  Home <- ManagerHome
  Logs = {x1}
  Users = {super, coo, mgr}
  Managers = {mgr}
  SuperAdmins = {super}
  Approvers = {super, coo}
  Signers = {super}
  Branches = {dhanmondi, gulshan}
  Bills = {10, 25}
  Percents = {10, 50}
  Costs = {5}
  Meals = {FALSE}
  Requests = {r1, r2}
SYMMETRY SlotSymmetry
INVARIANT DecisionsAreSigned
PROPERTY ManagersKeepToTheirBranch
PROPERTY UnracedEditsMendTheAmount
PROPERTY UnracedWritesFollowTheRules
CHECK_DEADLOCK FALSE
