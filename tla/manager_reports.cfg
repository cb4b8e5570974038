SPECIFICATION Spec
CONSTANTS
  NULL = NULL
  x1 = x1
  x2 = x2
  r1 = r1
  r2 = r2
  super = super
  coo = coo
  mgr = mgr
  dhanmondi = dhanmondi
  gulshan = gulshan
  Home <- ManagerHome
  Reports = {x1, x2}
  Users = {super, mgr}
  Managers = {mgr}
  SuperAdmins = {super}
  Approvers = {super}
  Signers = {super}
  Branches = {dhanmondi, gulshan}
  Dates = {1, 2}
  Notes = {TRUE}
  Requests = {r1, r2}
SYMMETRY Symmetry
INVARIANT DecisionsAreSigned
PROPERTY ManagersKeepToTheirBranch
PROPERTY OnlyCreationRevives
PROPERTY UnracedWritesFollowTheRules
CHECK_DEADLOCK FALSE
