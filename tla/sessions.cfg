SPECIFICATION FairSpec
CONSTANTS
  NULL = NULL
  ana = ana
  bob = bob
  r1 = r1
  r2 = r2
  Users = {ana, bob}
  Secrets = {1, 2}
  Wants <- FewWants
  InitialUsers <- SeededUsers
  Requests = {r1, r2}
  MaxOperations = 3
INVARIANT OldPasswordsEnd
INVARIANT ChangesShowAtOnce
PROPERTY ChangesShowInTheEnd
PROPERTY LastSuperAdminStays
PROPERTY SpentTokensBuyNothing
CHECK_DEADLOCK FALSE
