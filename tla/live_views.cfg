SPECIFICATION FairSpec
CONSTANTS
  p1 = p1
  b1 = b1
  b2 = b2
  ana = ana
  NULL = NULL
  Processes = {p1}
  Branches = {b1, b2}
  Keys <- TwoKeys
  Clients = {ana}
  ScopeOf <- ManagerOfB1
  HubOf <- OneHub
  MaxRequests = 2
  MaxNotifications = 1
  MaxWrites = 2
INVARIANT StaleForAReason
INVARIANT HeardIsListed
PROPERTY ListsCatchUp
PROPERTY HubForgets
CHECK_DEADLOCK FALSE
