INIT MCInit
NEXT MCNext
CONSTANTS
  NULL = NULL
  k1 = k1
  k2 = k2
  k3 = k3
  dhanmondi = dhanmondi
  gulshan = gulshan
  Bookings = {k1, k2, k3}
  Branches = {dhanmondi, gulshan}
  Capacity <- Seats
  BranchId <- Numbers
  LastDay = 30
  Monday = 5
  PartyDays = {8, 9, 21}
  FirstTables <- FewTables
  Deltas = {2}
  ActualPaxes = {3}
  NewPaxes = {2}
  Limit = 2
  MaxWrites = 1
  Venues = {dhanmondi, gulshan}
  FeedbackIds = {1, 2}
  Sheets <- FewSheets
  MaxSubmissions = 2
  DayLength = 2
  MonthLength = 2
  Window = 1
  StatsTTL = 2
  SummaryTTL = 1
  ExportLimit = 1
  MaxFeedback = 3
  MaxTime = 4
  LogIds = {1, 2, 3}
  ReportIds = {1, 2, 3}
  ReportOf <- TwoComplaints
  FirstLogs <- FewLogs
  FirstReports <- FewReports
  FirstStatements <- FewStatements
  Amounts = {1, 3}
  GroupOf <- TwoGroups
  ThisMonth = 2
  PageSizes = {2}
  MaxChanges = 2
INVARIANT FiguresAgree
INVARIANT MailAddsUp
INVARIANT ViewsAgree
INVARIANT ResendsGetTheirRow
INVARIANT AnalyticsLagIsBounded
INVARIANT FeedbackFiguresAgree
INVARIANT OperationsAgree
CHECK_DEADLOCK FALSE
