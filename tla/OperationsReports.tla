-------------------------- MODULE OperationsReports --------------------------
(***************************************************************************)
(* What is read from the guest offers, the manager reports and the         *)
(* inventory statements: their lists and summaries, the widgets of         *)
(* dashboard.service.ts, the month's inventory report and the exports of   *)
(* reports.service.ts.  Every view is read at once, past its cache; what   *)
(* may happen to a row is abbreviated here, its rules are in GuestOffers,  *)
(* ManagerReports and Inventory.                                           *)
(***************************************************************************)
EXTENDS FeedbackReports

CONSTANTS
  LogIds,          \* discount and entertainment logs, in the order of creation
  ReportIds,       \* manager reports
  ReportOf,        \* ReportOf[c]: the report of complaint c
  FirstLogs, FirstReports, FirstStatements,  \* the tables a behaviour may start from
  Amounts,         \* discount amounts and food costs
  GroupOf,         \* GroupOf[i]: the category of inventory item i
  ThisMonth,       \* the month of the behaviour; the one before is ThisMonth - 1
  PageSizes,       \* the limits lists are asked for with
  MaxChanges       \* bound: rows written

VARIABLES
  log,        \* log[x]: the row of log x, or NULL
  report,     \* report[x]: the row of a manager report, or NULL
  statement,  \* statement[br][m]: the statement of a month, with its lines, or NULL
  group,      \* group[c]: "active", "inactive" or "deleted"
  changes

operationsVars == <<log, report, statement, group, changes>>

Approvals == {"PENDING", "APPROVED", "REJECTED"}
Kinds == {"discount", "entertainment"}
Months == {ThisMonth - 1, ThisMonth}
Groups == {GroupOf[i] : i \in DOMAIN GroupOf}
StatementStatuses == {"DRAFT", "SUBMITTED", "LOCKED"}
MaxLimit == 1000

LogRows ==
  [kind : Kinds, branchId : Venues, logDate : Nat, approvalStatus : Approvals,
   amount : Nat, isDeleted : BOOLEAN]

ReportRows ==
  [branchId : Venues, reportDate : Nat, approvalStatus : Approvals, isDeleted : BOOLEAN]

(* With its lines, of some of the items. *)
IsStatement(s) ==
  \E S \in SUBSET DOMAIN GroupOf : s \in [status : StatementStatuses, lines : [S -> Nat]]

AreStatements(table) ==
  /\ DOMAIN table = Venues
  /\ \A br \in Venues : /\ DOMAIN table[br] = Months
                        /\ \A m \in Months : table[br][m] = NULL \/ IsStatement(table[br][m])

ASSUME OperationsAssumption ==
  /\ IsFiniteSet(LogIds) /\ LogIds \subseteq Nat
  /\ IsFiniteSet(ReportIds) /\ IsFiniteSet(DOMAIN ReportOf)
  /\ IsFiniteSet(DOMAIN GroupOf)
  /\ ThisMonth \in Nat /\ Amounts \subseteq Nat /\ PageSizes \subseteq 1..MaxLimit
  /\ FirstLogs \subseteq [LogIds -> LogRows \cup {NULL}]
  /\ FirstReports \subseteq [ReportIds -> ReportRows \cup {NULL}]
  /\ \A table \in FirstStatements : AreStatements(table)

OperationsInit ==
  /\ log \in FirstLogs
  /\ report \in FirstReports
  /\ statement \in FirstStatements
  /\ group = [c \in Groups |-> "active"]
  /\ changes = 0

-----------------------------------------------------------------------------
(* queryBuilder.ts *)

Clamp(n) == Min({Max({n, 1}), MaxLimit})

(* Mutant: pages are counted from zero. *)
PagesFromZero(q) ==
  [skip |-> Clamp(q.page) * Clamp(q.limit), take |-> Clamp(q.limit),
   orderBy |-> [column |-> q.sortBy, direction |-> q.sortOrder]]

transformPagination(q) ==
  [skip |-> (Clamp(q.page) - 1) * Clamp(q.limit), take |-> Clamp(q.limit),
   orderBy |-> [column |-> q.sortBy,
                direction |-> IF q.sortOrder = "asc" THEN "asc" ELSE "desc"]]

buildMetadata(total, p) ==
  LET page == p.skip \div p.take + 1
      totalPages == Max({1, (total + p.take - 1) \div p.take})
  IN  [page |-> page, totalPages |-> totalPages,
       hasNextPage |-> page < totalPages, hasPreviousPage |-> page > 1]

(* K may be the first n rows of S: rows of equal rank come in any order. *)
MayLead(K, S, n, rank) ==
  /\ Cardinality(K) = Min({n, Cardinality(S)})
  /\ \A x \in K, y \in S \ K : rank[x] <= rank[y]

(* The latest rows by their day. *)
LatestBy(S, day) ==
  CHOOSE K \in SUBSET S :
    /\ Cardinality(K) = Min({ExportLimit, Cardinality(S)})
    /\ \A x \in K, y \in S \ K : day[x] >= day[y]

-----------------------------------------------------------------------------
(* guest-offer.service.ts and its exports *)

LogsOf(kind, scope, from, to) ==
  {x \in LogIds : /\ log[x] # NULL
                  /\ log[x].kind = kind
                  /\ ~log[x].isDeleted
                  /\ scope \in {"all", log[x].branchId}
                  /\ log[x].logDate \in from..to}

Amounted(S) == SumFunction([x \in S |-> log[x].amount])

LatestLogs(S) == LatestBy(S, [x \in S |-> log[x].logDate])

Rank(S, orderBy) ==
  [x \in S |-> IF orderBy.direction = "asc" THEN log[x][orderBy.column]
              ELSE -log[x][orderBy.column]]

(* What findMany may return of the logs S.  The column the caller sorts by *)
(* is the only order there is, so each query breaks its ties as it likes.  *)
Pages(S, p) ==
  LET rank == Rank(S, p.orderBy)
  IN  {K \in SUBSET S : \E B \in SUBSET (S \ K) :
         MayLead(B, S, p.skip, rank) /\ MayLead(K, S \ B, p.take, rank)}

WithStatus(S, status) == {x \in S : log[x].approvalStatus = status}

getPaginatedDiscountLogs(scope, status, from, to) ==
  WithStatus(LogsOf("discount", scope, from, to), status)

getPaginatedEntertainmentLogs(scope, status, from, to) ==
  WithStatus(LogsOf("entertainment", scope, from, to), status)

getDailySummary(scope, from, to) ==
  [k \in Kinds |-> [logs |-> Cardinality(LogsOf(k, scope, from, to)),
                    total |-> Amounted(LogsOf(k, scope, from, to))]]

exportDiscountLogsExcel(scope, from, to) ==
  LatestLogs(LogsOf("discount", scope, from, to))

exportEntertainmentLogsExcel(scope, from, to) ==
  LatestLogs(LogsOf("entertainment", scope, from, to))

-----------------------------------------------------------------------------
(* manager-report.service.ts and its export *)

ReportsOf(scope, from, to) ==
  {x \in ReportIds : /\ report[x] # NULL
                     /\ ~report[x].isDeleted
                     /\ scope \in {"all", report[x].branchId}
                     /\ report[x].reportDate \in from..to}

getPaginatedReports(scope, status, from, to) ==
  {x \in ReportsOf(scope, from, to) : report[x].approvalStatus = status}

getReportSummary(scope) ==
  LET Of(status) == Cardinality(getPaginatedReports(scope, status, 0, MaxTime))
  IN  [total |-> Of("PENDING") + Of("APPROVED") + Of("REJECTED"), pending |-> Of("PENDING"),
       approved |-> Of("APPROVED"), rejected |-> Of("REJECTED")]

LatestReports(S) == LatestBy(S, [x \in S |-> report[x].reportDate])

(* A sheet of reports, with the number of complaints, and one of complaints. *)
exportManagerReportsExcel(scope, from, to) ==
  LET K == LatestReports(ReportsOf(scope, from, to))
      Complaints(S) == {c \in DOMAIN ReportOf : ReportOf[c] \in S}
  IN  [reports |-> [x \in K |-> Cardinality(Complaints({x}))],
       complaints |-> Complaints(K)]

-----------------------------------------------------------------------------
(* inventory.service.ts and its export *)

getCategories(includeInactive) ==
  {c \in Groups : group[c] \in {"active"} \cup (IF includeInactive THEN {"inactive"} ELSE {})}

(* The branches whose statement of month m is found. *)
getPaginatedStatements(scope, m, statuses) ==
  {br \in Venues : /\ scope \in {"all", br}
                   /\ statement[br][m] # NULL
                   /\ statement[br][m].status \in statuses}

getStatementById(br, m) ==
  [openingStockEditable |-> \A n \in Months : n < m => statement[br][n] = NULL,
   lines |-> statement[br][m].lines]

(* One of the five totals of lines; the others are added up alike. *)
Totals(lines, S) == SumFunction([i \in S |-> lines[i]])

getInventoryReport(scope, m) ==
  LET branches == {br \in Venues : venue[br] # "deleted" /\ scope \in {"all", br}}
      found == getPaginatedStatements(scope, m, StatementStatuses)
      Lines(br) == statement[br][m].lines
  IN  [branches |-> [br \in branches |->
         IF br \in found
         THEN [status |-> statement[br][m].status, totals |-> Totals(Lines(br), DOMAIN Lines(br)),
               lineCount |-> Cardinality(DOMAIN Lines(br))]
         ELSE [status |-> "MISSING", totals |-> 0, lineCount |-> 0]],
       categoryTotals |-> [c \in {GroupOf[i] : i \in UNION {DOMAIN Lines(br) : br \in found}} |->
         SumFunction([br \in found |->
           Totals(Lines(br), {i \in DOMAIN Lines(br) : GroupOf[i] = c})])],
       branchesWithStatement |-> Cardinality(found),
       submitted |-> Cardinality(found \ getPaginatedStatements(scope, m, {"DRAFT"})),
       locked |-> Cardinality(getPaginatedStatements(scope, m, {"LOCKED"})),
       missing |-> Cardinality(branches) - Cardinality(found)]

(* A sheet for each statement, in the order of the branches' numbers, up   *)
(* to the limit; which branches come first is left open.                   *)
exportInventoryExcel(scope, m) ==
  LET found == getPaginatedStatements(scope, m, StatementStatuses)
  IN  [br \in LatestBy(found, [b \in found |-> 0]) |-> statement[br][m].lines]

-----------------------------------------------------------------------------
(* dashboard.service.ts *)

getOperationalWidgets(scope) ==
  LET day == now \div DayLength
      Pending(k) == Cardinality(WithStatus(LogsOf(k, scope, 0, MaxTime), "PENDING"))
  IN  [pendingApprovals |-> [total |-> Pending("discount") + Pending("entertainment"),
                             discounts |-> Pending("discount"),
                             entertainments |-> Pending("entertainment")],
       managerReportsSubmittedToday |-> Cardinality(ReportsOf(scope, day, day)),
       inventoryThisMonth |->
         [submitted |-> Cardinality(getPaginatedStatements(scope, ThisMonth, {"SUBMITTED"})),
          draft |-> Cardinality(getPaginatedStatements(scope, ThisMonth, {"DRAFT"})),
          branchesWithStatement |->
            Cardinality(getPaginatedStatements(scope, ThisMonth, StatementStatuses))]]

-----------------------------------------------------------------------------
(* The tables' writers, abbreviated: decisions and edits that race may     *)
(* come in any order.                                                      *)

WriteLog ==
  /\ \E x \in LogIds :
       /\ \A y \in LogIds : y < x => log[y] # NULL
       /\ \/ /\ log[x] = NULL
             /\ \E k \in Kinds, br \in Venues, n \in Amounts :
                  log' = [log EXCEPT ![x] =
                    [kind |-> k, branchId |-> br, logDate |-> now \div DayLength,
                     approvalStatus |-> "PENDING", amount |-> n, isDeleted |-> FALSE]]
          \/ /\ log[x] # NULL
             /\ ~log[x].isDeleted
             /\ \/ \E status \in {"APPROVED", "REJECTED"} : log' = [log EXCEPT ![x].approvalStatus = status]
                \/ \E n \in Amounts : log' = [log EXCEPT ![x].amount = n]
                \/ log' = [log EXCEPT ![x].isDeleted = TRUE]
  /\ UNCHANGED <<report, statement, group>>

(* A deleted report is revived as a pending one. *)
WriteReport ==
  /\ \E x \in ReportIds, status \in Approvals :
       /\ report[x] # NULL
       /\ \/ ~report[x].isDeleted /\ report' = [report EXCEPT ![x].approvalStatus = status]
          \/ ~report[x].isDeleted /\ report' = [report EXCEPT ![x].isDeleted = TRUE]
          \/ /\ report[x].isDeleted
             /\ report' = [report EXCEPT ![x].isDeleted = FALSE, ![x].approvalStatus = "PENDING"]
  /\ UNCHANGED <<log, statement, group>>

(* A statement lists the items of every category, the deleted ones too. *)
WriteStatement ==
  /\ \E br \in Venues, m \in Months :
       LET s == statement[br][m]
       IN  \/ /\ s = NULL
              /\ statement' = [statement EXCEPT ![br][m] =
                   [status |-> "DRAFT", lines |-> [i \in DOMAIN GroupOf |-> 0]]]
           \/ /\ s # NULL
              /\ \/ \E status \in StatementStatuses :
                      statement' = [statement EXCEPT ![br][m] =
                        [status |-> status, lines |-> s.lines]]
                 \/ /\ s.status # "LOCKED"
                    /\ \E i \in DOMAIN s.lines, n \in Amounts :
                         statement' = [statement EXCEPT ![br][m] =
                           [status |-> s.status, lines |-> [s.lines EXCEPT ![i] = n]]]
  /\ UNCHANGED <<log, report, group>>

updateCategory ==
  /\ \E c \in Groups, status \in {"active", "inactive", "deleted"} :
       /\ group[c] # "deleted"
       /\ group' = [group EXCEPT ![c] = status]
  /\ UNCHANGED <<log, report, statement>>

OperationsNext ==
  \/ /\ changes < MaxChanges
     /\ changes' = changes + 1
     /\ WriteLog \/ WriteReport \/ WriteStatement \/ updateCategory
     /\ UNCHANGED feedbackVars
  \/ (ChangeVenue \/ Tick) /\ UNCHANGED operationsVars

-----------------------------------------------------------------------------

(* The figures of the same rows agree wherever they are shown: the pages   *)
(* of a list, up to the last page that may be asked for, are full but for  *)
(* the last, and whatever order each query gives to rows that tie on the   *)
(* column sorted by, a row is on no page its ties do not reach, and shown  *)
(* if no end of a page cuts them, so exactly once (a row whose ties are    *)
(* cut may come twice or never); the widgets count what the lists show,    *)
(* and the sums of the days, of the decisions and of the branches make     *)
(* that of all; a sheet no limit cuts off holds what its list sums up; the *)
(* month's report, its categories and its sheets hold the same lines, but  *)
(* for the branches deleted, whose statements count although they have no  *)
(* row (so that missing falls short by them), and a category that was      *)
(* deleted still has its total.  (The tables are looked at once something  *)
(* was written.)                                                           *)

LogsAgree(scope) ==
  LET W == getOperationalWidgets(scope)
      Daily(k) == getDailySummary(scope, 0, MaxTime)[k]
  IN  /\ W.pendingApprovals.total =
           Cardinality(getPaginatedDiscountLogs(scope, "PENDING", 0, MaxTime)
                        \cup getPaginatedEntertainmentLogs(scope, "PENDING", 0, MaxTime))
      /\ \A k \in Kinds :
           /\ Daily(k).logs = SumFunction([d \in 0..MaxTime |-> getDailySummary(scope, d, d)[k].logs])
           /\ Daily(k).total = SumFunction([s \in Approvals |->
                Amounted(WithStatus(LogsOf(k, scope, 0, MaxTime), s))])
      /\ Daily("discount").logs <= ExportLimit =>
           Daily("discount").total = Amounted(exportDiscountLogsExcel(scope, 0, MaxTime))
      /\ Daily("entertainment").logs <= ExportLimit =>
           Daily("entertainment").total = Amounted(exportEntertainmentLogsExcel(scope, 0, MaxTime))

(* Where the ties of x begin and end. *)
FirstPage(list, rank, limit, x) ==
  Cardinality({y \in list : rank[y] < rank[x]}) \div limit + 1

LastPage(list, rank, limit, x) ==
  (Cardinality({y \in list : rank[y] <= rank[x]}) - 1) \div limit + 1

PagesShowOnce(list, limit, sortBy, sortOrder) ==
  LET P(n) == transformPagination([page |-> n, limit |-> limit,
                                   sortBy |-> sortBy, sortOrder |-> sortOrder])
      last == buildMetadata(Cardinality(list), P(1)).totalPages
      rank == Rank(list, P(1).orderBy)
  IN  last <= MaxLimit =>
        \A n \in 1..last : \A K \in Pages(list, P(n)) :
          /\ Cardinality(K) = Min({limit, Cardinality(list) - (n - 1) * limit})
          /\ \A x \in list :
               LET first == FirstPage(list, rank, limit, x)
                   final == LastPage(list, rank, limit, x)
               IN  /\ x \in K => first <= n /\ n <= final
                   /\ first = n /\ final = n => x \in K

ReportsAgree(scope) ==
  LET day == now \div DayLength
      R == exportManagerReportsExcel(scope, 0, MaxTime)
  IN  /\ getReportSummary(scope).total = Cardinality(ReportsOf(scope, 0, MaxTime))
      /\ getOperationalWidgets(scope).managerReportsSubmittedToday
           = SumFunction([s \in Approvals |-> Cardinality(getPaginatedReports(scope, s, day, day))])
      /\ Cardinality(R.complaints) = SumFunction(R.reports)

InventoryAgrees(scope) ==
  LET W == getOperationalWidgets(scope).inventoryThisMonth
      I == getInventoryReport(scope, ThisMonth)
      sheets == exportInventoryExcel(scope, ThisMonth)
      closed == {br \in getPaginatedStatements(scope, ThisMonth, StatementStatuses) :
                   venue[br] = "deleted"}
      Whole(br) == SumFunction(getStatementById(br, ThisMonth).lines)
  IN  /\ W.submitted + I.locked = I.submitted
      /\ W.draft + I.submitted = I.branchesWithStatement
      /\ I.missing + Cardinality(closed)
           = Cardinality({br \in DOMAIN I.branches : I.branches[br].status = "MISSING"})
      /\ SumFunction(I.categoryTotals)
           = SumFunction([br \in DOMAIN I.branches |-> I.branches[br].totals])
             + SumFunction([br \in closed |-> Whole(br)])
      /\ I.branchesWithStatement <= ExportLimit =>
           SumFunction(I.categoryTotals)
             = SumFunction([br \in DOMAIN sheets |-> SumFunction(sheets[br])])
      /\ \A br \in DOMAIN sheets :
           /\ Cardinality({m \in Months : /\ statement[br][m] # NULL
                                          /\ getStatementById(br, m).openingStockEditable}) = 1
           /\ br \notin closed => I.branches[br].lineCount = Cardinality(DOMAIN sheets[br])

OperationsAgree == changes > 0 =>
  /\ getCategories(FALSE) \subseteq getCategories(TRUE)
  /\ \A scope \in {"all"} \cup Venues :
       /\ LogsAgree(scope) /\ ReportsAgree(scope) /\ InventoryAgrees(scope)
       /\ \A limit \in PageSizes, sortBy \in {"logDate", "amount"}, sortOrder \in {"asc", "desc"} :
            /\ PagesShowOnce(getPaginatedDiscountLogs(scope, "PENDING", 0, MaxTime),
                             limit, sortBy, sortOrder)
            /\ PagesShowOnce(getPaginatedEntertainmentLogs(scope, "PENDING", 0, MaxTime),
                             limit, sortBy, sortOrder)

=============================================================================
