--------------------------- MODULE BookingReports ---------------------------
(***************************************************************************)
(* What is read from the bookings: lists, dashboard, calendar, warnings    *)
(* and reports of booking.service.ts, and the mails of report-mailer.ts,   *)
(* while requests go on changing the bookings.                             *)
(*                                                                         *)
(* A report is several queries, each of which sees the table as it is when *)
(* it is answered.  past holds the tables since the report was asked for.  *)
(***************************************************************************)
EXTENDS Absent, BookingLogic, FiniteSets, FiniteSetsExt

CONSTANTS
  Bookings, Branches,
  Capacity,       \* Capacity[br]: the seats of a branch, or NULL
  BranchId,       \* BranchId[br]: its number, by which rows are ordered
  LastDay,        \* the month is 1..LastDay
  Monday,         \* its first Monday
  PartyDays,      \* days of the month with parties
  FirstTables,    \* the tables of bookings a behaviour may start from
  Deltas, ActualPaxes, NewPaxes,
  Limit,          \* REPORT_FETCH_LIMIT, REPORT_EXPORT_LIMIT and the other limits of rows
  MaxWrites       \* bound: bookings written while a report is read

PartyTypes == {"LUNCH", "DINNER"}
Scopes == {"all"} \cup Branches

(* The rows of bookings: never fewer guests are expected than none, and    *)
(* those expected are those of the ledger.                                 *)
BookingRows ==
  {row \in [branchId : Branches, partyDate : PartyDays, partyType : PartyTypes,
            status : Statuses, initialPax : Nat, adjustments : Seq([delta : Int]),
            expectedPax : Nat, actualPax : Nat \cup {NULL}, isDeleted : BOOLEAN] :
     row.expectedPax = computeExpectedPax(row.initialPax, row.adjustments)}

ASSUME ReportsAssumption ==
  /\ IsFiniteSet(Bookings) /\ IsFiniteSet(Branches)
  /\ BranchId \in [Branches -> Nat]
  /\ LastDay \in 28..31 /\ Monday \in 1..7 /\ PartyDays \subseteq 1..LastDay
  /\ Deltas \subseteq Int /\ NewPaxes \cup ActualPaxes \subseteq Nat
  /\ {Limit, MaxWrites} \subseteq Nat
  /\ FirstTables \subseteq [Bookings -> BookingRows \cup {NULL}]

VARIABLES
  booking,  \* booking[b]: the row of b, or NULL
  today,
  asked,    \* the report asked for, or NULL
  past,     \* the tables of bookings since then
  seen      \* for each query answered, which of the past tables it saw

bookingVars == <<booking, today, asked, past, seen>>

BookingInit ==
  /\ booking \in FirstTables
  /\ today \in PartyDays
  /\ asked = NULL
  /\ past = <<>>
  /\ seen = <<>>

-----------------------------------------------------------------------------
(* Operators on a table t of bookings and sets S of them. *)

Among(t, scope) ==
  {b \in Bookings : /\ t[b] # NULL
                    /\ ~t[b].isDeleted
                    /\ scope \in {"all", t[b].branchId}}

Within(t, S, start, end) == {b \in S : t[b].partyDate \in start..end}

Only(t, S, field, value) == {b \in S : t[b][field] = value}

Pax(t, S, field) ==
  SumFunction([b \in S |-> IF t[b][field] = NULL THEN 0 ELSE t[b][field]])

(* take: the first rows in the order of key. *)
Take(t, S, key(_)) ==
  CHOOSE K \in SUBSET S :
    /\ Cardinality(K) = IF Cardinality(S) < Limit THEN Cardinality(S) ELSE Limit
    /\ \A b \in K, c \in S \ K : key(t[b]) <= key(t[c])

partyDate(row) == row.partyDate

partyType(row) == IF row.partyType = "LUNCH" THEN 0 ELSE 1

-----------------------------------------------------------------------------
(* booking.service.ts: the views *)

getPaginatedBookings(scope, start, end, status, missingActual) ==
  {b \in Within(booking, Among(booking, scope), start, end) :
     /\ booking[b].status = status
     /\ missingActual <=> booking[b].actualPax = NULL}

getBookingById(b) ==
  computePaxSummary(booking[b].initialPax, booking[b].adjustments,
                    booking[b].actualPax, NULL)

getDashboard(scope) ==
  LET day == Within(booking, Among(booking, scope), today, today)
      rows == Take(booking, day, partyType)
  IN  [bookings |-> rows,
       byType |-> [m \in PartyTypes |-> Cardinality(Only(booking, rows, "partyType", m))],
       byStatus |-> [s \in Statuses |-> Cardinality(Only(booking, day, "status", s))],
       initialPax |-> Pax(booking, day, "initialPax"),
       expectedPax |-> Pax(booking, day, "expectedPax"),
       actualPax |-> Pax(booking, day, "actualPax")]

(* Mutant: today's parties are not upcoming. *)
ComingAfterToday(scope) ==
  Take(booking, {b \in Among(booking, scope) : /\ booking[b].status \notin Closed
                                              /\ booking[b].partyDate > today}, partyDate)

getUpcoming(scope) ==
  Take(booking, {b \in Among(booking, scope) : /\ booking[b].status \notin Closed
                                              /\ booking[b].partyDate >= today}, partyDate)

getCalendar(scope, start, end) ==
  Take(booking, Within(booking, Among(booking, scope), start, end),
       LAMBDA row : 2 * row.partyDate + partyType(row))

(* The bookings of the last and the next 7 days, each with its warnings. *)
getWarnings(scope) ==
  [b \in Take(booking, Within(booking, Among(booking, scope), today - 7, today + 7),
             partyDate) |->
     buildWarningsForBooking(booking[b], booking[b].partyDate - today,
                             Capacity[booking[b].branchId], NULL)]

-----------------------------------------------------------------------------
(* booking.service.ts: the reports *)

(* Mutant: the last day of the range is left out. *)
WhereBeforeEnd(t, q) == Within(t, Among(t, q.scope), q.start, q.end - 1)

reportWhere(t, q) ==
  {b \in Within(t, Among(t, q.scope), q.start, q.end) :
     q.status \in {"any", t[b].status} /\ q.partyType \in {"any", t[b].partyType}}

Queries == {"status", "type", "branch", "typeByBranch", "pax", "confirmed"}

(* t[k] is the table query k has seen. *)
aggregateReport(t, q) ==
  LET W(k) == reportWhere(t[k], q)
      Split(k, S, field) ==
        [m \in PartyTypes |->
           IF field = "parties" THEN Cardinality(Only(t[k], S, "partyType", m))
           ELSE Pax(t[k], Only(t[k], S, "partyType", m), field)]
      Of(k, br) == Only(t[k], W(k), "branchId", br)
  IN  [byStatus |-> [s \in Statuses |-> Cardinality(Only(t["status"], W("status"), "status", s))],
       byType |-> [f \in {"parties", "expectedPax", "actualPax"} |-> Split("type", W("type"), f)],
       pax |-> [f \in {"initialPax", "expectedPax", "actualPax"} |-> Pax(t["pax"], W("pax"), f)],
       branchBreakdown |->
         [br \in {t["branch"][b].branchId : b \in W("branch")} |->
            [total |-> Cardinality(Of("branch", br)),
             confirmed |-> Cardinality(Only(t["confirmed"], Of("confirmed", br), "status", "CONFIRMED")),
             byType |-> [f \in {"parties", "expectedPax", "actualPax"} |->
                           Split("typeByBranch", Of("typeByBranch", br), f)],
             pax |-> [f \in {"initialPax", "expectedPax", "actualPax"} |->
                        Pax(t["branch"], Of("branch", br), f)]]]]

exportBookingsExcel(t, q) == Take(t, reportWhere(t, q), partyDate)

Span(start, end) ==
  [scope |-> "all", start |-> start, end |-> end, status |-> "any", partyType |-> "any"]

getDailyReport(d) == Span(d, d)

getWeeklyReport(d) ==
  LET monday == d - ((d - Monday + 7) % 7)
  IN  Span(monday, monday + 6)

getMonthlyReport == Span(1, LastDay)

-----------------------------------------------------------------------------
(* report-mailer.ts *)

splitMonthWeeks(lastDay) ==
  <<Span(1, 7), Span(8, 14), Span(15, 21), Span(22, lastDay)>>

fetchRangeRows(t, q) ==
  Take(t, Within(t, Among(t, "all"), q.start, q.end),
       LAMBDA row : (LastDay + 1) * BranchId[row.branchId] + row.partyDate)

(* The figures in the text of a mail. *)
toMailData(F) ==
  [total |-> SumFunction(F.byStatus), byStatus |-> F.byStatus, byType |-> F.byType["parties"],
   pax |-> F.byType["expectedPax"], actualPax |-> F.pax["actualPax"]]

(* buildMatrixCells: the expected guests of a cell; cancelled parties are  *)
(* left out, completed ones count as confirmed.                            *)
Cell(t, rows, br, d, m, statuses) ==
  Pax(t, {b \in rows : /\ t[b].branchId = br
                       /\ t[b].partyDate = d
                       /\ t[b].partyType = m
                       /\ t[b].status \in statuses \ {"CANCELLED"}}, "expectedPax")

(* Mutant: branches that have no lunch on any day get no row. *)
LunchBranches(t, rows, q, branches) ==
  {br \in branches : \E d \in q.start..q.end : Cell(t, rows, br, d, "LUNCH", Statuses) > 0}

(* activeBranches, of those the report knows *)
MatrixBranches(t, rows, q, branches) ==
  {br \in branches : \E d \in q.start..q.end, m \in PartyTypes :
     Cell(t, rows, br, d, m, Statuses) > 0}

DayTotal(t, rows, d, m) ==
  SumFunction([br \in Branches |-> Cell(t, rows, br, d, m, Statuses)])

(* The table has a row for each branch, a row TOTAL and a column for each  *)
(* meal of a day with guests.                                              *)
buildDateMatrixPdf(t, rows, q, branches) ==
  LET days == q.start..q.end
      Columns(d) == {m \in PartyTypes : DayTotal(t, rows, d, m) > 0}
  IN  [body |-> [br \in branches |-> [d \in days |-> [m \in Columns(d) |->
                   [pax |-> Cell(t, rows, br, d, m, Statuses),
                    T |-> Cell(t, rows, br, d, m, {"TENTATIVE"}),
                    C |-> Cell(t, rows, br, d, m, Statuses \ {"TENTATIVE"})]]]],
       foot |-> [d \in days |-> [m \in Columns(d) |-> DayTotal(t, rows, d, m)]],
       grandTotal |-> [m \in PartyTypes |-> SumFunction([d \in days |-> DayTotal(t, rows, d, m)])]]

(* One report and one fetch of rows for each range, and for the month its  *)
(* own report at the end.                                                  *)
sendDailyBookingReport ==
  [job |-> "mail", ranges |-> <<Span(today, today)>>, reads |-> 2]

sendMonthlyBookingReports ==
  [job |-> "mail", ranges |-> splitMonthWeeks(LastDay), reads |-> 9]

-----------------------------------------------------------------------------

Rows == [branchId : Branches, partyDate : {d \in PartyDays : d >= today},
         partyType : PartyTypes, status : {"TENTATIVE", "CONFIRMED"}, initialPax : NewPaxes]

NewRow(r) ==
  [branchId |-> r.branchId, partyDate |-> r.partyDate, partyType |-> r.partyType,
   status |-> r.status, initialPax |-> r.initialPax, adjustments |-> <<>>,
   expectedPax |-> r.initialPax, actualPax |-> NULL, isDeleted |-> FALSE]

(* What the write requests may turn a row into. *)
setBookingStatus(row) ==
  {[row EXCEPT !.status = s] :
     s \in {u \in AllowedTransitions[row.status] :
              u = "COMPLETED" => row.actualPax # NULL /\ row.partyDate <= today}}

setActualPax(row) ==
  {[row EXCEPT !.actualPax = n] :
     n \in IF row.status \in {"CONFIRMED", "COMPLETED"} THEN ActualPaxes ELSE {}}

Moved(row, d, m) == [row EXCEPT !.partyDate = d, !.partyType = m]

updateBooking(row) ==
  {Moved(row, d, m) : d \in {k \in PartyDays : k >= today \/ k = row.partyDate}, m \in PartyTypes}

deleteBooking(row) == {[row EXCEPT !.isDeleted = TRUE]}

addPaxAdjustment(row) ==
  {[row EXCEPT !.expectedPax = @ + n, !.adjustments = Append(@, [delta |-> n])] :
     n \in {k \in Deltas : row.expectedPax + k >= 0}}

Changed(row) ==
  setBookingStatus(row) \cup setActualPax(row)
  \cup (IF row.status \in Closed THEN {}
        ELSE updateBooking(row) \cup deleteBooking(row) \cup addPaxAdjustment(row))

(* A report or mail that still reads. *)
Reading(job) ==
  /\ asked # NULL
  /\ asked.job = job
  /\ IF job = "report" THEN seen = <<>> ELSE Len(seen) < asked.reads

WriteBooking ==
  /\ Reading("report") \/ Reading("mail")
  /\ Len(past) <= MaxWrites
  /\ \E b \in Bookings :
       booking' \in
         {[booking EXCEPT ![b] = row] :
            row \in IF booking[b] = NULL THEN {NewRow(r) : r \in Rows}
                    ELSE IF booking[b].isDeleted THEN {} ELSE Changed(booking[b])}
  /\ past' = Append(past, booking')
  /\ UNCHANGED <<today, asked, seen>>

AskReport ==
  /\ asked = NULL
  /\ asked' \in
       {[job |-> "report", query |-> q] :
          q \in {getDailyReport(today), getWeeklyReport(today), getMonthlyReport}}
       \cup {sendDailyBookingReport, sendMonthlyBookingReports}
  /\ past' = <<booking>>
  /\ UNCHANGED <<booking, today, seen>>

(* The queries of aggregateReport run in parallel. *)
ReadReport ==
  /\ Reading("report")
  /\ seen' \in [Queries -> 1..Len(past)]
  /\ UNCHANGED <<booking, today, asked, past>>

(* The reports and rows of a mail are read one after the other, each in    *)
(* one step: the queries of one report are ReadReport's concern.  Reports  *)
(* are made when they are read, as with a cold cache: one that             *)
(* getBookingReport had kept, for 20 seconds at most, is of an earlier     *)
(* moment, and what was written since is then written in between.          *)
ReadForMail ==
  /\ Reading("mail")
  /\ seen' = Append(seen, Len(past))
  /\ UNCHANGED <<booking, today, asked, past>>

BookingNext == WriteBooking \/ AskReport \/ ReadReport \/ ReadForMail

-----------------------------------------------------------------------------

Near(m, n, distance) == m - n <= distance /\ n - m <= distance

(* The six queries of a report tell of one table of bookings, or differ by *)
(* no more than the writes that came between them: the parties by status,  *)
(* by meal and by branch add up to one total, which the exported rows and  *)
(* the reports of the single days confirm, and so do the guests.           *)
FiguresAgree ==
  (asked # NULL /\ asked.job = "report" /\ seen # <<>>) =>
    LET F == aggregateReport([k \in Queries |-> past[seen[k]]], asked.query)
        torn == Max({seen[k] : k \in Queries}) - Min({seen[k] : k \in Queries})
        total == SumFunction(F.byStatus)
        known == F.branchBreakdown
    IN  /\ Near(total, SumFunction(F.byType["parties"]), torn)
        /\ Near(total, SumFunction([br \in DOMAIN known |-> known[br].total]), torn)
        /\ \A br \in DOMAIN known :
             /\ Near(known[br].total, SumFunction(known[br].byType["parties"]), torn)
             /\ known[br].confirmed <= known[br].total + torn
        /\ torn = 0 =>
             /\ LET t == past[seen["status"]]
                    K == exportBookingsExcel(t, asked.query)
                    days == asked.query.start..asked.query.end
                IN  /\ total = SumFunction([d \in days |->
                         Cardinality(reportWhere(t, [asked.query EXCEPT !.start = d, !.end = d]))])
                    /\ Cardinality(K) = Min({total, Limit})
                    /\ total <= Limit => Pax(t, K, "expectedPax") = F.pax["expectedPax"]
             /\ \A f \in {"expectedPax", "actualPax"} :
                  /\ F.pax[f] = SumFunction(F.byType[f])
                  /\ F.pax[f] = SumFunction([br \in DOMAIN known |-> known[br].pax[f]])

(* The matrix of a mail adds up: the row TOTAL is the sum of the rows of   *)
(* the branches and the guests of the mail's text are those of the matrix  *)
(* and those of cancelled parties, unless a booking was written between    *)
(* the report and the rows.  The weeks cover each month once, and their    *)
(* totals make the month's up to what was written meanwhile.               *)
MailAddsUp ==
  (asked # NULL /\ asked.job = "mail" /\ Len(seen) = asked.reads) =>
  LET Report(i, q) == aggregateReport([k \in Queries |-> past[seen[i]]], q)
      Parties(i, q) == toMailData(Report(i, q)).total
      weeks == DOMAIN asked.ranges
  IN  /\ asked.ranges = splitMonthWeeks(LastDay) =>
           \A n \in 28..31 : \A d \in 1..n : Cardinality({i \in 1..4 :
             d \in splitMonthWeeks(n)[i].start..splitMonthWeeks(n)[i].end}) = 1
      /\ \A i \in weeks : seen[2 * i - 1] = seen[2 * i] =>
           LET q == asked.ranges[i]
               t == past[seen[2 * i]]
               rows == fetchRangeRows(t, q)
               F == Report(2 * i, q)
               branches == MatrixBranches(t, rows, q, DOMAIN F.branchBreakdown)
               cancelled == Only(t, reportWhere(t, q), "status", "CANCELLED")
               table == buildDateMatrixPdf(t, rows, q, branches)
               Shown(m) == {d \in DOMAIN table.foot : m \in DOMAIN table.foot[d]}
           IN  \A m \in PartyTypes :
                 /\ \A d \in Shown(m) :
                      /\ table.foot[d][m] = SumFunction([br \in branches |-> table.body[br][d][m].pax])
                      /\ \A br \in branches : LET cell == table.body[br][d][m]
                                            IN  cell.pax = cell.T + cell.C
                 /\ table.grandTotal[m] = SumFunction([d \in Shown(m) |-> table.foot[d][m]])
                 /\ Parties(2 * i, q) <= Limit =>
                      toMailData(F).pax[m] =
                        table.grandTotal[m]
                        + Pax(t, Only(t, cancelled, "partyType", m), "expectedPax")
      /\ Len(asked.ranges) = 4 =>
           Near(SumFunction([i \in weeks |-> Parties(2 * i - 1, asked.ranges[i])]),
                Parties(9, getMonthlyReport), seen[9] - seen[1])

(* The views of one day tell the same: unless rows are cut off at a limit, *)
(* today's parties on the dashboard are those of the calendar and of the   *)
(* report, the open ones are upcoming, and a missing actual pax is warned  *)
(* about exactly for the bookings the list of the overdue shows.  (The     *)
(* views depend on no query that seen is about.)                           *)
ViewsAgree == (seen = <<>> /\ Among(booking, "all") # {}) =>
  /\ \A scope \in Scopes :
       LET D == getDashboard(scope)
           daily == [getDailyReport(today) EXCEPT !.scope = scope]
           F == aggregateReport([k \in Queries |-> booking], daily)
           W == getWarnings(scope)
           Warned(code) == {b \in DOMAIN W : code \in W[b]}
       IN  /\ D.byStatus = F.byStatus
           /\ D.expectedPax = F.pax["expectedPax"]
           /\ Cardinality(D.bookings) = Min({SumFunction(D.byStatus), Limit})
           /\ SumFunction(D.byType) = Cardinality(D.bookings)
           /\ SumFunction(D.byStatus) <= Limit =>
                /\ D.byType = F.byType["parties"]
                /\ D.bookings = getCalendar(scope, today, today)
                /\ {b \in D.bookings : booking[b].status \notin Closed} \subseteq getUpcoming(scope)
           /\ Cardinality(DOMAIN W) < Limit =>
                /\ Warned("ACTUAL_PAX_MISSING") =
                     UNION {getPaginatedBookings(scope, today - 7, today - 1, s, TRUE) :
                              s \in {"CONFIRMED", "COMPLETED"}}
                /\ Cardinality(getUpcoming(scope)) < Limit =>
                     Warned("TENTATIVE_TOMORROW") =
                       {b \in getUpcoming(scope) : /\ booking[b].status = "TENTATIVE"
                                                   /\ booking[b].partyDate = today + 1}
  /\ \A b \in Among(booking, "all") : getBookingById(b).expectedPax = booking[b].expectedPax

=============================================================================
