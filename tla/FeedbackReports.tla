--------------------------- MODULE FeedbackReports ---------------------------
(***************************************************************************)
(* Guest feedback and what is computed from it: feedback.service.ts,       *)
(* feedback.rating.ts, feedbackAggregation.ts, analytics.service.ts and    *)
(* the feedback parts of dashboard.service.ts and reports.service.ts.      *)
(*                                                                         *)
(* Time is counted in ticks, days have DayLength of them and begin at the  *)
(* multiples of it.  The cached analytics are two: the trends and branch   *)
(* performance, and the dashboard's summary, which is made from these and  *)
(* from fresh statistics.                                                  *)
(***************************************************************************)
EXTENDS Absent, Integers, Sequences, FiniteSets, FiniteSetsExt

CONSTANTS
  Venues,        \* the branches
  FeedbackIds,   \* what clients name their submissions by
  Sheets,        \* Sheets[id]: what is sent as id: its branch and ratings, one overall
  MaxSubmissions, \* bound: submissions in flight at the same time
  DayLength,
  Window,        \* INVALIDATION_COALESCE_MS
  StatsTTL, SummaryTTL,
  MonthLength,   \* in days
  ExportLimit,   \* REPORT_FETCH_LIMIT, REPORT_EXPORT_LIMIT
  MaxFeedback,   \* bound: submissions begun
  MaxTime        \* bound: ticks

Categories == {"food", "service", "environment", "event"}

ASSUME FeedbackAssumption ==
  /\ IsFiniteSet(Venues) /\ "all" \notin Venues
  /\ NULL \notin 1..5 \cup Venues
  /\ Sheets \in [FeedbackIds -> [branchId : Venues, form : [Categories -> 1..5 \cup {NULL}],
                                 overallRating : 1..5 \cup {NULL}]]
  /\ {DayLength, MonthLength, Window, StatsTTL, SummaryTTL} \subseteq Nat \ {0}
  /\ {ExportLimit, MaxSubmissions, MaxFeedback, MaxTime} \subseteq Nat

Submissions == 1..MaxSubmissions

VARIABLES
  feedback,   \* the rows, in the order they were stored
  venue,      \* venue[br]: "active", "inactive" or "deleted"
  submission, \* submission[r]: the handler running in slot r
  answered,   \* answered[id]: the rows that submissions of id were answered with
  begun,      \* submissions begun
  wiped,      \* the last invalidation: [at, rows]
  stats,      \* the cached branch performance, or NULL
  summary,    \* the cached summary, or NULL
  fetching,   \* what a read that found no entry has fetched, or NULL
  now

feedbackVars ==
  <<feedback, venue, submission, answered, begun, wiped, stats, summary, fetching, now>>

FeedbackInit ==
  /\ feedback = <<>>
  /\ venue = [br \in Venues |-> "active"]
  /\ submission = [r \in Submissions |-> NULL]
  /\ answered = [id \in FeedbackIds |-> {}]
  /\ begun = 0
  /\ wiped = [at |-> -Window, rows |-> 0]
  /\ stats = NULL
  /\ summary = NULL
  /\ fetching = NULL
  /\ now = 0

-----------------------------------------------------------------------------
(* feedback.rating.ts *)

toScore(stored) == IF stored >= 5 THEN 4 ELSE IF stored <= 2 THEN 1 ELSE stored - 1

(* LABEL_TO_STORED of averageToLabel, of the average sum / n. *)
Label(sum, n) ==
  IF 2 * sum >= 7 * n THEN 5 ELSE IF 2 * sum >= 5 * n THEN 4
  ELSE IF 2 * sum >= 3 * n THEN 3 ELSE 2

calculateOverallRating(form) ==
  LET rated == {c \in Categories : form[c] # NULL}
  IN  IF rated = {} THEN NULL
      ELSE Label(SumFunction([c \in rated |-> toScore(form[c])]), Cardinality(rated))

-----------------------------------------------------------------------------
(* feedback.service.ts: submitFeedback *)

(* The first free slot is taken.  A branch that is not active turns the    *)
(* guest away before anything is written.                                  *)
BeginSubmit(r) ==
  /\ submission[r] = NULL
  /\ \A q \in 1..(r - 1) : submission[q] # NULL
  /\ begun < MaxFeedback
  /\ \E id \in FeedbackIds :
       /\ venue[Sheets[id].branchId] = "active"
       /\ submission' = [submission EXCEPT ![r] = [op |-> "insert", id |-> id]]
  /\ begun' = begun + 1
  /\ UNCHANGED <<feedback, venue, answered, wiped, stats, summary, fetching, now>>

(* Mutant: nothing keeps feedback_id unique. *)
NeverSent(id) == {}

(* @unique: the rows that make an insert fail with P2002. *)
Sent(id) == {i \in DOMAIN feedback : feedback[i].feedbackId = id}

(* What the guest says overall counts only if no category is rated. *)
Insert(r) ==
  LET s == submission[r]
      derived == calculateOverallRating(Sheets[s.id].form)
  IN  /\ s # NULL
      /\ s.op = "insert"
      /\ IF Sent(s.id) = {}
         THEN /\ feedback' = Append(feedback,
                   [feedbackId |-> s.id, branchId |-> Sheets[s.id].branchId,
                    form |-> Sheets[s.id].form, submittedAt |-> now,
                    overallRating |-> IF derived = NULL THEN Sheets[s.id].overallRating
                                      ELSE derived])
              /\ submission' = [submission EXCEPT ![r] = [op |-> "invalidate"]]
              /\ answered' = [answered EXCEPT ![s.id] = @ \cup {Len(feedback) + 1}]
         ELSE /\ submission' = [submission EXCEPT ![r] = NULL]
              /\ answered' = [answered EXCEPT ![s.id] = @ \cup Sent(s.id)]
              /\ UNCHANGED feedback
      /\ UNCHANGED <<venue, begun, wiped, stats, summary, fetching, now>>

(* The process dies after the row is stored. *)
Die(r) ==
  /\ submission[r] # NULL
  /\ submission[r].op = "invalidate"
  /\ submission' = [submission EXCEPT ![r] = NULL]
  /\ UNCHANGED <<feedback, venue, answered, begun, wiped, stats, summary, fetching, now>>

(* branch.service.ts: setBranchStatus and deleteBranch *)
ChangeVenue ==
  /\ \E br \in Venues, status \in {"active", "inactive", "deleted"} :
       /\ venue[br] \notin {"deleted", status}
       /\ venue' = [venue EXCEPT ![br] = status]
  /\ UNCHANGED <<feedback, submission, answered, begun, wiped, stats, summary, fetching, now>>

-----------------------------------------------------------------------------
(* analytics.service.ts: the caches *)

(* Mutant: the prefix of the summary is missing. *)
WipeStats == stats' = NULL /\ UNCHANGED summary

Wipe == stats' = NULL /\ summary' = NULL

invalidateAnalyticsCaches(r) ==
  /\ submission[r] # NULL
  /\ submission[r].op = "invalidate"
  /\ submission' = [submission EXCEPT ![r] = NULL]
  /\ IF now - wiped.at < Window
     THEN UNCHANGED <<wiped, stats, summary, fetching>>
     ELSE /\ wiped' = [at |-> now, rows |-> Len(feedback)]
          /\ Wipe
          /\ fetching' = IF fetching = NULL THEN NULL ELSE [fetching EXCEPT !.late = TRUE]
  /\ UNCHANGED <<feedback, venue, answered, begun, now>>

(* withCache around getBranchPerformance, and the same around the summary, *)
(* which takes the branch performance from its cache.  An entry tells how  *)
(* much of feedback it counts (a summary: in its branch figures), and      *)
(* whether the caches were wiped between its query and its storing.        *)
getBranchPerformanceMisses ==
  /\ fetching = NULL
  /\ stats = NULL
  /\ fetching' = [of |-> "stats", rows |-> Len(feedback), inner |-> Len(feedback), late |-> FALSE]
  /\ UNCHANGED <<feedback, venue, submission, answered, begun, wiped, stats, summary, now>>

getDashboardSummaryMisses ==
  /\ fetching = NULL
  /\ summary = NULL
  /\ fetching' = [of |-> IF stats = NULL THEN "both" ELSE "summary",
                  rows |-> Len(feedback),
                  inner |-> IF stats = NULL THEN Len(feedback) ELSE stats.rows,
                  late |-> stats # NULL /\ stats.late]
  /\ UNCHANGED <<feedback, venue, submission, answered, begun, wiped, stats, summary, now>>

KeepFetched ==
  /\ fetching # NULL
  /\ fetching' = NULL
  /\ stats' = IF fetching.of = "summary" THEN stats
              ELSE [rows |-> fetching.inner, late |-> fetching.late, until |-> now + StatsTTL]
  /\ summary' = IF fetching.of = "stats" THEN summary
                ELSE [rows |-> fetching.rows, inner |-> fetching.inner,
                      late |-> fetching.late, until |-> now + SummaryTTL]
  /\ UNCHANGED <<feedback, venue, submission, answered, begun, wiped, now>>

(* Bound: a query takes less than a tick. *)
Tick ==
  /\ now < MaxTime
  /\ fetching = NULL
  /\ now' = now + 1
  /\ stats' = IF stats # NULL /\ stats.until <= now' THEN NULL ELSE stats
  /\ summary' = IF summary # NULL /\ summary.until <= now' THEN NULL ELSE summary
  /\ UNCHANGED <<feedback, venue, submission, answered, begun, wiped, fetching>>

FeedbackNext ==
  \/ \E r \in Submissions :
       BeginSubmit(r) \/ Insert(r) \/ Die(r) \/ invalidateAnalyticsCaches(r)
  \/ ChangeVenue \/ Tick
  \/ getBranchPerformanceMisses \/ getDashboardSummaryMisses \/ KeepFetched

-----------------------------------------------------------------------------
(* What the queries return, as sets of rows; "all" asks for every branch.  *)

(* Instants from and to, both included. *)
Between(scope, from, to) ==
  {i \in DOMAIN feedback : /\ scope \in {"all", feedback[i].branchId}
                           /\ feedback[i].submittedAt \in from..to}

(* buildFeedbackWhere: days from and to, the latter to its last instant. *)
buildFeedbackWhere(scope, from, to) == Between(scope, from * DayLength, (to + 1) * DayLength - 1)

Rated(S, ratings) == {i \in S : feedback[i].overallRating \in ratings}

getRatingStats(S) ==
  [totalFeedbacks |-> Cardinality(S),
   distribution |-> [n \in 1..5 \cup {NULL} |-> Cardinality(Rated(S, {n}))]]

(* Mutant: a rating of 2 is not negative. *)
CountOnes(distribution) == distribution[1]

getNegativeCount(distribution) == distribution[1] + distribution[2]

(* Math.round(100 * n / total) *)
Percent(n, total) == IF total = 0 THEN 0 ELSE (200 * n + total) \div (2 * total)

getRatingAnalytics(S) ==
  LET all == getRatingStats(S)
  IN  [n \in {k \in DOMAIN all.distribution : all.distribution[k] > 0} |->
         Percent(all.distribution[n], all.totalFeedbacks)]

getSatisfactionMetrics(S) ==
  LET all == getRatingStats(S)
      negative == getNegativeCount(all.distribution)
  IN  [negativeFeedbackCount |-> negative,
       satisfactionRate |-> Percent(all.totalFeedbacks - negative, all.totalFeedbacks)]

getPaginatedFeedbacks(scope, rating, from, to) ==
  Rated(buildFeedbackWhere(scope, from, to), {rating})

(* The months with feedback; without dates, those of the last year. *)
getMonthlyTrends(S) ==
  LET Month(i) == feedback[i].submittedAt \div (DayLength * MonthLength)
  IN  [m \in {Month(i) : i \in S} |-> Cardinality({i \in S : Month(i) = m})]

(* orderBy submittedAt desc, and take *)
Latest(S, take) == {i \in S : Cardinality({j \in S : j >= i}) <= take}

(* The negative ones may be counted by the query, too. *)
getPeriodSummary(S) == [total |-> Cardinality(S), negativeCount |-> Cardinality(Rated(S, 1..2))]

getNegativeFeedback(scope, from, to) ==
  Latest(Rated(buildFeedbackWhere(scope, from, to), 1..2), 50)

getRecentFeedback(scope, from, to) == Latest(buildFeedbackWhere(scope, from, to), 20)

(* dashboard.service.ts *)
getSummary(S) ==
  LET all == getRatingStats(S)
  IN  [totalFeedbacks |-> all.totalFeedbacks,
       negativeFeedbackCount |-> getNegativeCount(all.distribution)]

getBranchPerformance(from, to) ==
  [br \in {b \in Venues : venue[b] # "deleted"} |->
     LET S == buildFeedbackWhere(br, from, to)
     IN  [totalFeedbacks |-> Cardinality(S),
          positiveFeedback |-> Cardinality(Rated(S, {4, 5})),
          negativeFeedback |-> Cardinality(Rated(S, {1, 2}))]]

(* What a dashboard summary is made of, all read at once.  The week begins *)
(* on a Sunday, which day 0 is, but at this time of the day.               *)
getDashboardSummary(scope, from, to) ==
  LET S == buildFeedbackWhere(scope, from, to)
      d == getRatingStats(S).distribution
      branches == getBranchPerformance(from, to)
      Day(i) == feedback[i].submittedAt \div DayLength
      day == now \div DayLength
      Since(instant) == Cardinality(Between(scope, instant, now))
  IN  [sentiment |-> [positive |-> d[4] + d[5], neutral |-> d[3], negative |-> d[1] + d[2],
                      total |-> Cardinality(S)],
       trend |-> getMonthlyTrends(S),
       branchReports |-> [br \in {b \in DOMAIN branches : scope \in {"all", b}} |-> branches[br]],
       daily |-> [e \in {Day(i) : i \in S} |-> Cardinality({i \in S : Day(i) = e})],
       thisWeek |-> Since(now - (day % 7) * DayLength),
       thisMonth |-> Since((day - (day % MonthLength)) * DayLength)]

(* branch is NULL for one that was deleted. *)
getBranchRanking(from, to) ==
  [br \in {feedback[i].branchId : i \in buildFeedbackWhere("all", from, to)} |->
     [branch |-> IF venue[br] = "deleted" THEN NULL ELSE br,
      totalFeedbacks |-> Cardinality(buildFeedbackWhere(br, from, to))]]

(* reports.service.ts: start and end are both included, the end is the     *)
(* first instant of the next period.                                       *)
getDailyFeedback(scope, d) == Between(scope, d * DayLength, (d + 1) * DayLength)

getWeeklyFeedback(scope, d) == Between(scope, (d - 6) * DayLength, (d + 1) * DayLength)

(* A branch that was deleted is not found. *)
getBranchReport(br) ==
  IF venue[br] = "deleted" THEN NULL
  ELSE getPeriodSummary({i \in DOMAIN feedback : feedback[i].branchId = br})

exportExcel(scope, from, to) == Latest(buildFeedbackWhere(scope, from, to), ExportLimit)

-----------------------------------------------------------------------------

(* However often a client sends a feedback, also at the same time or after *)
(* a crash, one row is stored and every answer is that row.                *)
ResendsGetTheirRow ==
  \A id \in FeedbackIds : Cardinality(answered[id]) <= 1 /\ Cardinality(Sent(id)) <= 1

(* A cached figure lacks only feedback that came after the last wipe, or   *)
(* that a wipe between its query and its storing was meant for, and for no *)
(* longer than its own time to live; the summary's branch figures for no   *)
(* longer than both.  (Not one window, as analytics.service.ts:17 says: a  *)
(* wipe that was skipped is never made up for.)                            *)
AnalyticsLagIsBounded ==
  \A i \in DOMAIN feedback :
    LET age == now - feedback[i].submittedAt
        Lacks(entry, rows, ttl) ==
          i > rows => (entry.late \/ i > wiped.rows) /\ age < ttl
    IN  /\ stats # NULL => Lacks(stats, stats.rows, StatsTTL)
        /\ summary # NULL => /\ Lacks(summary, summary.rows, SummaryTTL)
                             /\ Lacks(summary, summary.inner, StatsTTL + SummaryTTL)

(* What was given so far, and the figures of it.                           *)

Today == now \div DayLength

Given == buildFeedbackWhere("all", 0, Today)

(* All is asked for; the distribution adds up, and what is negative to one *)
(* view is to all.                                                         *)
RatingsAgree ==
  LET all == getRatingStats(Given)
      sentiment == getDashboardSummary("all", 0, Today).sentiment
  IN  /\ Given = DOMAIN feedback
      /\ all.totalFeedbacks = SumFunction(all.distribution)
      /\ sentiment.positive + sentiment.neutral + sentiment.negative
           = sentiment.total - all.distribution[NULL]
      /\ {sentiment.negative, getSummary(Given).negativeFeedbackCount,
          getSatisfactionMetrics(Given).negativeFeedbackCount}
           = {getPeriodSummary(Given).negativeCount}

(* The days and the months add up; the dashboard's month is the one of the *)
(* trend, its week lacks what came on its Sunday before this time of the   *)
(* day; the reports of the days make that of the week, but that what is    *)
(* given at midnight is in both days.                                      *)
PeriodsAgree ==
  LET A == getDashboardSummary("all", 0, Today)
      month == Today \div MonthLength
      sunday == (Today - (Today % 7)) * DayLength
      At(instant) == Between("all", instant, instant)
  IN  /\ Cardinality(Given) = SumFunction(A.daily)
      /\ Cardinality(Given) = SumFunction(A.trend)
      /\ A.thisMonth = IF month \in DOMAIN A.trend THEN A.trend[month] ELSE 0
      /\ A.thisWeek + Cardinality(Between("all", sunday, sunday + (now % DayLength) - 1))
           = Cardinality(Between("all", sunday, now))
      /\ \A d \in 0..Today :
           /\ getDailyFeedback("all", d) = buildFeedbackWhere("all", d, d) \cup At((d + 1) * DayLength)
           /\ getWeeklyFeedback("all", d) = UNION {getDailyFeedback("all", e) : e \in (d - 6)..d}

(* The branches make the total but for those deleted, and their reports    *)
(* say what the table of all of them says.                                 *)
BranchesAgree ==
  LET branches == getBranchPerformance(0, Today)
      ranking == getBranchRanking(0, Today)
      gone == {br \in DOMAIN ranking : ranking[br].branch = NULL}
  IN  /\ getDashboardSummary("all", 0, Today).branchReports = branches
      /\ Cardinality(Given) = SumFunction([br \in DOMAIN branches |-> branches[br].totalFeedbacks])
                                + SumFunction([br \in gone |-> ranking[br].totalFeedbacks])
      /\ \A br \in DOMAIN branches :
           /\ getBranchReport(br).total = branches[br].totalFeedbacks
           /\ getBranchReport(br).negativeCount = branches[br].negativeFeedback

(* A list that no limit cuts off shows all there is, and of two lists that *)
(* are cut off the longer one begins with the other.                       *)
ListsAgree ==
  LET bad == getNegativeFeedback("all", 0, Today)
      sheet == exportExcel("all", 0, Today)
      recent == getRecentFeedback("all", 0, Today)
  IN  /\ Cardinality(bad) = Min({getPeriodSummary(Given).negativeCount, 50})
      /\ getPeriodSummary(Given).negativeCount <= 50 =>
           UNION {getPaginatedFeedbacks("all", n, 0, Today) : n \in 1..2} = bad
      /\ Cardinality(sheet) = Min({Cardinality(Given), ExportLimit})
      /\ sheet \subseteq recent \/ recent \subseteq sheet

(* The percentages make 100, but for what is rounded.                      *)
PercentagesAgree ==
  LET percent == getRatingAnalytics(Given)
      off == SumFunction(percent) - 100
  IN  Given # {} => /\ 2 * off <= Cardinality(DOMAIN percent)
                    /\ -2 * off <= Cardinality(DOMAIN percent)

(* A guest who rates all good, or all bad, is counted so, and a better     *)
(* rating of one category never makes the overall rating worse.            *)
RatingIsFair(form) ==
  LET rated == {form[c] : c \in Categories} \ {NULL}
      overall == calculateOverallRating(form)
  IN  rated # {} =>
        /\ rated \subseteq {4, 5} => overall \in {4, 5}
        /\ rated \subseteq {1, 2} => overall = 2
        /\ \A c \in Categories : form[c] \in 1..4 =>
             overall <= calculateOverallRating([form EXCEPT ![c] = @ + 1])

(* Every figure counts each feedback once, with the exceptions named above *)
(* (the ratings a guest may give are looked at once in a behaviour).       *)
FeedbackFiguresAgree ==
  /\ RatingsAgree /\ PeriodsAgree /\ BranchesAgree /\ ListsAgree /\ PercentagesAgree
  /\ (begun = 0 /\ now = 0 /\ fetching # NULL) =>
       \A form \in [Categories -> 1..5 \cup {NULL}] : RatingIsFair(form)

=============================================================================
