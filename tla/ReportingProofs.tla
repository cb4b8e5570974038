--------------------------- MODULE ReportingProofs ---------------------------
(***************************************************************************)
(* Theorems about what is read from the bookings, the feedback and the     *)
(* operations, for every value of the constants that their assumptions     *)
(* allow.                                                                  *)
(*                                                                         *)
(* Feedback: OneRow carries what answers say.  Lagging and Caught carry    *)
(* what cached figures may lack: how old it is, and what the last wipe has *)
(* to do with it, of the entries and of the query under way between them.  *)
(*                                                                         *)
(* Bookings: ReportsTyped says of which moments the queries of a report    *)
(* are, OneByOne that each moment differs from the next in one booking at  *)
(* most.  All else is arithmetic of sums over a table: figures are counts  *)
(* and totals over parts of a set, and queries n writes apart differ by n. *)
(*                                                                         *)
(* Operations: OperationsTyped is all that is needed of the tables; sums   *)
(* by rows and by columns make the same, and pages are quotients.          *)
(*                                                                         *)
(* Figures of the feedback: all was given up to now, so what the queries   *)
(* return are parts of the table; percentages are off by half for each.    *)
(***************************************************************************)
EXTENDS BookingReports, OperationsReports, BookingLogicProofs, SequenceTheorems

-----------------------------------------------------------------------------
(* Feedback. *)

FeedbackSpec == FeedbackInit /\ [][FeedbackNext]_feedbackVars

FeedbackRows ==
  [feedbackId : FeedbackIds, branchId : Venues, form : [Categories -> 1..5 \cup {NULL}],
   submittedAt : Nat, overallRating : 1..5 \cup {NULL}]

Fetching(f) ==
  /\ DOMAIN f = {"of", "rows", "inner", "late"}
  /\ f.of \in {"stats", "summary", "both"}
  /\ f.rows \in Nat /\ f.inner \in Nat
  /\ f.late \in BOOLEAN

Typed ==
  /\ feedback \in Seq(FeedbackRows)
  /\ \A i \in DOMAIN feedback : feedback[i].submittedAt <= now
  /\ DOMAIN submission = Submissions
  /\ \A r \in Submissions : submission[r] # NULL =>
       \/ submission[r].op = "insert" /\ submission[r].id \in FeedbackIds
       \/ submission[r].op = "invalidate"
  /\ DOMAIN answered = FeedbackIds
  /\ wiped.rows \in Nat /\ wiped.rows <= Len(feedback)
  /\ stats # NULL =>
       stats.rows \in Nat /\ stats.until \in Nat /\ stats.late \in BOOLEAN
  /\ summary # NULL =>
       /\ summary.rows \in Nat /\ summary.inner \in Nat
       /\ summary.until \in Nat /\ summary.late \in BOOLEAN
  /\ fetching # NULL => Fetching(fetching)
  /\ now \in Nat

OneRow ==
  /\ \A i, j \in DOMAIN feedback : feedback[i].feedbackId = feedback[j].feedbackId => i = j
  /\ \A id \in FeedbackIds : answered[id] \subseteq Sent(id)

(* Rows that came after the first n came less than age before the moment.  *)
Younger(n, age, moment) ==
  \A i \in DOMAIN feedback : i > n => feedback[i].submittedAt + age > moment

(* An entry lives for its time to live from its query on. *)
Lagging ==
  /\ stats # NULL => /\ stats.until \in now + 1 .. now + StatsTTL
                     /\ Younger(stats.rows, StatsTTL, stats.until - 1)
  /\ summary # NULL => /\ summary.until \in now + 1 .. now + SummaryTTL
                       /\ Younger(summary.rows, SummaryTTL, summary.until - 1)
                       /\ Younger(summary.inner, StatsTTL + SummaryTTL, summary.until - 1)
  /\ fetching # NULL => /\ Younger(fetching.rows, 1, now)
                        /\ fetching.of # "summary" => Younger(fetching.inner, 1, now)
                        /\ fetching.of = "summary" => Younger(fetching.inner, StatsTTL, now)

(* What the caches were wiped for is not in them, but for late entries. *)
Caught ==
  /\ stats # NULL => stats.late \/ stats.rows >= wiped.rows
  /\ summary # NULL =>
       summary.late \/ (summary.rows >= wiped.rows /\ summary.inner >= wiped.rows)
  /\ fetching # NULL =>
       fetching.late \/ (fetching.rows >= wiped.rows /\ fetching.inner >= wiped.rows)

-----------------------------------------------------------------------------
(* Types. *)

LEMMA TimesToLive ==
  ASSUME FeedbackAssumption
  PROVE  StatsTTL \in Nat \ {0} /\ SummaryTTL \in Nat \ {0}
  BY DEF FeedbackAssumption

(* What a guest is taken to say overall is a rating, or nothing. *)
LEMMA OverallIsRating ==
  ASSUME NEW form
  PROVE  calculateOverallRating(form) \in 1..5 \cup {NULL}
  <1>1. \A sum, n : Label(sum, n) \in 1..5
    BY DEF Label
  <1>. QED
    BY <1>1 DEF calculateOverallRating

(* The row a submission stores. *)
LEMMA InsertStep ==
  ASSUME FeedbackAssumption, Typed, NEW r \in Submissions, Insert(r)
  PROVE  /\ submission[r] # NULL /\ submission[r].id \in FeedbackIds
         /\ \/ /\ Sent(submission[r].id) = {}
               /\ \E row \in FeedbackRows : /\ row.feedbackId = submission[r].id
                                            /\ row.submittedAt = now
                                            /\ feedback' = Append(feedback, row)
               /\ submission' = [submission EXCEPT ![r] = [op |-> "invalidate"]]
               /\ answered' = [answered EXCEPT ![submission[r].id] = @ \cup {Len(feedback) + 1}]
            \/ /\ Sent(submission[r].id) # {}
               /\ submission' = [submission EXCEPT ![r] = NULL]
               /\ answered' = [answered EXCEPT ![submission[r].id] = @ \cup Sent(submission[r].id)]
               /\ UNCHANGED feedback
         /\ UNCHANGED <<venue, begun, wiped, stats, summary, fetching, now>>
  <1>. DEFINE id == submission[r].id
              derived == calculateOverallRating(Sheets[id].form)
              overall == IF derived = NULL THEN Sheets[id].overallRating ELSE derived
              row == [feedbackId |-> id, branchId |-> Sheets[id].branchId,
                      form |-> Sheets[id].form, submittedAt |-> now,
                      overallRating |-> overall]
  <1>1. submission[r] # NULL /\ submission[r].op = "insert" /\ id \in FeedbackIds
    BY DEF Insert, Typed
  <1>2. /\ Sheets[id].branchId \in Venues
        /\ Sheets[id].form \in [Categories -> 1..5 \cup {NULL}]
        /\ Sheets[id].overallRating \in 1..5 \cup {NULL}
    BY <1>1 DEF FeedbackAssumption
  <1>3. overall \in 1..5 \cup {NULL}
    BY <1>2, OverallIsRating
  <1>4. row = [feedbackId |-> id, branchId |-> Sheets[id].branchId,
               form |-> Sheets[id].form, submittedAt |-> now, overallRating |-> overall]
    OBVIOUS
  <1>5. Sent(id) = {} => feedback' = Append(feedback, row)
    BY DEF Insert
  <1>. HIDE DEF overall, row
  <1>6. row \in FeedbackRows /\ row.feedbackId = id /\ row.submittedAt = now
    BY <1>1, <1>2, <1>3, <1>4 DEF FeedbackRows, Typed
  <1>. QED
    BY <1>1, <1>5, <1>6 DEF Insert

LEMMA Appended ==
  ASSUME NEW rows \in Seq(FeedbackRows), NEW row \in FeedbackRows
  PROVE  /\ Append(rows, row) \in Seq(FeedbackRows)
         /\ Len(Append(rows, row)) = Len(rows) + 1
         /\ Len(rows) \in Nat
         /\ DOMAIN rows = 1..Len(rows)
         /\ DOMAIN Append(rows, row) = DOMAIN rows \cup {Len(rows) + 1}
         /\ Append(rows, row)[Len(rows) + 1] = row
         /\ \A i \in DOMAIN rows : Append(rows, row)[i] = rows[i]
  OBVIOUS

LEMMA NextTyped ==
  ASSUME FeedbackAssumption, Typed, [FeedbackNext]_feedbackVars
  PROVE  Typed'
  <1>1. Len(feedback) \in Nat
    BY DEF Typed
  <1>2. CASE UNCHANGED feedbackVars
    BY <1>2 DEF feedbackVars, Typed, Fetching
  <1>3. ASSUME NEW r \in Submissions, BeginSubmit(r)
        PROVE  Typed'
    <2>1. PICK id \in FeedbackIds :
            submission' = [submission EXCEPT ![r] = [op |-> "insert", id |-> id]]
      BY <1>3 DEF BeginSubmit
    <2>. QED
      BY <1>3, <2>1 DEF BeginSubmit, Typed, Fetching
  <1>4. ASSUME NEW r \in Submissions, Insert(r)
        PROVE  Typed'
    <2>1. submission[r].id \in FeedbackIds
          /\ UNCHANGED <<wiped, stats, summary, fetching, now>>
      BY <1>4, InsertStep
    <2>2. CASE UNCHANGED feedback
      <3>1. /\ submission' \in {[submission EXCEPT ![r] = NULL],
                                [submission EXCEPT ![r] = [op |-> "invalidate"]]}
            /\ DOMAIN answered' = FeedbackIds
        BY <1>4, InsertStep DEF Typed
      <3>. QED
        BY <2>1, <2>2, <3>1 DEF Typed, Fetching
    <2>3. CASE \E row \in FeedbackRows : /\ row.submittedAt = now
                                         /\ feedback' = Append(feedback, row)
      <3>1. PICK row \in FeedbackRows : row.submittedAt = now /\ feedback' = Append(feedback, row)
        BY <2>3
      <3>2. /\ feedback' \in Seq(FeedbackRows)
            /\ Len(feedback)' = Len(feedback) + 1
            /\ \A i \in DOMAIN feedback' : feedback'[i].submittedAt <= now
        BY <3>1, Appended DEF Typed
      <3>3. /\ submission' \in {[submission EXCEPT ![r] = NULL],
                                [submission EXCEPT ![r] = [op |-> "invalidate"]]}
            /\ DOMAIN answered' = FeedbackIds
        BY <1>4, InsertStep DEF Typed
      <3>4. \A s \in Submissions : submission'[s] # NULL =>
              \/ submission'[s].op = "insert" /\ submission'[s].id \in FeedbackIds
              \/ submission'[s].op = "invalidate"
        BY <3>3 DEF Typed
      <3>5. DOMAIN submission' = Submissions
        BY <3>3 DEF Typed
      <3>6. wiped'.rows \in Nat /\ wiped'.rows <= Len(feedback')
        BY <1>1, <2>1, <3>2 DEF Typed
      <3>7. fetching' # NULL => Fetching(fetching')
        BY <2>1 DEF Typed
      <3>. QED
        BY <2>1, <3>2, <3>3, <3>4, <3>5, <3>6, <3>7 DEF Typed
    <2>. QED
      BY <1>4, <2>2, <2>3, InsertStep
  <1>5. ASSUME NEW r \in Submissions, Die(r)
        PROVE  Typed'
    BY <1>5 DEF Die, Typed, Fetching
  <1>6. ASSUME NEW r \in Submissions, invalidateAnalyticsCaches(r)
        PROVE  Typed'
    <2>1. CASE UNCHANGED <<wiped, stats, summary, fetching>>
      BY <1>6, <2>1 DEF invalidateAnalyticsCaches, Typed, Fetching
    <2>2. CASE ~UNCHANGED <<wiped, stats, summary, fetching>>
      <3>1. /\ wiped' = [at |-> now, rows |-> Len(feedback)]
            /\ stats' = NULL /\ summary' = NULL
            /\ fetching' = IF fetching = NULL THEN NULL
                           ELSE [fetching EXCEPT !.late = TRUE]
        BY <1>6, <2>2 DEF invalidateAnalyticsCaches, Wipe
      <3>2. fetching' # NULL => Fetching(fetching')
        BY <3>1 DEF Typed, Fetching
      <3>3. wiped'.rows = Len(feedback)
        BY <3>1
      <3>. QED
        BY <1>1, <1>6, <3>1, <3>2, <3>3 DEF invalidateAnalyticsCaches, Typed, Fetching
    <2>. QED
      BY <2>1, <2>2
  <1>7. CASE ChangeVenue
    BY <1>7 DEF ChangeVenue, Typed, Fetching
  <1>8. CASE Tick
    <2>1. /\ now' = now + 1 /\ fetching' = NULL
          /\ stats' \in {stats, NULL} /\ summary' \in {summary, NULL}
      BY <1>8 DEF Tick
    <2>2. /\ now' \in Nat
          /\ \A i \in DOMAIN feedback : feedback[i].submittedAt <= now'
      <3>1. now \in Nat /\ now' \in Nat
        BY <2>1 DEF Typed
      <3>2. ASSUME NEW i \in DOMAIN feedback
            PROVE  feedback[i].submittedAt <= now'
        <4>1. feedback[i] \in FeedbackRows
          BY DEF Typed
        <4>2. feedback[i].submittedAt \in Nat /\ feedback[i].submittedAt <= now
          BY <4>1 DEF Typed, FeedbackRows
        <4>. QED
          BY <2>1, <3>1, <4>2
      <3>. QED
        BY <3>1, <3>2
    <2>. QED
      BY <1>8, <2>1, <2>2 DEF Tick, Typed
  <1>9. CASE getBranchPerformanceMisses
    <2>1. fetching' = [of |-> "stats", rows |-> Len(feedback), inner |-> Len(feedback),
                       late |-> FALSE]
      BY <1>9 DEF getBranchPerformanceMisses
    <2>2. Fetching(fetching')
      BY <1>1, <2>1 DEF Fetching
    <2>. QED
      BY <1>9, <2>2 DEF getBranchPerformanceMisses, Typed, Fetching
  <1>10. CASE getDashboardSummaryMisses
    <2>1. PICK of \in {"both", "summary"}, inner \in Nat, late \in BOOLEAN :
            fetching' = [of |-> of, rows |-> Len(feedback), inner |-> inner, late |-> late]
      <3>1. CASE stats = NULL
        BY <1>1, <1>10, <3>1 DEF getDashboardSummaryMisses
      <3>2. CASE stats # NULL
        BY <1>10, <3>2 DEF getDashboardSummaryMisses, Typed
      <3>. QED
        BY <3>1, <3>2
    <2>2. Fetching(fetching')
      BY <1>1, <2>1 DEF Fetching
    <2>. QED
      BY <1>10, <2>2 DEF getDashboardSummaryMisses, Typed, Fetching
  <1>11. CASE KeepFetched
    <2>1. Fetching(fetching) /\ fetching' = NULL /\ now \in Nat
      BY <1>11 DEF KeepFetched, Typed
    <2>2. stats' # NULL =>
            stats'.rows \in Nat /\ stats'.until \in Nat /\ stats'.late \in BOOLEAN
      <3>1. CASE stats' = stats
        BY <3>1 DEF Typed
      <3>2. CASE stats' = [rows |-> fetching.inner, late |-> fetching.late,
                           until |-> now + StatsTTL]
        BY <2>1, <3>2, TimesToLive DEF Fetching
      <3>. QED
        BY <1>11, <3>1, <3>2 DEF KeepFetched
    <2>3. summary' # NULL =>
            /\ summary'.rows \in Nat /\ summary'.inner \in Nat
            /\ summary'.until \in Nat /\ summary'.late \in BOOLEAN
      <3>1. CASE summary' = summary
        BY <3>1 DEF Typed
      <3>2. CASE summary' = [rows |-> fetching.rows, inner |-> fetching.inner,
                             late |-> fetching.late, until |-> now + SummaryTTL]
        BY <2>1, <3>2, TimesToLive DEF Fetching
      <3>. QED
        BY <1>11, <3>1, <3>2 DEF KeepFetched
    <2>. QED
      BY <1>11, <2>1, <2>2, <2>3 DEF KeepFetched, Typed
  <1>. QED
    BY <1>2, <1>3, <1>4, <1>5, <1>6, <1>7, <1>8, <1>9, <1>10, <1>11 DEF FeedbackNext

LEMMA InitTyped ==
  ASSUME FeedbackInit
  PROVE  Typed
  BY DEF FeedbackInit, Typed

LEMMA AlwaysTyped == FeedbackSpec => []Typed
  <1>1. Typed /\ [FeedbackNext]_feedbackVars => Typed'
    BY FeedbackAssumption, NextTyped
  <1>. QED
    BY <1>1, InitTyped, PTL DEF FeedbackSpec

-----------------------------------------------------------------------------
(* Answers. *)

(* Nothing but an insert touches the rows and what was answered with them. *)
LEMMA RowsStay ==
  ASSUME [FeedbackNext]_feedbackVars, \A r \in Submissions : ~Insert(r)
  PROVE  UNCHANGED <<feedback, answered>>
  <1>1. CASE UNCHANGED feedbackVars
    BY <1>1 DEF feedbackVars
  <1>2. CASE \E r \in Submissions :
               BeginSubmit(r) \/ Insert(r) \/ Die(r) \/ invalidateAnalyticsCaches(r)
    BY <1>2 DEF BeginSubmit, Die, invalidateAnalyticsCaches
  <1>3. CASE ChangeVenue \/ Tick
    BY <1>3 DEF ChangeVenue, Tick
  <1>4. CASE getBranchPerformanceMisses \/ getDashboardSummaryMisses \/ KeepFetched
    BY <1>4 DEF getBranchPerformanceMisses, getDashboardSummaryMisses, KeepFetched
  <1>. QED
    BY <1>1, <1>2, <1>3, <1>4 DEF FeedbackNext

LEMMA NextOneRow ==
  ASSUME FeedbackAssumption, Typed, OneRow, [FeedbackNext]_feedbackVars
  PROVE  OneRow'
  <1>1. CASE UNCHANGED <<feedback, answered>>
    BY <1>1 DEF OneRow, Sent
  <1>2. ASSUME NEW r \in Submissions, Insert(r)
        PROVE  OneRow'
    <2>1. PICK id \in FeedbackIds, n \in Nat : id = submission[r].id /\ n = Len(feedback) + 1
      BY <1>2, InsertStep DEF Typed
    <2>. DOMAIN answered = FeedbackIds
      BY DEF Typed
    <2>2. CASE /\ Sent(id) # {}
               /\ answered' = [answered EXCEPT ![id] = @ \cup Sent(id)]
               /\ UNCHANGED feedback
      <3>1. \A q \in FeedbackIds : answered'[q] \subseteq Sent(q)
        BY <2>1, <2>2 DEF OneRow
      <3>. QED
        BY <2>2, <3>1 DEF OneRow, Sent
    <2>3. CASE /\ Sent(id) = {}
               /\ \E row \in FeedbackRows : row.feedbackId = id /\ feedback' = Append(feedback, row)
               /\ answered' = [answered EXCEPT ![id] = @ \cup {n}]
      <3>1. PICK row \in FeedbackRows : row.feedbackId = id /\ feedback' = Append(feedback, row)
        BY <2>3
      <3>2. /\ DOMAIN feedback' = DOMAIN feedback \cup {n}
            /\ feedback'[n].feedbackId = id
            /\ \A i \in DOMAIN feedback : feedback'[i] = feedback[i]
        <4>1. feedback \in Seq(FeedbackRows)
          BY DEF Typed
        <4>. QED
          BY <2>1, <3>1, <4>1, Appended
      <3>3. \A i \in DOMAIN feedback : feedback[i].feedbackId # id
        BY <2>3 DEF Sent
      <3>4. \A i, j \in DOMAIN feedback' :
              feedback'[i].feedbackId = feedback'[j].feedbackId => i = j
        BY <3>2, <3>3 DEF OneRow
      <3>5. n \in Sent(id)' /\ \A q \in FeedbackIds : Sent(q) \subseteq Sent(q)'
        BY <3>2 DEF Sent
      <3>6. ASSUME NEW q \in FeedbackIds
            PROVE  answered'[q] \subseteq Sent(q)'
        <4>1. answered[q] \subseteq Sent(q)'
          BY <3>5 DEF OneRow
        <4>2. CASE q = id
          BY <2>3, <3>5, <4>1, <4>2
        <4>3. CASE q # id
          BY <2>3, <4>1, <4>3
        <4>. QED
          BY <4>2, <4>3
      <3>7. \A q \in FeedbackIds : (answered[q])' \subseteq Sent(q)'
        BY <3>6
      <3>. QED
        BY <3>4, <3>7 DEF OneRow
    <2>. QED
      BY <1>2, <2>1, <2>2, <2>3, InsertStep
  <1>. QED
    BY <1>1, <1>2, RowsStay

(* ResendsGetTheirRow: however often a guest's client sends a feedback, in *)
(* parallel or again after a crash, submitFeedback stores one row of it    *)
(* and answers every time with that row.                                   *)
THEOREM ResendsAreAnswered == FeedbackSpec => []ResendsGetTheirRow
  <1>1. FeedbackInit => OneRow
    BY DEF FeedbackInit, OneRow
  <1>2. Typed /\ OneRow /\ [FeedbackNext]_feedbackVars => OneRow'
    BY FeedbackAssumption, NextOneRow
  <1>3. ASSUME OneRow
        PROVE  ResendsGetTheirRow
    <2>1. ASSUME NEW S, \A i, j \in S : i = j
          PROVE  Cardinality(S) \in 0..1
      <3>1. CASE S = {}
        BY <3>1, FS_EmptySet
      <3>2. CASE S # {}
        <4>1. PICK i : S = {i}
          BY <2>1, <3>2
        <4>. QED
          BY <4>1, FS_Singleton
      <3>. QED
        BY <3>1, <3>2
    <2>2. ASSUME NEW id \in FeedbackIds
          PROVE  Cardinality(answered[id]) <= 1 /\ Cardinality(Sent(id)) <= 1
      <3>1. \A i, j \in Sent(id) : i = j
        BY <1>3 DEF OneRow, Sent
      <3>2. \A i, j \in answered[id] : i = j
        BY <1>3, <3>1 DEF OneRow
      <3>3. Cardinality(Sent(id)) \in 0..1 /\ Cardinality(answered[id]) \in 0..1
        BY <2>1, <3>1, <3>2
      <3>. QED
        BY <3>3
    <2>. QED
      BY <2>2 DEF ResendsGetTheirRow
  <1>. QED
    BY <1>1, <1>2, <1>3, AlwaysTyped, PTL DEF FeedbackSpec

-----------------------------------------------------------------------------
(* What cached figures lack. *)

LEMMA RowsAreDated ==
  ASSUME Typed
  PROVE  \A i \in DOMAIN feedback : i \in Nat /\ feedback[i].submittedAt \in Nat
  <1>1. \A i \in DOMAIN feedback : i \in Nat /\ feedback[i] \in FeedbackRows
    BY DEF Typed
  <1>. QED
    BY <1>1 DEF FeedbackRows

(* A row is as old as it was, or was stored just now. *)
LEMMA RowsGrow ==
  ASSUME FeedbackAssumption, Typed, Typed', [FeedbackNext]_feedbackVars
  PROVE  \A i \in DOMAIN feedback' :
           /\ i \in Nat /\ feedback'[i].submittedAt \in Nat
           /\ \/ i \in DOMAIN feedback /\ feedback'[i].submittedAt = feedback[i].submittedAt
              \/ feedback'[i].submittedAt = now
  <1>1. \A i \in DOMAIN feedback' : i \in Nat /\ feedback'[i].submittedAt \in Nat
    <2>1. feedback' \in Seq(FeedbackRows)
      BY DEF Typed
    <2>2. \A i \in DOMAIN feedback' : i \in Nat /\ feedback'[i] \in FeedbackRows
      BY <2>1
    <2>. QED
      BY <2>2 DEF FeedbackRows
  <1>2. CASE UNCHANGED feedback
    BY <1>1, <1>2
  <1>3. ASSUME NEW row \in FeedbackRows, row.submittedAt = now, feedback' = Append(feedback, row)
        PROVE  \A i \in DOMAIN feedback' :
                 \/ i \in DOMAIN feedback /\ feedback'[i] = feedback[i]
                 \/ feedback'[i] = row
    BY <1>3, Appended DEF Typed
  <1>4. \/ UNCHANGED feedback
        \/ \E row \in FeedbackRows : row.submittedAt = now /\ feedback' = Append(feedback, row)
    <2>1. CASE \E r \in Submissions : Insert(r)
      BY <2>1, InsertStep
    <2>2. CASE \A r \in Submissions : ~Insert(r)
      BY <2>2, RowsStay
    <2>. QED
      BY <2>1, <2>2
  <1>. QED
    BY <1>1, <1>2, <1>3, <1>4

(* What a row lacked then, and what it lacks by now. *)
LEMMA StaysYounger ==
  ASSUME FeedbackAssumption, Typed, Typed', [FeedbackNext]_feedbackVars,
         NEW n \in Nat, NEW age \in Nat, NEW moment \in Nat,
         Younger(n, age, moment), now + age > moment
  PROVE  Younger(n, age, moment)'
  <1>1. now \in Nat
    BY DEF Typed
  <1>2. ASSUME NEW i \in DOMAIN feedback', i > n
        PROVE  feedback'[i].submittedAt + age > moment
    BY <1>1, <1>2, RowsGrow DEF Younger
  <1>. QED
    BY <1>2 DEF Younger

(* What stays in a cache, or under way to it, is no later than it was. *)
LEMMA EntriesStay ==
  ASSUME FeedbackAssumption, Typed, Typed', Lagging, [FeedbackNext]_feedbackVars, now' = now
  PROVE  /\ stats # NULL /\ stats' = stats =>
              /\ stats'.until \in now' + 1 .. now' + StatsTTL
              /\ Younger(stats.rows, StatsTTL, stats.until - 1)'
         /\ summary # NULL /\ summary' = summary =>
              /\ summary'.until \in now' + 1 .. now' + SummaryTTL
              /\ Younger(summary.rows, SummaryTTL, summary.until - 1)'
              /\ Younger(summary.inner, StatsTTL + SummaryTTL, summary.until - 1)'
         /\ fetching # NULL /\ fetching'.of = fetching.of
            /\ fetching'.rows = fetching.rows /\ fetching'.inner = fetching.inner =>
              /\ Younger(fetching.rows, 1, now)'
              /\ fetching'.of # "summary" => Younger(fetching.inner, 1, now)'
              /\ fetching'.of = "summary" => Younger(fetching.inner, StatsTTL, now)'
  <1>. now \in Nat /\ StatsTTL \in Nat \ {0} /\ SummaryTTL \in Nat \ {0}
    BY TimesToLive DEF Typed
  <1>1. ASSUME stats # NULL, stats' = stats
        PROVE  /\ stats'.until \in now' + 1 .. now' + StatsTTL
               /\ Younger(stats.rows, StatsTTL, stats.until - 1)'
    <2>1. PICK n \in Nat, u \in Nat : n = stats.rows /\ u = stats.until - 1
      BY <1>1 DEF Typed, Lagging
    <2>2. stats.until \in now + 1 .. now + StatsTTL /\ Younger(n, StatsTTL, u)
      BY <1>1, <2>1 DEF Lagging
    <2>3. now + StatsTTL > u
      BY <2>1, <2>2
    <2>4. Younger(n, StatsTTL, u)'
      BY <2>2, <2>3, StaysYounger
    <2>. QED
      BY <1>1, <2>1, <2>2, <2>4 DEF Younger
  <1>2. ASSUME summary # NULL, summary' = summary
        PROVE  /\ summary'.until \in now' + 1 .. now' + SummaryTTL
               /\ Younger(summary.rows, SummaryTTL, summary.until - 1)'
               /\ Younger(summary.inner, StatsTTL + SummaryTTL, summary.until - 1)'
    <2>1. PICK n \in Nat, m \in Nat, u \in Nat :
            n = summary.rows /\ m = summary.inner /\ u = summary.until - 1
      BY <1>2 DEF Typed, Lagging
    <2>2. /\ summary.until \in now + 1 .. now + SummaryTTL
          /\ Younger(n, SummaryTTL, u)
          /\ Younger(m, StatsTTL + SummaryTTL, u)
      BY <1>2, <2>1 DEF Lagging
    <2>3. now + SummaryTTL > u /\ now + (StatsTTL + SummaryTTL) > u
      BY <2>1, <2>2
    <2>4. Younger(n, SummaryTTL, u)'
      BY <2>2, <2>3, StaysYounger
    <2>5. Younger(m, StatsTTL + SummaryTTL, u)'
      BY <2>2, <2>3, StaysYounger
    <2>. QED
      BY <1>2, <2>1, <2>2, <2>4, <2>5 DEF Younger
  <1>3. ASSUME fetching # NULL, fetching'.of = fetching.of,
               fetching'.rows = fetching.rows, fetching'.inner = fetching.inner
        PROVE  /\ Younger(fetching.rows, 1, now)'
               /\ fetching'.of # "summary" => Younger(fetching.inner, 1, now)'
               /\ fetching'.of = "summary" => Younger(fetching.inner, StatsTTL, now)'
    <2>1. PICK n \in Nat, m \in Nat, t \in Nat :
            n = fetching.rows /\ m = fetching.inner /\ t = now
      BY <1>3 DEF Typed, Fetching
    <2>2. /\ Younger(n, 1, t)
          /\ fetching.of # "summary" => Younger(m, 1, t)
          /\ fetching.of = "summary" => Younger(m, StatsTTL, t)
      BY <1>3, <2>1 DEF Lagging
    <2>3. Younger(n, 1, t)'
      BY <2>1, <2>2, StaysYounger
    <2>4. fetching.of # "summary" => Younger(m, 1, t)'
      BY <2>1, <2>2, StaysYounger
    <2>5. fetching.of = "summary" => Younger(m, StatsTTL, t)'
      BY <2>1, <2>2, StaysYounger
    <2>. QED
      BY <1>3, <2>1, <2>3, <2>4, <2>5 DEF Younger
  <1>. QED
    BY <1>1, <1>2, <1>3

LEMMA NextLagging ==
  ASSUME FeedbackAssumption, Typed, Typed', Lagging, [FeedbackNext]_feedbackVars
  PROVE  Lagging'
  <1>. now \in Nat /\ StatsTTL \in Nat \ {0} /\ SummaryTTL \in Nat \ {0}
    BY TimesToLive DEF Typed
  <1>. Len(feedback) \in Nat /\ DOMAIN feedback = 1..Len(feedback)
    BY DEF Typed
  <1>1. CASE UNCHANGED <<stats, summary, fetching, now>>
    BY <1>1, EntriesStay DEF Lagging
  <1>2. ASSUME NEW r \in Submissions, invalidateAnalyticsCaches(r)
        PROVE  Lagging'
    <2>1. CASE stats' = NULL /\ summary' = NULL /\ fetching = NULL /\ fetching' = NULL
      BY <2>1 DEF Lagging
    <2>2. CASE /\ stats' = NULL /\ summary' = NULL /\ fetching # NULL
               /\ fetching' = [fetching EXCEPT !.late = TRUE]
      <3>1. /\ fetching'.of = fetching.of /\ fetching'.rows = fetching.rows
            /\ fetching'.inner = fetching.inner
        BY <2>2 DEF Typed, Fetching
      <3>2. now' = now
        BY <1>2 DEF invalidateAnalyticsCaches
      <3>. QED
        BY <2>2, <3>1, <3>2, EntriesStay DEF Lagging
    <2>. QED
      BY <1>1, <1>2, <2>1, <2>2 DEF invalidateAnalyticsCaches, Wipe
  <1>3. CASE Tick
    <2>1. /\ now' = now + 1 /\ fetching' = NULL /\ UNCHANGED feedback
          /\ stats' # NULL => stats' = stats /\ stats.until > now'
          /\ summary' # NULL => summary' = summary /\ summary.until > now'
      <3>1. now' = now + 1 /\ fetching' = NULL /\ UNCHANGED feedback
        BY <1>3, Zenon DEF Tick
      <3>2. /\ stats' = IF stats # NULL /\ stats.until <= now' THEN NULL ELSE stats
            /\ summary' = IF summary # NULL /\ summary.until <= now' THEN NULL ELSE summary
        BY <1>3, Zenon DEF Tick
      <3>3. ASSUME stats' # NULL
            PROVE  stats' = stats /\ stats.until > now'
        <4>1. stats' = stats /\ ~(stats.until <= now') /\ stats # NULL
          BY <3>2, <3>3
        <4>2. stats.until \in Nat /\ now' \in Nat
          BY <4>1 DEF Typed
        <4>. QED
          BY <4>1, <4>2
      <3>4. ASSUME summary' # NULL
            PROVE  summary' = summary /\ summary.until > now'
        <4>1. summary' = summary /\ ~(summary.until <= now') /\ summary # NULL
          BY <3>2, <3>4
        <4>2. summary.until \in Nat /\ now' \in Nat
          BY <4>1 DEF Typed
        <4>. QED
          BY <4>1, <4>2
      <3>. QED
        BY <3>1, <3>3, <3>4
    <2>2. stats' # NULL => /\ stats'.until \in now' + 1 .. now' + StatsTTL
                           /\ Younger(stats.rows, StatsTTL, stats.until - 1)'
      BY <2>1 DEF Lagging, Younger
    <2>3. summary' # NULL =>
            /\ summary'.until \in now' + 1 .. now' + SummaryTTL
            /\ Younger(summary.rows, SummaryTTL, summary.until - 1)'
            /\ Younger(summary.inner, StatsTTL + SummaryTTL, summary.until - 1)'
      BY <2>1 DEF Lagging, Younger
    <2>. QED
      BY <2>1, <2>2, <2>3 DEF Lagging
  <1>4. CASE getBranchPerformanceMisses
    <2>1. /\ UNCHANGED <<feedback, stats, summary, now>>
          /\ fetching' = [of |-> "stats", rows |-> Len(feedback), inner |-> Len(feedback),
                          late |-> FALSE]
      BY <1>4 DEF getBranchPerformanceMisses
    <2>2. \A i \in DOMAIN feedback' : ~(i > fetching'.rows) /\ ~(i > fetching'.inner)
      BY <2>1
    <2>3. fetching'.of # "summary"
      BY <2>1
    <2>. QED
      BY <2>1, <2>2, <2>3, EntriesStay DEF Lagging, Younger
  <1>5. CASE getDashboardSummaryMisses
    <2>1. /\ UNCHANGED <<feedback, stats, summary, now>>
          /\ fetching'.of = IF stats = NULL THEN "both" ELSE "summary"
          /\ fetching'.rows = Len(feedback)
          /\ fetching'.inner = IF stats = NULL THEN Len(feedback) ELSE stats.rows
      BY <1>5 DEF getDashboardSummaryMisses
    <2>2. Younger(fetching.rows, 1, now)'
      BY <2>1 DEF Younger
    <2>3. fetching'.of # "summary" => Younger(fetching.inner, 1, now)'
      BY <2>1 DEF Younger
    <2>4. fetching'.of = "summary" => Younger(fetching.inner, StatsTTL, now)'
      <3>1. SUFFICES ASSUME stats # NULL
                     PROVE  Younger(fetching.inner, StatsTTL, now)'
        BY <2>1
      <3>2. /\ \A i \in DOMAIN feedback :
                 i > stats.rows => feedback[i].submittedAt + StatsTTL > stats.until - 1
            /\ stats.until \in now + 1 .. now + StatsTTL
        BY <3>1 DEF Lagging, Younger
      <3>3. ASSUME NEW i \in DOMAIN feedback, i > stats.rows
            PROVE  feedback[i].submittedAt + StatsTTL > now
        <4>1. feedback[i].submittedAt \in Nat /\ stats.until \in Int /\ stats.until >= now + 1
          BY <3>2, RowsAreDated
        <4>2. feedback[i].submittedAt + StatsTTL > stats.until - 1
          BY <3>2, <3>3
        <4>3. PICK a \in Nat, n \in Nat, t \in Nat, u \in Int :
                a = feedback[i].submittedAt /\ n = now /\ t = StatsTTL /\ u = stats.until
          BY <4>1
        <4>4. u >= n + 1 /\ a + t > u - 1
          BY <4>1, <4>2, <4>3
        <4>5. a + t > n
          BY <4>4
        <4>. QED
          BY <4>3, <4>5
      <3>. QED
        BY <2>1, <3>1, <3>3 DEF Younger
    <2>. QED
      BY <2>1, <2>2, <2>3, <2>4, EntriesStay DEF Lagging
  <1>6. CASE KeepFetched
    <2>1. /\ fetching # NULL /\ fetching' = NULL /\ UNCHANGED <<feedback, now>>
          /\ Fetching(fetching)
      BY <1>6 DEF KeepFetched, Typed
    <2>2. \A i \in DOMAIN feedback : i \in Nat /\ feedback[i].submittedAt \in Nat
      BY RowsAreDated
    <2>3. /\ \A i \in DOMAIN feedback :
               i > fetching.rows => feedback[i].submittedAt + 1 > now
          /\ \A i \in DOMAIN feedback :
               i > fetching.inner => feedback[i].submittedAt + StatsTTL > now
          /\ fetching.of # "summary" => \A i \in DOMAIN feedback :
               i > fetching.inner => feedback[i].submittedAt + 1 > now
      BY <2>1, <2>2 DEF Lagging, Younger
    <2>5. stats' # NULL => /\ stats'.until \in now' + 1 .. now' + StatsTTL
                           /\ Younger(stats.rows, StatsTTL, stats.until - 1)'
      <3>1. CASE fetching.of = "summary"
        BY <1>6, <2>1, <3>1, EntriesStay DEF KeepFetched
      <3>2. CASE fetching.of # "summary"
        <4>1. stats'.rows = fetching.inner /\ stats'.until = now + StatsTTL
          BY <1>6, <3>2 DEF KeepFetched
        <4>2. stats'.until \in now' + 1 .. now' + StatsTTL
          BY <2>1, <4>1
        <4>3. ASSUME NEW i \in DOMAIN feedback, i > fetching.inner
              PROVE  feedback[i].submittedAt + StatsTTL > now + StatsTTL - 1
          <5>1. PICK a \in Nat, n \in Nat, t \in Nat :
                  a = feedback[i].submittedAt /\ n = now /\ t = StatsTTL
            BY <2>2
          <5>2. a + 1 > n
            BY <2>2, <2>3, <3>2, <4>3, <5>1
          <5>3. a + t > n + t - 1
            BY <5>2
          <5>. QED
            BY <5>1, <5>3
        <4>4. UNCHANGED feedback /\ stats'.until - 1 = now + StatsTTL - 1
          BY <2>1, <4>1
        <4>5. Younger(stats.rows, StatsTTL, stats.until - 1)'
          BY <4>1, <4>3, <4>4 DEF Younger
        <4>. QED
          BY <4>2, <4>5
      <3>. QED
        BY <3>1, <3>2
    <2>6. summary' # NULL =>
            /\ summary'.until \in now' + 1 .. now' + SummaryTTL
            /\ Younger(summary.rows, SummaryTTL, summary.until - 1)'
            /\ Younger(summary.inner, StatsTTL + SummaryTTL, summary.until - 1)'
      <3>1. CASE fetching.of = "stats"
        BY <1>6, <2>1, <3>1, EntriesStay DEF KeepFetched
      <3>2. CASE fetching.of # "stats"
        <4>1. /\ summary'.rows = fetching.rows /\ summary'.inner = fetching.inner
              /\ summary'.until = now + SummaryTTL
          BY <1>6, <3>2 DEF KeepFetched
        <4>2. summary'.until \in now' + 1 .. now' + SummaryTTL
          BY <2>1, <4>1
        <4>3. ASSUME NEW i \in DOMAIN feedback, i > fetching.rows
              PROVE  feedback[i].submittedAt + SummaryTTL > now + SummaryTTL - 1
          <5>1. PICK a \in Nat, n \in Nat, s \in Nat :
                  a = feedback[i].submittedAt /\ n = now /\ s = SummaryTTL
            BY <2>2
          <5>2. a + 1 > n
            BY <2>2, <2>3, <4>3, <5>1
          <5>3. a + s > n + s - 1
            BY <5>2
          <5>. QED
            BY <5>1, <5>3
        <4>4. ASSUME NEW i \in DOMAIN feedback, i > fetching.inner
              PROVE  feedback[i].submittedAt + (StatsTTL + SummaryTTL) > now + SummaryTTL - 1
          <5>1. PICK a \in Nat, n \in Nat, t \in Nat, s \in Nat :
                  /\ a = feedback[i].submittedAt /\ n = now /\ t = StatsTTL /\ s = SummaryTTL
            BY <2>2
          <5>2. a + t > n
            BY <2>2, <2>3, <4>4, <5>1
          <5>3. a + (t + s) > n + s - 1
            BY <5>2
          <5>. QED
            BY <5>1, <5>3
        <4>5. UNCHANGED feedback /\ summary'.until - 1 = now + SummaryTTL - 1
          BY <2>1, <4>1
        <4>6. Younger(summary.rows, SummaryTTL, summary.until - 1)'
          BY <4>1, <4>3, <4>5 DEF Younger
        <4>7. Younger(summary.inner, StatsTTL + SummaryTTL, summary.until - 1)'
          BY <4>1, <4>4, <4>5 DEF Younger
        <4>. QED
          BY <4>2, <4>6, <4>7
      <3>. QED
        BY <3>1, <3>2
    <2>. QED
      BY <2>1, <2>5, <2>6 DEF Lagging
  <1>7. CASE UNCHANGED feedbackVars
    BY <1>1, <1>7 DEF feedbackVars
  <1>8. ASSUME NEW r \in Submissions, BeginSubmit(r) \/ Insert(r) \/ Die(r)
        PROVE  Lagging'
    BY <1>1, <1>8 DEF BeginSubmit, Insert, Die
  <1>9. CASE ChangeVenue
    BY <1>1, <1>9 DEF ChangeVenue
  <1>. QED
    BY <1>2, <1>3, <1>4, <1>5, <1>6, <1>7, <1>8, <1>9 DEF FeedbackNext

LEMMA NextCaught ==
  ASSUME FeedbackAssumption, Typed, Typed', Caught, [FeedbackNext]_feedbackVars
  PROVE  Caught'
  <1>. Len(feedback) \in Nat /\ wiped.rows \in Nat /\ wiped.rows <= Len(feedback)
    BY DEF Typed
  <1>1. CASE UNCHANGED <<wiped, stats, summary, fetching>>
    BY <1>1 DEF Caught
  <1>2. ASSUME NEW r \in Submissions, invalidateAnalyticsCaches(r)
        PROVE  Caught'
    <2>1. CASE /\ stats' = NULL /\ summary' = NULL
               /\ fetching' = IF fetching = NULL THEN NULL ELSE [fetching EXCEPT !.late = TRUE]
      <3>1. fetching' # NULL => fetching'.late
        BY <2>1 DEF Typed, Fetching
      <3>. QED
        BY <2>1, <3>1 DEF Caught
    <2>. QED
      BY <1>1, <1>2, <2>1 DEF invalidateAnalyticsCaches, Wipe
  <1>3. CASE Tick
    BY <1>3 DEF Tick, Caught
  <1>4. CASE getBranchPerformanceMisses
    <2>1. /\ fetching'.rows = Len(feedback) /\ fetching'.inner = Len(feedback)
          /\ UNCHANGED <<wiped, stats, summary>>
      BY <1>4 DEF getBranchPerformanceMisses
    <2>. QED
      BY <2>1 DEF Caught
  <1>5. CASE getDashboardSummaryMisses
    <2>1. /\ fetching'.rows = Len(feedback)
          /\ fetching'.inner = IF stats = NULL THEN Len(feedback) ELSE stats.rows
          /\ fetching'.late <=> stats # NULL /\ stats.late
          /\ UNCHANGED <<wiped, stats, summary>>
      <3>. DEFINE late == stats # NULL /\ stats.late
      <3>1. late \in BOOLEAN
        BY DEF Typed
      <3>2. fetching' = [of |-> IF stats = NULL THEN "both" ELSE "summary",
                         rows |-> Len(feedback),
                         inner |-> IF stats = NULL THEN Len(feedback) ELSE stats.rows,
                         late |-> late]
        BY <1>5 DEF getDashboardSummaryMisses
      <3>3. late <=> stats # NULL /\ stats.late
        OBVIOUS
      <3>. HIDE DEF late
      <3>4. fetching'.late <=> late
        BY <3>1, <3>2
      <3>5. /\ fetching'.rows = Len(feedback)
            /\ fetching'.inner = IF stats = NULL THEN Len(feedback) ELSE stats.rows
        BY <3>2
      <3>. QED
        BY <1>5, <3>3, <3>4, <3>5 DEF getDashboardSummaryMisses
    <2>. QED
      BY <2>1 DEF Caught
  <1>6. CASE KeepFetched
    <2>1. /\ fetching # NULL /\ fetching' = NULL /\ UNCHANGED wiped
          /\ fetching.late \in BOOLEAN
      BY <1>6 DEF KeepFetched, Typed, Fetching
    <2>2. stats' # NULL => stats'.late \/ stats'.rows >= wiped.rows
      <3>1. CASE fetching.of = "summary"
        BY <1>6, <3>1 DEF KeepFetched, Caught
      <3>2. CASE fetching.of # "summary"
        <4>1. stats'.rows = fetching.inner /\ (stats'.late <=> fetching.late)
          BY <1>6, <2>1, <3>2 DEF KeepFetched
        <4>. QED
          BY <2>1, <4>1 DEF Caught
      <3>. QED
        BY <3>1, <3>2
    <2>3. summary' # NULL =>
            summary'.late \/ (summary'.rows >= wiped.rows /\ summary'.inner >= wiped.rows)
      <3>1. CASE fetching.of = "stats"
        BY <1>6, <3>1 DEF KeepFetched, Caught
      <3>2. CASE fetching.of # "stats"
        <4>1. /\ summary'.rows = fetching.rows /\ summary'.inner = fetching.inner
              /\ summary'.late <=> fetching.late
          BY <1>6, <2>1, <3>2 DEF KeepFetched
        <4>. QED
          BY <2>1, <4>1 DEF Caught
      <3>. QED
        BY <3>1, <3>2
    <2>. QED
      BY <2>1, <2>2, <2>3 DEF Caught
  <1>7. CASE UNCHANGED feedbackVars
    BY <1>1, <1>7 DEF feedbackVars
  <1>8. ASSUME NEW r \in Submissions, BeginSubmit(r) \/ Insert(r) \/ Die(r)
        PROVE  Caught'
    BY <1>1, <1>8 DEF BeginSubmit, Insert, Die
  <1>9. CASE ChangeVenue
    BY <1>1, <1>9 DEF ChangeVenue
  <1>. QED
    BY <1>2, <1>3, <1>4, <1>5, <1>6, <1>7, <1>8, <1>9 DEF FeedbackNext

(* AnalyticsLagIsBounded: what getBranchPerformance and the dashboard's    *)
(* summary answer from their caches lacks only feedback that the last wipe *)
(* did not know of, or that a wipe overtook while the query was under way, *)
(* and lacks it for a time to live, or for both.                           *)
THEOREM CachedFiguresLagBriefly == FeedbackSpec => []AnalyticsLagIsBounded
  <1>1. FeedbackInit => Lagging /\ Caught
    BY DEF FeedbackInit, Lagging, Caught
  <1>2. Typed /\ Typed' /\ Lagging /\ [FeedbackNext]_feedbackVars => Lagging'
    BY FeedbackAssumption, NextLagging
  <1>3. Typed /\ Typed' /\ Caught /\ [FeedbackNext]_feedbackVars => Caught'
    BY FeedbackAssumption, NextCaught
  <1>4. ASSUME Typed, Lagging, Caught
        PROVE  AnalyticsLagIsBounded
    <2>. now \in Nat /\ StatsTTL \in Nat \ {0} /\ SummaryTTL \in Nat \ {0}
         /\ wiped.rows \in Nat
      BY <1>4, FeedbackAssumption, TimesToLive DEF Typed
    <2>1. \A i \in DOMAIN feedback : i \in Nat /\ feedback[i].submittedAt \in Nat
      BY <1>4, RowsAreDated
    <2>2. stats # NULL => \A i \in DOMAIN feedback : i > stats.rows =>
            (stats.late \/ i > wiped.rows) /\ now - feedback[i].submittedAt < StatsTTL
      BY <1>4, <2>1 DEF Typed, Lagging, Caught, Younger
    <2>3. summary # NULL => \A i \in DOMAIN feedback : i > summary.rows =>
            (summary.late \/ i > wiped.rows) /\ now - feedback[i].submittedAt < SummaryTTL
      BY <1>4, <2>1 DEF Typed, Lagging, Caught, Younger
    <2>4. summary # NULL => \A i \in DOMAIN feedback : i > summary.inner =>
            /\ summary.late \/ i > wiped.rows
            /\ now - feedback[i].submittedAt < StatsTTL + SummaryTTL
      BY <1>4, <2>1 DEF Typed, Lagging, Caught, Younger
    <2>. QED
      BY <2>2, <2>3, <2>4 DEF AnalyticsLagIsBounded
  <1>. QED
    BY <1>1, <1>2, <1>3, <1>4, AlwaysTyped, PTL DEF FeedbackSpec

-----------------------------------------------------------------------------
(* Bookings. *)

BookingSpec == BookingInit /\ [][BookingNext]_bookingVars

BookingTables == [Bookings -> BookingRows \cup {NULL}]

Spans == {Span(i, j) : i \in Int, j \in Int}

(* What is asked for: a report of some days, or a mail of today or of the  *)
(* month.                                                                  *)
AskedTyped ==
  \/ asked.job = "report" /\ asked.query \in Spans
  \/ asked = sendDailyBookingReport
  \/ asked = sendMonthlyBookingReports

(* A report has seen no table but those since it was asked for, and a mail *)
(* those of its reads in the order they were written in.                   *)
SeenTyped ==
  IF asked.job = "report" THEN seen # <<>> => seen \in [Queries -> 1 .. Len(past)]
  ELSE /\ seen \in Seq(1 .. Len(past))
       /\ \A i, j \in 1 .. Len(seen) : i <= j => seen[i] <= seen[j]

ReportsTyped ==
  /\ booking \in BookingTables /\ today \in PartyDays
  /\ past \in Seq(BookingTables)
  /\ asked = NULL => seen = <<>>
  /\ asked # NULL => /\ AskedTyped /\ SeenTyped
                     /\ past # <<>> /\ booking = past[Len(past)]

(* Two tables in a row differ in one booking at most. *)
OneByOne ==
  \A i \in 1 .. Len(past) : i + 1 \in 1 .. Len(past) =>
    \E b \in Bookings : \A c \in Bookings \ {b} : past[i + 1][c] = past[i][c]

LEMMA ReportsConstants ==
  ASSUME ReportsAssumption
  PROVE  /\ IsFiniteSet(Bookings) /\ IsFiniteSet(Branches)
         /\ BranchId \in [Branches -> Nat]
         /\ LastDay \in 28 .. 31 /\ Monday \in 1 .. 7 /\ PartyDays \subseteq 1 .. LastDay
         /\ Deltas \subseteq Int /\ NewPaxes \subseteq Nat /\ ActualPaxes \subseteq Nat
         /\ Limit \in Nat /\ MaxWrites \in Nat
         /\ FirstTables \subseteq BookingTables
  BY DEF ReportsAssumption, BookingTables

LEMMA RowFields ==
  ASSUME NEW row \in BookingRows
  PROVE  /\ row \in [branchId : Branches, partyDate : PartyDays, partyType : PartyTypes,
                     status : Statuses, initialPax : Nat, adjustments : Seq([delta : Int]),
                     expectedPax : Nat, actualPax : Nat \cup {NULL}, isDeleted : BOOLEAN]
         /\ row.expectedPax = computeExpectedPax(row.initialPax, row.adjustments)
  BY DEF BookingRows

LEMMA RowDay ==
  ASSUME ReportsAssumption, NEW row \in BookingRows
  PROVE  row.partyDate \in Nat /\ row.partyDate \in 1 .. LastDay
  <1>1. row.partyDate \in PartyDays
    BY RowFields
  <1>2. LastDay \in Nat /\ PartyDays \subseteq 1 .. LastDay
    BY ReportsConstants
  <1>3. PICK d \in PartyDays : d = row.partyDate
    BY <1>1
  <1>4. d \in 1 .. LastDay /\ d \in Nat
    BY <1>2
  <1>. QED
    BY <1>3, <1>4

LEMMA SeqsOfSubset ==
  ASSUME NEW S, NEW T, S \subseteq T
  PROVE  Seq(S) \subseteq Seq(T)
  <1>1. ASSUME NEW s \in Seq(S)
        PROVE  s \in Seq(T)
    <2>1. Len(s) \in Nat /\ s \in [1 .. Len(s) -> T]
      OBVIOUS
    <2>. QED
      BY <2>1
  <1>. QED
    BY <1>1

LEMMA NewRowIsRow ==
  ASSUME ReportsAssumption, NEW r \in Rows
  PROVE  NewRow(r) \in BookingRows
  <1>1. computeExpectedPax(r.initialPax, <<>>) = r.initialPax
    <2>1. r.initialPax \in Int
      BY ReportsConstants DEF Rows
    <2>. QED
      BY <2>1, ExpectedPaxEmpty
  <1>2. /\ r.branchId \in Branches /\ r.partyDate \in PartyDays /\ r.partyType \in PartyTypes
        /\ r.status \in Statuses /\ r.initialPax \in Nat
    BY ReportsConstants DEF Rows, Statuses
  <1>3. <<>> \in Seq([delta : Int])
    OBVIOUS
  <1>. QED
    BY <1>1, <1>2, <1>3 DEF NewRow, BookingRows

LEMMA ChangedIsRow ==
  ASSUME ReportsAssumption, NEW row \in BookingRows, NEW r \in Changed(row)
  PROVE  r \in BookingRows
  <1>. DEFINE Shape == [branchId : Branches, partyDate : PartyDays, partyType : PartyTypes,
                        status : Statuses, initialPax : Nat, adjustments : Seq([delta : Int]),
                        expectedPax : Nat, actualPax : Nat \cup {NULL}, isDeleted : BOOLEAN]
  <1>1. row \in Shape /\ row.expectedPax = computeExpectedPax(row.initialPax, row.adjustments)
    BY RowFields
  <1>2. ASSUME NEW s \in Statuses, r = [row EXCEPT !.status = s]
        PROVE  r \in BookingRows
    BY <1>1, <1>2 DEF BookingRows
  <1>3. ASSUME NEW n \in Nat, r = [row EXCEPT !.actualPax = n]
        PROVE  r \in BookingRows
    BY <1>1, <1>3 DEF BookingRows
  <1>4. ASSUME r = [row EXCEPT !.isDeleted = TRUE]
        PROVE  r \in BookingRows
    BY <1>1, <1>4 DEF BookingRows
  <1>5. ASSUME NEW d \in PartyDays, NEW m \in PartyTypes,
               r = Moved(row, d, m)
        PROVE  r \in BookingRows
    BY <1>1, <1>5 DEF BookingRows, Moved
  <1>6. ASSUME NEW n \in Deltas, row.expectedPax + n >= 0,
               r = [row EXCEPT !.expectedPax = @ + n,
                               !.adjustments = Append(@, [delta |-> n])]
        PROVE  r \in BookingRows
    <2>. DEFINE E == [delta : Int]
                entry == [delta |-> n]
    <2>1. n \in Int /\ entry \in E /\ entry.delta = n /\ \A e \in E : e.delta \in Int
      BY ReportsConstants
    <2>2. row.adjustments \in Seq(E) /\ row.initialPax \in Int /\ row.expectedPax \in Nat
      BY <1>1
    <2>3. Append(row.adjustments, entry) \in Seq(E)
      BY <2>1, <2>2
    <2>4. computeExpectedPax(row.initialPax, Append(row.adjustments, entry))
            = row.expectedPax + n
      <3>. HIDE DEF E, entry
      <3>1. computeExpectedPax(row.initialPax, Append(row.adjustments, entry))
              = computeExpectedPax(row.initialPax, row.adjustments) + entry.delta
        BY <2>1, <2>2, ExpectedPaxAppend
      <3>. QED
        BY <1>1, <2>1, <3>1
    <2>5. row.expectedPax + n \in Nat
      BY <1>6, <2>1, <2>2
    <2>. HIDE DEF entry
    <2>6. r = [row EXCEPT !.expectedPax = row.expectedPax + n,
                          !.adjustments = Append(row.adjustments, entry)]
      BY <1>1, <1>6 DEF entry
    <2>. QED
      BY <1>1, <2>3, <2>4, <2>5, <2>6 DEF BookingRows
  <1>7. \A s \in AllowedTransitions[row.status] : s \in Statuses
    BY <1>1 DEF AllowedTransitions, Statuses
  <1>8. ActualPaxes \subseteq Nat
    BY ReportsConstants
  <1>. HIDE DEF Shape
  <1>9. \/ r \in setBookingStatus(row)
        \/ r \in setActualPax(row)
        \/ r \in updateBooking(row)
        \/ r \in deleteBooking(row)
        \/ r \in addPaxAdjustment(row)
    BY DEF Changed
  <1>10. CASE r \in setBookingStatus(row)
    BY <1>2, <1>7, <1>10 DEF setBookingStatus
  <1>11. CASE r \in setActualPax(row)
    BY <1>3, <1>8, <1>11 DEF setActualPax
  <1>12. CASE r \in updateBooking(row)
    BY <1>5, <1>12 DEF updateBooking
  <1>13. CASE r \in deleteBooking(row)
    BY <1>4, <1>13 DEF deleteBooking
  <1>14. CASE r \in addPaxAdjustment(row)
    BY <1>6, <1>14 DEF addPaxAdjustment
  <1>. QED
    BY <1>9, <1>10, <1>11, <1>12, <1>13, <1>14

-----------------------------------------------------------------------------

(* Every reachable table, report and mail under way is typed, and two      *)
(* tables in a row differ in one booking at most, for all tables to begin  *)
(* with: what the theorems below rest on.                                  *)
THEOREM ReportsTypeCorrect ==
  ASSUME ReportsAssumption
  PROVE  BookingSpec => [](ReportsTyped /\ OneByOne)
  <1>1. ASSUME BookingInit
        PROVE  ReportsTyped /\ OneByOne
    BY <1>1, ReportsConstants DEF BookingInit, ReportsTyped, OneByOne
  <1>2. ASSUME ReportsTyped, OneByOne, [BookingNext]_bookingVars
        PROVE  ReportsTyped' /\ OneByOne'
    <2>. USE DEF ReportsTyped
    <2>1. CASE WriteBooking
      <3>1. asked # NULL /\ (asked.job = "report" => seen = <<>>)
        BY <2>1 DEF WriteBooking, Reading
      <3>2. PICK b \in Bookings, row \in BookingRows : booking' = [booking EXCEPT ![b] = row]
        <4>1. PICK b \in Bookings :
                 booking' \in
                   {[booking EXCEPT ![b] = row] :
                      row \in IF booking[b] = NULL THEN {NewRow(r) : r \in Rows}
                              ELSE IF booking[b].isDeleted THEN {} ELSE Changed(booking[b])}
          BY <2>1 DEF WriteBooking
        <4>2. booking[b] # NULL => booking[b] \in BookingRows
          BY <1>2 DEF BookingTables
        <4>. QED
          BY <4>1, <4>2, NewRowIsRow, ChangedIsRow
      <3>3. booking' \in BookingTables
        BY <1>2, <3>2 DEF BookingTables
      <3>4. /\ past' = Append(past, booking') /\ UNCHANGED <<today, asked, seen>>
            /\ past \in Seq(BookingTables) /\ past # <<>> /\ booking = past[Len(past)]
        BY <1>2, <2>1, <3>1 DEF WriteBooking
      <3>5. /\ past' \in Seq(BookingTables) /\ past' # <<>>
            /\ Len(past') = Len(past) + 1 /\ Len(past) \in Nat
            /\ booking' = past'[Len(past')] /\ \A i \in 1 .. Len(past) : past'[i] = past[i]
        BY <3>3, <3>4
      <3>6. SeenTyped'
        <4>1. SeenTyped
          BY <1>2, <3>1
        <4>2. 1 .. Len(past) \subseteq 1 .. Len(past')
          BY <3>5
        <4>3. \A s \in Seq(1 .. Len(past)) : s \in Seq(1 .. Len(past'))
          <5>1. \A S : \A T : S \subseteq T => Seq(S) \subseteq Seq(T)
            BY SeqsOfSubset, Zenon
          <5>. QED
            BY <4>2, <5>1
        <4>. QED
          BY <3>1, <3>4, <4>1, <4>3 DEF SeenTyped
      <3>7. AskedTyped'
        BY <1>2, <3>1, <3>4 DEF AskedTyped, sendDailyBookingReport
      <3>8. OneByOne'
        <4>1. ASSUME NEW i \in 1 .. Len(past'), i + 1 \in 1 .. Len(past')
              PROVE  \E c \in Bookings : \A d \in Bookings \ {c} : past'[i + 1][d] = past'[i][d]
          <5>1. CASE i + 1 \in 1 .. Len(past)
            <6>1. i \in 1 .. Len(past)
              BY <3>5, <5>1
            <6>2. past'[i] = past[i] /\ past'[i + 1] = past[i + 1]
              BY <3>5, <5>1, <6>1
            <6>. QED
              BY <1>2, <5>1, <6>1, <6>2 DEF OneByOne
          <5>2. CASE i = Len(past)
            <6>1. past'[i] = booking /\ past'[i + 1] = booking'
              BY <3>4, <3>5, <5>2
            <6>2. \A d \in Bookings \ {b} : booking'[d] = booking[d]
              BY <1>2, <3>2 DEF BookingTables
            <6>. QED
              BY <6>1, <6>2
          <5>. QED
            BY <3>5, <4>1, <5>1, <5>2
        <4>. QED
          BY <4>1 DEF OneByOne
      <3>. QED
        BY <1>2, <3>1, <3>3, <3>4, <3>5, <3>6, <3>7, <3>8
    <2>2. CASE AskReport
      <3>1. asked' # NULL => AskedTyped'
        BY <1>2, <2>2, ReportsConstants
           DEF AskReport, AskedTyped, Spans, sendDailyBookingReport, sendMonthlyBookingReports,
               getDailyReport, getWeeklyReport, getMonthlyReport
      <3>2. /\ past' = <<booking>> /\ booking' = booking /\ today' = today /\ seen' = <<>>
        BY <1>2, <2>2 DEF AskReport
      <3>3. SeenTyped'
        BY <3>2 DEF SeenTyped
      <3>4. OneByOne'
        BY <3>2 DEF OneByOne
      <3>. QED
        BY <1>2, <3>1, <3>2, <3>3, <3>4
    <2>3. CASE ReadReport
      <3>1. /\ asked # NULL /\ asked.job = "report"
            /\ seen' \in [Queries -> 1 .. Len(past)] /\ UNCHANGED <<booking, today, asked, past>>
        BY <2>3 DEF ReadReport, Reading
      <3>2. SeenTyped' /\ OneByOne'
        BY <1>2, <3>1 DEF SeenTyped, OneByOne
      <3>3. AskedTyped'
        BY <1>2, <3>1 DEF AskedTyped, sendDailyBookingReport
      <3>. QED
        BY <1>2, <3>1, <3>2, <3>3
    <2>4. CASE ReadForMail
      <3>1. /\ asked # NULL /\ asked.job = "mail"
            /\ seen' = Append(seen, Len(past)) /\ UNCHANGED <<booking, today, asked, past>>
        BY <2>4 DEF ReadForMail, Reading
      <3>2. SeenTyped'
        <4>1. /\ seen \in Seq(1 .. Len(past)) /\ Len(past) \in 1 .. Len(past)
              /\ \A i, j \in 1 .. Len(seen) : i <= j => seen[i] <= seen[j]
          BY <1>2, <3>1 DEF SeenTyped
        <4>2. /\ seen' \in Seq(1 .. Len(past)) /\ Len(seen') = Len(seen) + 1
              /\ Len(seen) \in Nat /\ seen'[Len(seen) + 1] = Len(past)
              /\ \A i \in 1 .. Len(seen) : seen'[i] = seen[i] /\ seen[i] <= Len(past)
          BY <3>1, <4>1
        <4>3. \A i, j \in 1 .. Len(seen') : i <= j => seen'[i] <= seen'[j]
          <5>1. ASSUME NEW i \in 1 .. Len(seen'), NEW j \in 1 .. Len(seen'), i <= j
                PROVE  seen'[i] <= seen'[j]
            <6>1. CASE j \in 1 .. Len(seen)
              <7>1. i \in 1 .. Len(seen)
                BY <4>2, <5>1, <6>1
              <7>. QED
                BY <4>1, <4>2, <5>1, <6>1, <7>1
            <6>2. CASE j = Len(seen) + 1
              <7>1. CASE i = j
                BY <4>1, <4>2, <6>2, <7>1
              <7>2. CASE i \in 1 .. Len(seen)
                BY <4>2, <6>2, <7>2
              <7>. QED
                BY <4>2, <5>1, <6>2, <7>1, <7>2
            <6>. QED
              BY <4>2, <6>1, <6>2
          <5>. QED
            BY <5>1
        <4>. QED
          BY <3>1, <4>2, <4>3 DEF SeenTyped
      <3>3. AskedTyped'
        BY <1>2, <3>1 DEF AskedTyped, sendDailyBookingReport
      <3>4. OneByOne'
        BY <1>2, <3>1 DEF OneByOne
      <3>. QED
        BY <1>2, <3>1, <3>2, <3>3, <3>4
    <2>5. CASE UNCHANGED bookingVars
      BY <1>2, <2>5 DEF bookingVars, AskedTyped, SeenTyped, OneByOne, sendDailyBookingReport
    <2>. QED
      BY <1>2, <2>1, <2>2, <2>3, <2>4, <2>5 DEF BookingNext
  <1>. QED
    BY <1>1, <1>2, PTL DEF BookingSpec

-----------------------------------------------------------------------------
(* The least of some, and the first few of some. *)

LEMMA LeastOfSome ==
  ASSUME NEW T \in SUBSET Nat, T # {}
  PROVE  Min(T) \in T /\ \A y \in T : Min(T) <= y
  <1>0. T \subseteq Nat /\ T # {}
    OBVIOUS
  <1>1. PICK x \in T : \A y \in T : ~(<<y, x>> \in OpToRel(<, Nat))
    BY <1>0, WFMin, NatLessThanWellFounded, Zenon
  <1>2. \A y \in T : ~(y < x)
    BY <1>0, <1>1 DEF OpToRel
  <1>3. \A y \in T : x <= y
    BY <1>0, <1>2
  <1>. QED
    BY <1>0, <1>3 DEF Min

LEMMA LastOfSomeBounds ==
  ASSUME NEW n \in Nat, NEW T \in SUBSET (1 .. n), T # {}
  PROVE  Max(T) \in T /\ \A y \in T : y <= Max(T)
  <1>. DEFINE D == {n - m : m \in T}
  <1>1. D \in SUBSET Nat /\ D # {}
    <2>1. \A m \in T : n - m \in Nat
      OBVIOUS
    <2>. QED
      BY <2>1
  <1>2. Min(D) \in D /\ \A e \in D : Min(D) <= e
    <2>. HIDE DEF D
    <2>. QED
      BY <1>1, LeastOfSome
  <1>3. PICK x \in T : Min(D) = n - x
    BY <1>2
  <1>4. ASSUME NEW y \in T
        PROVE  y <= x
    <2>1. n - y \in D
      OBVIOUS
    <2>2. n - x <= n - y
      BY <1>2, <1>3, <2>1
    <2>. QED
      BY <2>2
  <1>. QED
    BY <1>4 DEF Max

FirstOf(K, S, key, n) ==
  /\ K \in SUBSET S
  /\ Cardinality(K) = n
  /\ \A b \in K, c \in S \ K : key[b] <= key[c]

LEMMA FirstExist ==
  ASSUME NEW S, IsFiniteSet(S), NEW key \in [S -> Nat],
         NEW n \in Nat, n <= Cardinality(S)
  PROVE  \E K \in SUBSET S : FirstOf(K, S, key, n)
  <1>. DEFINE N == {m \in Nat : m <= Cardinality(S) => \E K \in SUBSET S : FirstOf(K, S, key, m)}
  <1>1. 0 \in N
    <2>1. FirstOf({}, S, key, 0)
      BY FS_EmptySet DEF FirstOf
    <2>. QED
      BY <2>1
  <1>2. ASSUME NEW m \in N \cap Nat
        PROVE  m + 1 \in N
    <2>. SUFFICES ASSUME m + 1 <= Cardinality(S)
                  PROVE  \E K \in SUBSET S : FirstOf(K, S, key, m + 1)
      OBVIOUS
    <2>0. Cardinality(S) \in Nat
      BY FS_CardinalityType
    <2>1. PICK K \in SUBSET S : FirstOf(K, S, key, m)
      BY <2>0
    <2>2. IsFiniteSet(K) /\ K # S
      BY <2>0, <2>1, FS_Subset DEF FirstOf
    <2>. DEFINE T == {key[c] : c \in S \ K}
    <2>3. T \in SUBSET Nat /\ T # {}
      BY <2>2
    <2>4. Min(T) \in T /\ \A y \in T : Min(T) <= y
      <3>. HIDE DEF T
      <3>. QED
        BY <2>3, LeastOfSome
    <2>5. PICK a \in S \ K : \A c \in S \ K : key[a] <= key[c]
      <3>1. PICK a \in S \ K : Min(T) = key[a]
        BY <2>4
      <3>. QED
        BY <2>4, <3>1
    <2>6. Cardinality(K \cup {a}) = m + 1
      BY <2>1, <2>2, FS_AddElement DEF FirstOf
    <2>7. \A b \in K \cup {a}, c \in S \ (K \cup {a}) : key[b] <= key[c]
      BY <2>1, <2>5 DEF FirstOf
    <2>8. FirstOf(K \cup {a}, S, key, m + 1)
      BY <2>1, <2>6, <2>7 DEF FirstOf
    <2>. QED
      BY <2>8
  <1>. HIDE DEF N
  <1>3. Nat \subseteq N
    BY <1>1, <1>2, NumbersByInduction
  <1>. QED
    BY <1>3 DEF N

-----------------------------------------------------------------------------
(* A sequence of sets each of which differs from the next in one element. *)

LEMMA CountChangesByOne ==
  ASSUME NEW S, NEW T, NEW b, IsFiniteSet(S), IsFiniteSet(T), S \ {b} = T \ {b}
  PROVE  Near(Cardinality(S), Cardinality(T), 1)
  <1>1. PICK R : R = S \ {b}
    OBVIOUS
  <1>2. IsFiniteSet(R) /\ Cardinality(R) \in Nat /\ b \notin R
    BY <1>1, FS_Subset, FS_CardinalityType
  <1>3. S = R \/ S = R \cup {b}
    BY <1>1
  <1>4. T = R \/ T = R \cup {b}
    BY <1>1
  <1>5. Cardinality(R \cup {b}) = Cardinality(R) + 1
    BY <1>2, FS_AddElement
  <1>6. PICK n \in Nat : Cardinality(R) = n /\ Cardinality(R \cup {b}) = n + 1
    BY <1>2, <1>5
  <1>7. Cardinality(S) \in {n, n + 1} /\ Cardinality(T) \in {n, n + 1}
    BY <1>3, <1>4, <1>6
  <1>8. \A i, j \in {n, n + 1} : Near(i, j, 1)
    BY DEF Near
  <1>. QED
    BY <1>7, <1>8, Zenon

LEMMA CountsChangeByOne ==
  ASSUME NEW n \in Nat, NEW A, \A i \in 1 .. n : IsFiniteSet(A[i]),
         \A i \in 1 .. n : i + 1 \in 1 .. n => \E b : A[i] \ {b} = A[i + 1] \ {b}
  PROVE  \A i, j \in 1 .. n :
           i <= j => Near(Cardinality(A[i]), Cardinality(A[j]), j - i)
  <1>. DEFINE c == [i \in 1 .. n |-> Cardinality(A[i])]
              N == {d \in Nat : \A i \in 1 .. n : i + d \in 1 .. n => Near(c[i], c[i + d], d)}
  <1>1. \A i \in 1 .. n : c[i] \in Nat
    BY FS_CardinalityType
  <1>2. \A i \in 1 .. n : i + 1 \in 1 .. n => Near(c[i], c[i + 1], 1)
    <2>1. \A S, T : \A b : IsFiniteSet(S) /\ IsFiniteSet(T) /\ S \ {b} = T \ {b}
            => Near(Cardinality(S), Cardinality(T), 1)
      BY CountChangesByOne, Zenon
    <2>2. ASSUME NEW i \in 1 .. n, i + 1 \in 1 .. n
          PROVE  Near(c[i], c[i + 1], 1)
      <3>1. PICK b : A[i] \ {b} = A[i + 1] \ {b}
        BY <2>2
      <3>2. Near(Cardinality(A[i]), Cardinality(A[i + 1]), 1)
        BY <2>1, <2>2, <3>1
      <3>. QED
        BY <2>2, <3>2
    <2>. QED
      BY <2>2
  <1>. HIDE DEF c
  <1>3. 0 \in N
    BY <1>1 DEF Near
  <1>4. ASSUME NEW d \in N \cap Nat
        PROVE  d + 1 \in N
    <2>1. ASSUME NEW i \in 1 .. n, i + (d + 1) \in 1 .. n
          PROVE  Near(c[i], c[i + (d + 1)], d + 1)
      <3>1. i + d \in 1 .. n /\ (i + d) + 1 = i + (d + 1)
        BY <2>1
      <3>2. Near(c[i], c[i + d], d) /\ Near(c[i + d], c[i + (d + 1)], 1)
        BY <1>2, <2>1, <3>1
      <3>3. c[i] \in Nat /\ c[i + d] \in Nat /\ c[i + (d + 1)] \in Nat
        BY <1>1, <2>1, <3>1
      <3>. QED
        BY <3>2, <3>3 DEF Near
    <2>. QED
      BY <2>1
  <1>5. Nat \subseteq N
    <2>. HIDE DEF N
    <2>. QED
      BY <1>3, <1>4, NumbersByInduction
  <1>6. ASSUME NEW i \in 1 .. n, NEW j \in 1 .. n, i <= j
        PROVE  Near(c[i], c[j], j - i)
    <2>1. j - i \in Nat /\ i + (j - i) = j
      BY <1>6
    <2>. QED
      BY <1>5, <2>1
  <1>. QED
    BY <1>6 DEF c

-----------------------------------------------------------------------------
(* The figures of a report, one by one. *)

LEMMA ReportCounts ==
  ASSUME NEW t, NEW q
  PROVE  /\ aggregateReport(t, q).byStatus =
              [s \in Statuses |->
                 Cardinality(Only(t["status"], reportWhere(t["status"], q), "status", s))]
         /\ aggregateReport(t, q).byType["parties"] =
              [m \in PartyTypes |->
                 Cardinality(Only(t["type"], reportWhere(t["type"], q), "partyType", m))]
  BY DEF aggregateReport

SplitPax == {"expectedPax", "actualPax"}

LEMMA ReportPax ==
  ASSUME NEW t, NEW q, NEW f \in SplitPax
  PROVE  /\ aggregateReport(t, q).pax[f] = Pax(t["pax"], reportWhere(t["pax"], q), f)
         /\ aggregateReport(t, q).byType[f] =
              [m \in PartyTypes |->
                 Pax(t["type"], Only(t["type"], reportWhere(t["type"], q), "partyType", m), f)]
  BY DEF SplitPax, aggregateReport

BranchesOf(t, q) == {t[b].branchId : b \in reportWhere(t, q)}

LEMMA ReportBranches ==
  ASSUME NEW t, NEW q
  PROVE  /\ DOMAIN aggregateReport(t, q).branchBreakdown = BranchesOf(t["branch"], q)
         /\ \A br \in BranchesOf(t["branch"], q) :
              LET known == aggregateReport(t, q).branchBreakdown[br]
              IN  /\ known.total =
                       Cardinality(Only(t["branch"], reportWhere(t["branch"], q), "branchId", br))
                  /\ known.confirmed =
                       Cardinality(Only(t["confirmed"],
                                        Only(t["confirmed"], reportWhere(t["confirmed"], q), "branchId", br),
                                        "status", "CONFIRMED"))
                  /\ known.byType["parties"] =
                       [m \in PartyTypes |->
                          Cardinality(Only(t["typeByBranch"],
                            Only(t["typeByBranch"], reportWhere(t["typeByBranch"], q), "branchId", br),
                            "partyType", m))]
  BY DEF aggregateReport, BranchesOf

LEMMA BranchPax ==
  ASSUME NEW t, NEW q, NEW br \in BranchesOf(t["branch"], q), NEW f \in SplitPax
  PROVE  aggregateReport(t, q).branchBreakdown[br].pax[f] =
           Pax(t["branch"], Only(t["branch"], reportWhere(t["branch"], q), "branchId", br), f)
  BY DEF aggregateReport, BranchesOf, SplitPax

-----------------------------------------------------------------------------
(* Bookings by a field of their rows. *)

(* The bookings of t. *)
Booked(t) == {b \in Bookings : t[b] \in BookingRows}

LEMMA BookedIsFinite ==
  ASSUME ReportsAssumption, NEW t, NEW S \in SUBSET Booked(t)
  PROVE  IsFiniteSet(S) /\ Cardinality(S) \in Nat
  BY ReportsConstants, FS_Subset, FS_CardinalityType DEF Booked

LEMMA WhereIsBooked ==
  ASSUME NEW t \in BookingTables, NEW q
  PROVE  reportWhere(t, q) \in SUBSET Booked(t)
  BY DEF reportWhere, Within, Among, Booked, BookingTables

LEMMA OnlyAreParts ==
  ASSUME NEW t, NEW S, NEW field, NEW K, \A b \in S : t[b][field] \in K
  PROVE  Parts([v \in K |-> Only(t, S, field, v)], K, S)
  BY DEF Parts, Only

LEMMA CountByField ==
  ASSUME ReportsAssumption, NEW t, NEW S \in SUBSET Booked(t), NEW field,
         NEW K, IsFiniteSet(K), \A b \in S : t[b][field] \in K
  PROVE  SumFunction([v \in K |-> Cardinality(Only(t, S, field, v))]) = Cardinality(S)
  <1>. DEFINE P == [v \in K |-> Only(t, S, field, v)]
              n == [v \in K |-> Cardinality(Only(t, S, field, v))]
  <1>1. Parts(P, K, S)
    BY OnlyAreParts
  <1>2. DOMAIN n = K /\ n = [k \in K |-> n[k]] /\ \A k \in K : n[k] = Cardinality(P[k])
    OBVIOUS
  <1>3. IsFiniteSet(S)
    BY BookedIsFinite
  <1>. HIDE DEF P, n
  <1>4. SumFunction(n) = Cardinality(S)
    BY <1>1, <1>2, <1>3, CountOfParts
  <1>. QED
    BY <1>4 DEF n

PaxFields == {"initialPax", "expectedPax", "actualPax"}

Guests(t, S, f) == [b \in S |-> IF t[b][f] = NULL THEN 0 ELSE t[b][f]]

LEMMA PaxOfRow ==
  ASSUME NEW row \in BookingRows, NEW f \in PaxFields
  PROVE  (IF row[f] = NULL THEN 0 ELSE row[f]) \in Nat
  BY RowFields DEF PaxFields

LEMMA GuestsAreNaturals ==
  ASSUME NEW t, NEW S \in SUBSET Booked(t), NEW f \in PaxFields
  PROVE  /\ Guests(t, S, f) \in [S -> Nat]
         /\ Guests(t, S, f) \in [S -> Int]
         /\ Pax(t, S, f) = SumFunction(Guests(t, S, f))
         /\ \A T \in SUBSET S : Guests(t, T, f) = [b \in T |-> Guests(t, S, f)[b]]
  <1>1. \A b \in S : Guests(t, S, f)[b] \in Nat
    BY PaxOfRow DEF Guests, Booked
  <1>2. Pax(t, S, f) = SumFunction(Guests(t, S, f))
    BY DEF Pax, Guests
  <1>3. \A T \in SUBSET S : Guests(t, T, f) = [b \in T |-> Guests(t, S, f)[b]]
    BY DEF Guests
  <1>4. Guests(t, S, f) = [b \in S |-> Guests(t, S, f)[b]]
    BY DEF Guests
  <1>. QED
    BY <1>1, <1>2, <1>3, <1>4

LEMMA PaxIsSum ==
  ASSUME NEW t, NEW S, NEW f
  PROVE  Pax(t, S, f) = SumFunction(Guests(t, S, f))
  BY DEF Pax, Guests

LEMMA PaxIsNatural ==
  ASSUME ReportsAssumption, NEW t, NEW S \in SUBSET Booked(t), NEW f \in PaxFields
  PROVE  Pax(t, S, f) \in Nat
  <1>1. IsFiniteSet(S)
    BY BookedIsFinite
  <1>2. PICK u : u = Guests(t, S, f)
    OBVIOUS
  <1>3. u \in [S -> Nat] /\ Pax(t, S, f) = SumFunction(u)
    BY <1>2, GuestsAreNaturals
  <1>. QED
    BY <1>1, <1>3, SumOfNaturals

(* The guests of S add up part by part. *)
LEMMA PaxByParts ==
  ASSUME ReportsAssumption, NEW t, NEW S \in SUBSET Booked(t), NEW f \in PaxFields,
         NEW K, IsFiniteSet(K), NEW P, Parts(P, K, S)
  PROVE  SumFunction([k \in K |-> Pax(t, P[k], f)]) = Pax(t, S, f)
  <1>. DEFINE n == [k \in K |-> Pax(t, P[k], f)]
  <1>1. PICK u : u = Guests(t, S, f)
    OBVIOUS
  <1>2. /\ u \in [S -> Int] /\ Pax(t, S, f) = SumFunction(u)
        /\ \A T \in SUBSET S : Guests(t, T, f) = [b \in T |-> u[b]]
    BY <1>1, GuestsAreNaturals
  <1>3. IsFiniteSet(S)
    BY BookedIsFinite
  <1>4. ASSUME NEW k \in K
        PROVE  n[k] \in Int /\ n[k] = SumFunction([b \in P[k] |-> u[b]])
    <2>1. P[k] \in SUBSET S /\ P[k] \in SUBSET Booked(t)
      BY DEF Parts
    <2>2. Pax(t, P[k], f) = SumFunction(Guests(t, P[k], f)) /\ Pax(t, P[k], f) \in Nat
      <3>1. PICK T \in SUBSET Booked(t) : T = P[k]
        BY <2>1
      <3>2. Pax(t, T, f) = SumFunction(Guests(t, T, f))
        BY PaxIsSum
      <3>3. Pax(t, T, f) \in Nat
        BY PaxIsNatural
      <3>. QED
        BY <3>1, <3>2, <3>3
    <2>. QED
      BY <1>2, <2>1, <2>2
  <1>5. n \in [K -> Int]
    <2>1. \A k \in K : n[k] \in Int
      BY <1>4
    <2>. QED
      BY <2>1
  <1>. HIDE DEF n
  <1>6. SumFunction(n) = SumFunction(u)
    BY <1>2, <1>3, <1>4, <1>5, SumOfParts
  <1>. QED
    BY <1>2, <1>6 DEF n

LEMMA PaxByField ==
  ASSUME ReportsAssumption, NEW t, NEW S \in SUBSET Booked(t), NEW f \in PaxFields,
         NEW field, NEW K, IsFiniteSet(K), \A b \in S : t[b][field] \in K
  PROVE  SumFunction([v \in K |-> Pax(t, Only(t, S, field, v), f)]) = Pax(t, S, f)
  <1>. DEFINE P == [v \in K |-> Only(t, S, field, v)]
  <1>1. Parts(P, K, S)
    BY OnlyAreParts
  <1>2. [v \in K |-> Pax(t, Only(t, S, field, v), f)] = [v \in K |-> Pax(t, P[v], f)]
    OBVIOUS
  <1>. HIDE DEF P
  <1>. QED
    BY <1>1, <1>2, PaxByParts

-----------------------------------------------------------------------------
(* What queries of different moments count. *)

LEMMA CountsWithin ==
  ASSUME NEW n \in Nat, NEW A, \A i \in 1 .. n : IsFiniteSet(A[i]),
         \A i \in 1 .. n : i + 1 \in 1 .. n => \E b : A[i] \ {b} = A[i + 1] \ {b},
         NEW i \in 1 .. n, NEW j \in 1 .. n, NEW distance \in Nat, Near(i, j, distance)
  PROVE  Near(Cardinality(A[i]), Cardinality(A[j]), distance)
  <1>1. \A k, l \in 1 .. n : k <= l => Near(Cardinality(A[k]), Cardinality(A[l]), l - k)
    BY CountsChangeByOne
  <1>2. Cardinality(A[i]) \in Nat /\ Cardinality(A[j]) \in Nat
    BY FS_CardinalityType
  <1>3. CASE i <= j
    BY <1>1, <1>2, <1>3 DEF Near
  <1>4. CASE j <= i
    BY <1>1, <1>2, <1>4 DEF Near
  <1>. QED
    BY <1>3, <1>4

SameBut(t, u, b) == \A c \in Bookings \ {b} : u[c] = t[c]

AlikeBut(S, T, b) == S \ {b} = T \ {b}

LEMMA WhereChangesByOne ==
  ASSUME NEW t, NEW u, NEW q, NEW field, NEW v, NEW b, SameBut(t, u, b)
  PROVE  /\ AlikeBut(reportWhere(t, q), reportWhere(u, q), b)
         /\ AlikeBut(Only(t, reportWhere(t, q), field, v), Only(u, reportWhere(u, q), field, v), b)
  <1>1. reportWhere(t, q) \ {b} = reportWhere(u, q) \ {b}
    <2>1. ASSUME NEW c \in Bookings \ {b}
          PROVE  c \in reportWhere(t, q) <=> c \in reportWhere(u, q)
      BY <2>1 DEF SameBut, reportWhere, Within, Among
    <2>2. reportWhere(t, q) \subseteq Bookings /\ reportWhere(u, q) \subseteq Bookings
      BY DEF reportWhere, Within, Among
    <2>. QED
      BY <2>1, <2>2
  <1>2. \A c \in reportWhere(t, q) \ {b} : u[c] = t[c]
    BY DEF SameBut, reportWhere, Within, Among
  <1>. QED
    BY <1>1, <1>2 DEF Only, AlikeBut

(* The bookings of a range, or those of a branch among them, at two       *)
(* moments between which no more than a number of bookings were written.  *)
LEMMA WritesBetween ==
  ASSUME ReportsAssumption, ReportsTyped, OneByOne, NEW q, NEW br,
         NEW i \in 1 .. Len(past), NEW j \in 1 .. Len(past),
         NEW distance \in Nat, Near(i, j, distance)
  PROVE  /\ Near(Cardinality(reportWhere(past[i], q)),
                 Cardinality(reportWhere(past[j], q)), distance)
         /\ Near(Cardinality(Only(past[i], reportWhere(past[i], q), "branchId", br)),
                 Cardinality(Only(past[j], reportWhere(past[j], q), "branchId", br)), distance)
  <1>1. PICK n \in Nat : n = Len(past) /\ \A k \in 1 .. n : past[k] \in BookingTables
    BY DEF ReportsTyped
  <1>2. \A k \in 1 .. n : k + 1 \in 1 .. n =>
          \E b \in Bookings : \A c \in Bookings \ {b} : past[k + 1][c] = past[k][c]
    BY <1>1 DEF OneByOne
  <1>3. \A k \in 1 .. n : reportWhere(past[k], q) \in SUBSET Booked(past[k])
    BY <1>1, WhereIsBooked
  <1>. DEFINE A == [k \in 1 .. n |-> reportWhere(past[k], q)]
              B == [k \in 1 .. n |-> Only(past[k], reportWhere(past[k], q), "branchId", br)]
  <1>4. ASSUME NEW k \in 1 .. n
        PROVE  IsFiniteSet(A[k]) /\ IsFiniteSet(B[k])
    <2>1. PICK t : t = past[k]
      OBVIOUS
    <2>2. reportWhere(t, q) \in SUBSET Booked(t)
      BY <1>3, <2>1
    <2>3. Only(t, reportWhere(t, q), "branchId", br) \in SUBSET Booked(t)
      BY <2>2 DEF Only
    <2>4. IsFiniteSet(reportWhere(t, q)) /\ IsFiniteSet(Only(t, reportWhere(t, q), "branchId", br))
      BY <2>2, <2>3, BookedIsFinite
    <2>. QED
      BY <2>1, <2>4
  <1>5. ASSUME NEW k \in 1 .. n, k + 1 \in 1 .. n
        PROVE  /\ \E b : A[k] \ {b} = A[k + 1] \ {b}
               /\ \E b : B[k] \ {b} = B[k + 1] \ {b}
    <2>1. PICK t, u : t = past[k] /\ u = past[k + 1]
      OBVIOUS
    <2>2. PICK b \in Bookings : SameBut(t, u, b)
      BY <1>2, <1>5, <2>1 DEF SameBut
    <2>3. /\ AlikeBut(reportWhere(t, q), reportWhere(u, q), b)
          /\ AlikeBut(Only(t, reportWhere(t, q), "branchId", br),
                      Only(u, reportWhere(u, q), "branchId", br), b)
      <3>. HIDE DEF A, B
      <3>. QED
        BY <2>2, WhereChangesByOne
    <2>. QED
      BY <1>5, <2>1, <2>3 DEF AlikeBut
  <1>6. i \in 1 .. n /\ j \in 1 .. n
    BY <1>1
  <1>7. /\ A[i] = reportWhere(past[i], q) /\ A[j] = reportWhere(past[j], q)
        /\ B[i] = Only(past[i], reportWhere(past[i], q), "branchId", br)
        /\ B[j] = Only(past[j], reportWhere(past[j], q), "branchId", br)
    BY <1>6
  <1>. HIDE DEF A, B
  <1>8. Near(Cardinality(A[i]), Cardinality(A[j]), distance)
    BY <1>4, <1>5, <1>6, CountsWithin
  <1>9. Near(Cardinality(B[i]), Cardinality(B[j]), distance)
    BY <1>4, <1>5, <1>6, CountsWithin
  <1>. QED
    BY <1>7, <1>8, <1>9

LEMMA DaysAreParts ==
  ASSUME ReportsAssumption, NEW t \in BookingTables, NEW q \in Spans
  PROVE  /\ Parts([d \in q.start .. q.end |-> reportWhere(t, [q EXCEPT !.start = d, !.end = d])],
                  q.start .. q.end, reportWhere(t, q))
         /\ IsFiniteSet(q.start .. q.end)
  <1>1. PICK i \in Int, j \in Int : q = Span(i, j)
    BY DEF Spans
  <1>2. q.start = i /\ q.end = j
    BY <1>1 DEF Span
  <1>3. ASSUME NEW d
        PROVE  [q EXCEPT !.start = d, !.end = d] = Span(d, d)
    <2>1. q = [scope |-> "all", start |-> i, end |-> j, status |-> "any", partyType |-> "any"]
      BY <1>1 DEF Span
    <2>2. PICK p : p = [q EXCEPT !.start = d]
      OBVIOUS
    <2>3. p = [scope |-> "all", start |-> d, end |-> j, status |-> "any", partyType |-> "any"]
      BY <2>1, <2>2
    <2>4. [p EXCEPT !.end = d] = Span(d, d)
      BY <2>3 DEF Span
    <2>. QED
      BY <2>2, <2>4
  <1>4. \A k \in Int : \A l \in Int : \A b \in Bookings :
          b \in reportWhere(t, Span(k, l)) <=>
            /\ b \in Among(t, "all")
            /\ t[b].partyDate \in k .. l
    BY DEF reportWhere, Within, Among, Span
  <1>5. \A b \in Among(t, "all") : b \in Bookings /\ t[b].partyDate \in Int
    <2>1. ASSUME NEW b \in Among(t, "all")
          PROVE  b \in Bookings /\ t[b].partyDate \in Int
      <3>1. b \in Bookings /\ t[b] \in BookingRows
        BY DEF Among, BookingTables
      <3>. QED
        BY <3>1, RowDay
    <2>. QED
      BY <2>1
  <1>6. \A k, l \in Int : reportWhere(t, Span(k, l)) \subseteq Bookings
    BY DEF reportWhere, Within, Among
  <1>. DEFINE P == [d \in i .. j |-> reportWhere(t, Span(d, d))]
  <1>7. Parts(P, i .. j, reportWhere(t, Span(i, j)))
    <2>1. ASSUME NEW d \in i .. j
          PROVE  P[d] \in SUBSET reportWhere(t, Span(i, j))
      <3>1. ASSUME NEW b \in reportWhere(t, Span(d, d))
            PROVE  b \in reportWhere(t, Span(i, j))
        <4>0. d \in Int
          OBVIOUS
        <4>1. b \in Bookings
          BY <1>6, <4>0
        <4>2. b \in Among(t, "all") /\ t[b].partyDate \in d .. d
          BY <1>4, <4>0, <4>1
        <4>3. t[b].partyDate \in i .. j
          BY <1>5, <4>2
        <4>. QED
          BY <1>4, <4>1, <4>2, <4>3
      <3>. QED
        BY <3>1
    <2>2. ASSUME NEW b \in reportWhere(t, Span(i, j))
          PROVE  \E d \in i .. j : b \in P[d]
      <3>1. b \in Bookings
        BY <1>6
      <3>2. b \in Among(t, "all") /\ t[b].partyDate \in i .. j
        BY <1>4, <3>1
      <3>3. PICK d \in i .. j : d = t[b].partyDate
        BY <3>2
      <3>4. d \in Int /\ t[b].partyDate \in d .. d
        BY <3>3
      <3>5. b \in reportWhere(t, Span(d, d))
        BY <1>4, <3>1, <3>2, <3>4
      <3>. QED
        BY <3>3, <3>5
    <2>3. ASSUME NEW d \in i .. j, NEW e \in i .. j, d # e
          PROVE  P[d] \cap P[e] = {}
      <3>1. SUFFICES ASSUME NEW b \in P[d] \cap P[e]
                     PROVE  FALSE
        OBVIOUS
      <3>2. b \in Bookings /\ t[b].partyDate \in d .. d /\ t[b].partyDate \in e .. e
        BY <1>4, <1>6
      <3>3. b \in Among(t, "all")
        BY <1>4, <3>2
      <3>. QED
        BY <1>5, <2>3, <3>2, <3>3
    <2>. HIDE DEF P
    <2>. QED
      BY <2>1, <2>2, <2>3 DEF Parts
  <1>8. IsFiniteSet(i .. j)
    BY FS_Interval
  <1>9. [d \in q.start .. q.end |-> reportWhere(t, [q EXCEPT !.start = d, !.end = d])] = P
    BY <1>2, <1>3
  <1>. QED
    BY <1>1, <1>2, <1>7, <1>8, <1>9

-----------------------------------------------------------------------------
(* Rows cut off at a limit. *)

Least(m, n) == IF m < n THEN m ELSE n

LEMMA TakeFirst ==
  ASSUME ReportsAssumption, NEW t, NEW S \in SUBSET Booked(t), NEW key \in [S -> Nat]
  PROVE  \E K \in SUBSET S : FirstOf(K, S, key, Least(Cardinality(S), Limit))
  <1>1. IsFiniteSet(S) /\ Cardinality(S) \in Nat
    BY BookedIsFinite
  <1>2. Limit \in Nat
    BY ReportsConstants
  <1>3. PICK n \in Nat : n = Least(Cardinality(S), Limit) /\ n <= Cardinality(S)
    BY <1>1, <1>2 DEF Least
  <1>. QED
    BY <1>1, <1>3, FirstExist

LEMMA TakeByDate ==
  ASSUME ReportsAssumption, NEW t, NEW S \in SUBSET Booked(t)
  PROVE  /\ Take(t, S, partyDate) \in SUBSET S
         /\ Cardinality(Take(t, S, partyDate)) = Least(Cardinality(S), Limit)
         /\ \A b \in Take(t, S, partyDate), c \in S \ Take(t, S, partyDate) :
              t[b].partyDate <= t[c].partyDate
  <1>. DEFINE key == [b \in S |-> t[b].partyDate]
  <1>1. key \in [S -> Nat]
    <2>1. ASSUME NEW b \in S
          PROVE  t[b].partyDate \in Nat
      <3>1. PICK row \in BookingRows : row = t[b]
        BY DEF Booked
      <3>. QED
        BY <3>1, RowDay
    <2>. QED
      BY <2>1
  <1>2. \A b \in S : key[b] = t[b].partyDate
    OBVIOUS
  <1>. HIDE DEF key
  <1>3. PICK K \in SUBSET S : FirstOf(K, S, key, Least(Cardinality(S), Limit))
    BY <1>1, TakeFirst
  <1>4. /\ Cardinality(K) = IF Cardinality(S) < Limit THEN Cardinality(S) ELSE Limit
        /\ \A b \in K, c \in S \ K : partyDate(t[b]) <= partyDate(t[c])
    BY <1>2, <1>3 DEF FirstOf, Least, partyDate
  <1>. QED
    BY <1>4 DEF Take, Least, partyDate

LEMMA TakeAll ==
  ASSUME ReportsAssumption, NEW t, NEW S \in SUBSET Booked(t), NEW K \in SUBSET S,
         Cardinality(K) = Least(Cardinality(S), Limit), Cardinality(S) <= Limit
  PROVE  K = S
  <1>1. IsFiniteSet(S) /\ Cardinality(S) \in Nat
    BY BookedIsFinite
  <1>2. Limit \in Nat
    BY ReportsConstants
  <1>3. Cardinality(K) = Cardinality(S)
    BY <1>1, <1>2 DEF Least
  <1>. QED
    BY <1>1, <1>3, FS_Subset

LEMMA MinOfTwo ==
  ASSUME NEW m \in Nat, NEW n \in Nat
  PROVE  Min({m, n}) = Least(m, n)
  BY DEF Min, Least

-----------------------------------------------------------------------------
(* The totals of a report. *)

LEMMA FieldsOfBooked ==
  ASSUME NEW t, NEW b \in Booked(t)
  PROVE  t[b]["status"] \in Statuses /\ t[b]["partyType"] \in PartyTypes
         /\ t[b]["branchId"] \in Branches
  <1>1. PICK row \in BookingRows : row = t[b]
    BY DEF Booked
  <1>2. row.status \in Statuses /\ row.partyType \in PartyTypes /\ row.branchId \in Branches
    BY RowFields
  <1>. QED
    BY <1>1, <1>2

LEMMA FewKinds == IsFiniteSet(Statuses) /\ IsFiniteSet(PartyTypes)
  <1>1. Statuses = {"TENTATIVE"} \cup {"CONFIRMED"} \cup {"CANCELLED"} \cup {"COMPLETED"}
    BY DEF Statuses
  <1>2. PartyTypes = {"LUNCH"} \cup {"DINNER"}
    BY DEF PartyTypes
  <1>. QED
    BY <1>1, <1>2, FS_Union, FS_Singleton

LEMMA BranchesOfFew ==
  ASSUME ReportsAssumption, NEW t \in BookingTables, NEW q
  PROVE  /\ IsFiniteSet(BranchesOf(t, q)) /\ BranchesOf(t, q) \in SUBSET Branches
         /\ \A b \in reportWhere(t, q) : t[b]["branchId"] \in BranchesOf(t, q)
  <1>1. reportWhere(t, q) \in SUBSET Booked(t)
    BY WhereIsBooked
  <1>2. \A b \in reportWhere(t, q) : t[b]["branchId"] \in BranchesOf(t, q)
    BY DEF BranchesOf
  <1>3. BranchesOf(t, q) \in SUBSET Branches
    <2>1. ASSUME NEW b \in reportWhere(t, q)
          PROVE  t[b].branchId \in Branches
      BY <1>1, FieldsOfBooked
    <2>. QED
      BY <2>1 DEF BranchesOf
  <1>4. IsFiniteSet(BranchesOf(t, q))
    BY <1>3, ReportsConstants, FS_Subset
  <1>. QED
    BY <1>2, <1>3, <1>4

LEMMA CountsOfReport ==
  ASSUME ReportsAssumption, NEW t, \A k \in Queries : t[k] \in BookingTables, NEW q
  PROVE  /\ SumFunction(aggregateReport(t, q).byStatus) = Cardinality(reportWhere(t["status"], q))
         /\ SumFunction(aggregateReport(t, q).byType["parties"])
              = Cardinality(reportWhere(t["type"], q))
  <1>1. PICK u \in BookingTables, v \in BookingTables : u = t["status"] /\ v = t["type"]
    BY DEF Queries
  <1>2. reportWhere(u, q) \in SUBSET Booked(u) /\ reportWhere(v, q) \in SUBSET Booked(v)
    BY WhereIsBooked
  <1>3. /\ \A b \in reportWhere(u, q) : u[b]["status"] \in Statuses
        /\ \A b \in reportWhere(v, q) : v[b]["partyType"] \in PartyTypes
    BY <1>2, FieldsOfBooked
  <1>4. SumFunction([s \in Statuses |-> Cardinality(Only(u, reportWhere(u, q), "status", s))])
          = Cardinality(reportWhere(u, q))
    BY <1>2, <1>3, FewKinds, CountByField
  <1>5. SumFunction([m \in PartyTypes |-> Cardinality(Only(v, reportWhere(v, q), "partyType", m))])
          = Cardinality(reportWhere(v, q))
    BY <1>2, <1>3, FewKinds, CountByField
  <1>. QED
    BY <1>1, <1>4, <1>5, ReportCounts

LEMMA CountsOfBranches ==
  ASSUME ReportsAssumption, NEW t, \A k \in Queries : t[k] \in BookingTables, NEW q,
         NEW known, known = aggregateReport(t, q).branchBreakdown
  PROVE  /\ SumFunction([br \in DOMAIN known |-> known[br].total])
              = Cardinality(reportWhere(t["branch"], q))
         /\ \A br \in DOMAIN known :
              /\ known[br].total
                   = Cardinality(Only(t["branch"], reportWhere(t["branch"], q), "branchId", br))
              /\ SumFunction(known[br].byType["parties"])
                   = Cardinality(Only(t["typeByBranch"], reportWhere(t["typeByBranch"], q),
                                      "branchId", br))
              /\ known[br].confirmed \in Nat
              /\ known[br].confirmed
                   <= Cardinality(Only(t["confirmed"], reportWhere(t["confirmed"], q),
                                       "branchId", br))
  <1>1. PICK u \in BookingTables, v \in BookingTables, w \in BookingTables :
          u = t["branch"] /\ v = t["typeByBranch"] /\ w = t["confirmed"]
    BY DEF Queries
  <1>2. /\ reportWhere(u, q) \in SUBSET Booked(u) /\ reportWhere(v, q) \in SUBSET Booked(v)
        /\ reportWhere(w, q) \in SUBSET Booked(w)
    BY WhereIsBooked
  <1>3. DOMAIN known = BranchesOf(u, q)
    BY <1>1, ReportBranches
  <1>4. \A br \in BranchesOf(u, q) :
          /\ known[br].total = Cardinality(Only(u, reportWhere(u, q), "branchId", br))
          /\ known[br].confirmed
               = Cardinality(Only(w, Only(w, reportWhere(w, q), "branchId", br), "status", "CONFIRMED"))
          /\ known[br].byType["parties"]
               = [m \in PartyTypes |->
                    Cardinality(Only(v, Only(v, reportWhere(v, q), "branchId", br), "partyType", m))]
    BY <1>1, ReportBranches
  <1>5. SumFunction([br \in BranchesOf(u, q) |->
                       Cardinality(Only(u, reportWhere(u, q), "branchId", br))])
          = Cardinality(reportWhere(u, q))
    BY <1>2, BranchesOfFew, CountByField
  <1>6. [br \in DOMAIN known |-> known[br].total]
          = [br \in BranchesOf(u, q) |-> Cardinality(Only(u, reportWhere(u, q), "branchId", br))]
    BY <1>3, <1>4
  <1>7. ASSUME NEW br \in DOMAIN known
        PROVE  /\ SumFunction(known[br].byType["parties"])
                    = Cardinality(Only(v, reportWhere(v, q), "branchId", br))
               /\ known[br].confirmed \in Nat
               /\ known[br].confirmed <= Cardinality(Only(w, reportWhere(w, q), "branchId", br))
    <2>1. PICK V \in SUBSET Booked(v), X \in SUBSET Booked(w) :
            /\ V = Only(v, reportWhere(v, q), "branchId", br)
            /\ X = Only(w, reportWhere(w, q), "branchId", br)
      BY <1>2 DEF Only
    <2>2. \A b \in V : v[b]["partyType"] \in PartyTypes
      BY FieldsOfBooked
    <2>3. SumFunction([m \in PartyTypes |-> Cardinality(Only(v, V, "partyType", m))]) = Cardinality(V)
      BY <2>2, FewKinds, CountByField
    <2>4. IsFiniteSet(X)
      BY BookedIsFinite
    <2>5. Only(w, X, "status", "CONFIRMED") \in SUBSET X
      BY DEF Only
    <2>6. /\ Cardinality(Only(w, X, "status", "CONFIRMED")) \in Nat
          /\ Cardinality(Only(w, X, "status", "CONFIRMED")) <= Cardinality(X)
      BY <2>4, <2>5, FS_Subset, FS_CardinalityType
    <2>. QED
      BY <1>3, <1>4, <2>1, <2>3, <2>6
  <1>. QED
    BY <1>1, <1>3, <1>4, <1>5, <1>6, <1>7

LEMMA PaxOfReport ==
  ASSUME ReportsAssumption, NEW t, \A k \in Queries : t[k] \in BookingTables, NEW q,
         NEW f \in SplitPax, NEW known,
         known = aggregateReport(t, q).branchBreakdown
  PROVE  /\ aggregateReport(t, q).pax[f] = Pax(t["pax"], reportWhere(t["pax"], q), f)
         /\ SumFunction(aggregateReport(t, q).byType[f]) = Pax(t["type"], reportWhere(t["type"], q), f)
         /\ SumFunction([br \in DOMAIN known |-> known[br].pax[f]])
              = Pax(t["branch"], reportWhere(t["branch"], q), f)
  <1>1. PICK u \in BookingTables, v \in BookingTables : u = t["branch"] /\ v = t["type"]
    BY DEF Queries
  <1>2. reportWhere(u, q) \in SUBSET Booked(u) /\ reportWhere(v, q) \in SUBSET Booked(v)
    BY WhereIsBooked
  <1>3. f \in PaxFields
    BY DEF PaxFields, SplitPax
  <1>4. \A b \in reportWhere(v, q) : v[b]["partyType"] \in PartyTypes
    BY <1>2, FieldsOfBooked
  <1>5. SumFunction([m \in PartyTypes |-> Pax(v, Only(v, reportWhere(v, q), "partyType", m), f)])
          = Pax(v, reportWhere(v, q), f)
    BY <1>2, <1>3, <1>4, FewKinds, PaxByField
  <1>6. SumFunction([br \in BranchesOf(u, q) |-> Pax(u, Only(u, reportWhere(u, q), "branchId", br), f)])
          = Pax(u, reportWhere(u, q), f)
    BY <1>2, <1>3, BranchesOfFew, PaxByField
  <1>7. /\ DOMAIN known = BranchesOf(u, q)
        /\ \A br \in BranchesOf(u, q) :
             known[br].pax[f] = Pax(u, Only(u, reportWhere(u, q), "branchId", br), f)
    <2>1. \A br \in BranchesOf(t["branch"], q) :
            aggregateReport(t, q).branchBreakdown[br].pax[f] =
              Pax(t["branch"], Only(t["branch"], reportWhere(t["branch"], q), "branchId", br), f)
      BY BranchPax
    <2>2. DOMAIN aggregateReport(t, q).branchBreakdown = BranchesOf(t["branch"], q)
      BY ReportBranches
    <2>. QED
      BY <1>1, <2>1, <2>2, Zenon
  <1>8. [br \in DOMAIN known |-> known[br].pax[f]]
          = [br \in BranchesOf(u, q) |-> Pax(u, Only(u, reportWhere(u, q), "branchId", br), f)]
    BY <1>7
  <1>9. /\ aggregateReport(t, q).pax[f] = Pax(t["pax"], reportWhere(t["pax"], q), f)
        /\ aggregateReport(t, q).byType[f] =
             [m \in PartyTypes |->
                Pax(t["type"], Only(t["type"], reportWhere(t["type"], q), "partyType", m), f)]
    BY ReportPax
  <1>10. aggregateReport(t, q).byType[f] =
           [m \in PartyTypes |-> Pax(v, Only(v, reportWhere(v, q), "partyType", m), f)]
    BY <1>1, <1>9, Zenon
  <1>11. SumFunction(aggregateReport(t, q).byType[f]) = Pax(t["type"], reportWhere(t["type"], q), f)
    BY <1>1, <1>5, <1>10, Zenon
  <1>12. SumFunction([br \in DOMAIN known |-> known[br].pax[f]])
           = Pax(t["branch"], reportWhere(t["branch"], q), f)
    BY <1>1, <1>6, <1>8, Zenon
  <1>. QED
    BY <1>9, <1>11, <1>12, Zenon

-----------------------------------------------------------------------------

(* The moments of the queries of a report lie no further apart than torn. *)
LEMMA TornApart ==
  ASSUME NEW n \in Nat, NEW s \in [Queries -> 1 .. n], NEW torn,
         torn = Max({s[k] : k \in Queries}) - Min({s[k] : k \in Queries})
  PROVE  /\ torn \in Nat
         /\ \A k, l \in Queries : Near(s[k], s[l], torn)
         /\ torn = 0 => \A k, l \in Queries : s[k] = s[l]
  <1>. DEFINE S == {s[k] : k \in Queries}
  <1>1. S \in SUBSET (1 .. n) /\ S \in SUBSET Nat /\ S # {}
    BY DEF Queries
  <1>. HIDE DEF S
  <1>2. /\ Max(S) \in S /\ \A y \in S : y <= Max(S)
        /\ Min(S) \in S /\ \A y \in S : Min(S) <= y
    BY <1>1, LastOfSomeBounds, LeastOfSome
  <1>3. PICK i \in Nat, j \in Nat : i = Max(S) /\ j = Min(S)
    BY <1>1, <1>2
  <1>4. torn = i - j
    BY <1>3 DEF S
  <1>5. j <= i
    BY <1>2, <1>3
  <1>6. \A k \in Queries : s[k] \in S
    BY DEF S
  <1>7. \A k \in Queries : s[k] \in Nat /\ j <= s[k] /\ s[k] <= i
    BY <1>1, <1>2, <1>3, <1>6
  <1>8. torn \in Nat
    BY <1>4, <1>5
  <1>9. ASSUME NEW k \in Queries, NEW l \in Queries
        PROVE  Near(s[k], s[l], torn) /\ (torn = 0 => s[k] = s[l])
    <2>1. PICK x \in Nat, y \in Nat : x = s[k] /\ y = s[l]
      BY <1>7
    <2>2. j <= x /\ x <= i /\ j <= y /\ y <= i
      BY <1>7, <2>1
    <2>3. Near(x, y, torn) /\ (torn = 0 => x = y)
      BY <1>4, <2>2 DEF Near
    <2>. QED
      BY <2>1, <2>3
  <1>. QED
    BY <1>8, <1>9

LEMMA FiguresHold ==
  ASSUME ReportsAssumption, ReportsTyped, OneByOne
  PROVE  FiguresAgree
  <1>. SUFFICES ASSUME asked # NULL, asked.job = "report", seen # <<>>
                PROVE  FiguresAgree
    BY DEF FiguresAgree
  <1>1. seen \in [Queries -> 1 .. Len(past)] /\ asked.query \in Spans
    BY DEF ReportsTyped, AskedTyped, SeenTyped, sendDailyBookingReport, sendMonthlyBookingReports
  <1>2. Len(past) \in Nat /\ \A i \in 1 .. Len(past) : past[i] \in BookingTables
    BY DEF ReportsTyped
  <1>. DEFINE T == [k \in Queries |-> past[seen[k]]]
              F == aggregateReport(T, asked.query)
              torn == Max({seen[k] : k \in Queries}) - Min({seen[k] : k \in Queries})
              total == SumFunction(F.byStatus)
              known == F.branchBreakdown
              q == asked.query
  <1>3. \A k \in Queries : T[k] \in BookingTables /\ T[k] = past[seen[k]]
    BY <1>1, <1>2
  <1>4. /\ torn \in Nat
        /\ \A k, l \in Queries : Near(seen[k], seen[l], torn)
        /\ torn = 0 => \A k, l \in Queries : seen[k] = seen[l]
    BY <1>1, <1>2, TornApart
  <1>. HIDE DEF T, torn
  <1>5. ASSUME NEW k \in Queries, NEW l \in Queries, NEW br
        PROVE  /\ Near(Cardinality(reportWhere(T[k], q)), Cardinality(reportWhere(T[l], q)), torn)
               /\ Near(Cardinality(Only(T[k], reportWhere(T[k], q), "branchId", br)),
                       Cardinality(Only(T[l], reportWhere(T[l], q), "branchId", br)), torn)
    <2>1. seen[k] \in 1 .. Len(past) /\ seen[l] \in 1 .. Len(past)
      BY <1>1
    <2>. HIDE DEF q
    <2>. QED
      BY <1>3, <1>4, <2>1, WritesBetween
  <1>6. /\ total = Cardinality(reportWhere(T["status"], q))
        /\ SumFunction(F.byType["parties"]) = Cardinality(reportWhere(T["type"], q))
    BY <1>3, CountsOfReport
  <1>7. /\ SumFunction([br \in DOMAIN known |-> known[br].total])
             = Cardinality(reportWhere(T["branch"], q))
        /\ \A br \in DOMAIN known :
             /\ known[br].total
                  = Cardinality(Only(T["branch"], reportWhere(T["branch"], q), "branchId", br))
             /\ SumFunction(known[br].byType["parties"])
                  = Cardinality(Only(T["typeByBranch"], reportWhere(T["typeByBranch"], q),
                                     "branchId", br))
             /\ known[br].confirmed \in Nat
             /\ known[br].confirmed
                  <= Cardinality(Only(T["confirmed"], reportWhere(T["confirmed"], q),
                                      "branchId", br))
    BY <1>3, CountsOfBranches
  <1>8. "status" \in Queries /\ "type" \in Queries /\ "branch" \in Queries
        /\ "typeByBranch" \in Queries /\ "confirmed" \in Queries /\ "pax" \in Queries
    BY DEF Queries
  <1>. HIDE DEF F, total, known, q
  <1>9. /\ Near(total, SumFunction(F.byType["parties"]), torn)
        /\ Near(total, SumFunction([br \in DOMAIN known |-> known[br].total]), torn)
    BY <1>5, <1>6, <1>7, <1>8
  <1>10. ASSUME NEW br \in DOMAIN known
         PROVE  /\ Near(known[br].total, SumFunction(known[br].byType["parties"]), torn)
                /\ known[br].confirmed <= known[br].total + torn
    <2>1. Near(known[br].total, SumFunction(known[br].byType["parties"]), torn)
      BY <1>5, <1>7, <1>8
    <2>2. PICK x : x = Cardinality(Only(T["confirmed"], reportWhere(T["confirmed"], q), "branchId", br))
      OBVIOUS
    <2>3. Near(x, known[br].total, torn)
      BY <1>5, <1>7, <1>8, <2>2
    <2>4. \A k \in Queries : Cardinality(Only(T[k], reportWhere(T[k], q), "branchId", br)) \in Nat
      <3>1. ASSUME NEW u \in BookingTables
            PROVE  Cardinality(Only(u, reportWhere(u, q), "branchId", br)) \in Nat
        <4>1. Only(u, reportWhere(u, q), "branchId", br) \in SUBSET Booked(u)
          BY WhereIsBooked DEF Only
        <4>. QED
          BY <4>1, BookedIsFinite
      <3>. QED
        BY <1>3, <3>1
    <2>5. x \in Nat /\ known[br].total \in Nat
      BY <1>7, <1>8, <2>2, <2>4
    <2>6. known[br].confirmed \in Nat /\ known[br].confirmed <= x
      BY <1>7, <2>2
    <2>7. PICK m \in Nat, c \in Nat : m = known[br].total /\ c = known[br].confirmed
      BY <2>5, <2>6
    <2>8. c <= m + torn
      BY <1>4, <2>3, <2>5, <2>6, <2>7 DEF Near
    <2>. QED
      BY <2>1, <2>7, <2>8
  <1>11. ASSUME torn = 0
         PROVE  LET t == past[seen["status"]]
                    K == exportBookingsExcel(t, q)
                    days == q.start .. q.end
                IN  /\ total = SumFunction([d \in days |->
                         Cardinality(reportWhere(t, [q EXCEPT !.start = d, !.end = d]))])
                    /\ Cardinality(K) = Min({total, Limit})
                    /\ total <= Limit => Pax(t, K, "expectedPax") = F.pax["expectedPax"]
    <2>1. PICK t \in BookingTables : t = past[seen["status"]]
      BY <1>3, <1>8
    <2>2. \A k \in Queries : T[k] = t
      BY <1>3, <1>4, <1>8, <1>11, <2>1
    <2>3. PICK W : W = reportWhere(t, q) /\ W \in SUBSET Booked(t)
      BY WhereIsBooked
    <2>4. total = Cardinality(W) /\ IsFiniteSet(W) /\ total \in Nat
      BY <1>6, <1>8, <2>2, <2>3, BookedIsFinite
    <2>5. total = SumFunction([d \in q.start .. q.end |->
                    Cardinality(reportWhere(t, [q EXCEPT !.start = d, !.end = d]))])
      <3>. DEFINE P == [d \in q.start .. q.end |-> reportWhere(t, [q EXCEPT !.start = d, !.end = d])]
                  n == [d \in q.start .. q.end |->
                          Cardinality(reportWhere(t, [q EXCEPT !.start = d, !.end = d]))]
      <3>1. q \in Spans
        BY <1>1 DEF q
      <3>2. Parts(P, q.start .. q.end, W) /\ IsFiniteSet(q.start .. q.end)
        BY <2>3, <3>1, DaysAreParts
      <3>3. /\ DOMAIN n = q.start .. q.end /\ n = [d \in q.start .. q.end |-> n[d]]
            /\ \A d \in q.start .. q.end : n[d] = Cardinality(P[d])
        OBVIOUS
      <3>4. PICK D : D = q.start .. q.end
        OBVIOUS
      <3>. HIDE DEF P, n
      <3>5. /\ Parts(P, D, W) /\ IsFiniteSet(D)
            /\ DOMAIN n = D /\ n = [d \in D |-> n[d]] /\ \A d \in D : n[d] = Cardinality(P[d])
        BY <3>2, <3>3, <3>4
      <3>6. SumFunction(n) = Cardinality(W)
        BY <2>4, <3>5, CountOfParts
      <3>. QED
        BY <2>4, <3>6 DEF n
    <2>6. PICK K : K = exportBookingsExcel(t, q)
      OBVIOUS
    <2>7. K \in SUBSET W /\ Cardinality(K) = Least(Cardinality(W), Limit)
      BY <2>3, <2>6, TakeByDate DEF exportBookingsExcel
    <2>8. Cardinality(K) = Min({total, Limit})
      BY <2>4, <2>7, MinOfTwo, ReportsConstants
    <2>9. ASSUME total <= Limit
          PROVE  Pax(t, K, "expectedPax") = F.pax["expectedPax"]
      <3>1. K = W
        BY <2>3, <2>4, <2>7, <2>9, TakeAll
      <3>2. F.pax["expectedPax"] = Pax(T["pax"], reportWhere(T["pax"], q), "expectedPax")
        BY ReportPax DEF F, q, SplitPax
      <3>. QED
        BY <1>8, <2>2, <2>3, <3>1, <3>2
    <2>. QED
      BY <2>1, <2>5, <2>6, <2>8, <2>9
  <1>12. ASSUME torn = 0, NEW f \in {"expectedPax", "actualPax"}
         PROVE  /\ F.pax[f] = SumFunction(F.byType[f])
                /\ F.pax[f] = SumFunction([br \in DOMAIN known |-> known[br].pax[f]])
    <2>1. f \in SplitPax
      BY DEF SplitPax
    <2>2. known = aggregateReport(T, q).branchBreakdown /\ F = aggregateReport(T, q)
      BY DEF known, F, q
    <2>3. /\ F.pax[f] = Pax(T["pax"], reportWhere(T["pax"], q), f)
          /\ SumFunction(F.byType[f]) = Pax(T["type"], reportWhere(T["type"], q), f)
          /\ SumFunction([br \in DOMAIN known |-> known[br].pax[f]])
               = Pax(T["branch"], reportWhere(T["branch"], q), f)
      BY <1>3, <2>1, <2>2, PaxOfReport
    <2>4. T["pax"] = T["type"] /\ T["pax"] = T["branch"]
      BY <1>3, <1>4, <1>8, <1>12
    <2>. QED
      BY <2>3, <2>4
  <1>. QED
    BY <1>9, <1>10, <1>11, <1>12 DEF FiguresAgree, T, F, torn, total, known, q

(* The figures of a report agree in every reachable state, for all tables  *)
(* of bookings, all numbers of writes between its queries and every limit: *)
(* aggregateReport, exportBookingsExcel.                                   *)
THEOREM FiguresOfReportsAgree ==
  ASSUME ReportsAssumption
  PROVE  BookingSpec => []FiguresAgree
  <1>1. BookingSpec => [](ReportsTyped /\ OneByOne)
    BY ReportsTypeCorrect
  <1>2. ReportsTyped /\ OneByOne => FiguresAgree
    BY FiguresHold
  <1>. QED
    BY <1>1, <1>2, PTL

-----------------------------------------------------------------------------
(* The views of one day. *)

Covers(t, S, W) == W \in SUBSET Booked(t) /\ S \in SUBSET W /\ Cardinality(S) = Least(Cardinality(W), Limit)

DayOf(scope) == Within(booking, Among(booking, scope), today, today)

DailyOf(scope) == [getDailyReport(today) EXCEPT !.scope = scope]

Open(scope) ==
  {b \in Among(booking, scope) : booking[b].status \notin Closed /\ booking[b].partyDate >= today}

LEMMA AmongIsBooked ==
  ASSUME ReportsTyped, NEW scope
  PROVE  /\ Among(booking, scope) \in SUBSET Booked(booking)
         /\ \A start, end : Within(booking, Among(booking, scope), start, end) \in SUBSET Booked(booking)
         /\ Open(scope) \in SUBSET Booked(booking)
  BY DEF ReportsTyped, BookingTables, Booked, Among, Within, Open

LEMMA DailyIsDay ==
  ASSUME NEW scope
  PROVE  reportWhere(booking, DailyOf(scope)) = DayOf(scope)
  <1>1. DailyOf(scope) =
          [scope |-> scope, start |-> today, end |-> today, status |-> "any", partyType |-> "any"]
    BY DEF DailyOf, getDailyReport, Span
  <1>2. PICK q : q = DailyOf(scope)
    OBVIOUS
  <1>3. q.scope = scope /\ q.start = today /\ q.end = today /\ q.status = "any" /\ q.partyType = "any"
    BY <1>1, <1>2
  <1>4. reportWhere(booking, q) = DayOf(scope)
    BY <1>3 DEF reportWhere, DayOf
  <1>. QED
    BY <1>2, <1>4

LEMMA TakeByType ==
  ASSUME ReportsAssumption, NEW t, NEW S \in SUBSET Booked(t)
  PROVE  Covers(t, Take(t, S, partyType), S)
  <1>. DEFINE key == [b \in S |-> partyType(t[b])]
  <1>1. key \in [S -> Nat]
    BY DEF partyType
  <1>2. \A b \in S : key[b] = partyType(t[b])
    OBVIOUS
  <1>. HIDE DEF key
  <1>3. PICK K \in SUBSET S : FirstOf(K, S, key, Least(Cardinality(S), Limit))
    BY <1>1, TakeFirst
  <1>4. /\ Cardinality(K) = IF Cardinality(S) < Limit THEN Cardinality(S) ELSE Limit
        /\ \A b \in K, c \in S \ K : partyType(t[b]) <= partyType(t[c])
    BY <1>2, <1>3 DEF FirstOf, Least
  <1>. QED
    BY <1>4 DEF Take, Least, Covers

LEMMA TakeForCalendar ==
  ASSUME ReportsAssumption, NEW t, NEW S \in SUBSET Booked(t)
  PROVE  Covers(t, Take(t, S, LAMBDA row : 2 * row.partyDate + partyType(row)), S)
  <1>. DEFINE key == [b \in S |-> 2 * t[b].partyDate + partyType(t[b])]
  <1>1. key \in [S -> Nat]
    <2>1. ASSUME NEW b \in S
          PROVE  2 * t[b].partyDate + partyType(t[b]) \in Nat
      <3>1. PICK row \in BookingRows : row = t[b]
        BY DEF Booked
      <3>2. row.partyDate \in Nat /\ partyType(row) \in Nat
        BY RowDay DEF partyType
      <3>. QED
        BY <3>1, <3>2
    <2>. QED
      BY <2>1
  <1>2. \A b \in S : key[b] = 2 * t[b].partyDate + partyType(t[b])
    OBVIOUS
  <1>. HIDE DEF key
  <1>3. PICK K \in SUBSET S : FirstOf(K, S, key, Least(Cardinality(S), Limit))
    BY <1>1, TakeFirst
  <1>4. /\ Cardinality(K) = IF Cardinality(S) < Limit THEN Cardinality(S) ELSE Limit
        /\ \A b \in K, c \in S \ K :
             2 * t[b].partyDate + partyType(t[b]) <= 2 * t[c].partyDate + partyType(t[c])
    BY <1>2, <1>3 DEF FirstOf, Least
  <1>. QED
    BY <1>4 DEF Take, Least, Covers

LEMMA CoversAll ==
  ASSUME ReportsAssumption, NEW t, NEW S, NEW W, Covers(t, S, W),
         Cardinality(W) <= Limit \/ Cardinality(S) < Limit
  PROVE  S = W
  <1>1. IsFiniteSet(W) /\ Cardinality(W) \in Nat /\ Limit \in Nat
    BY BookedIsFinite, ReportsConstants DEF Covers
  <1>2. Cardinality(W) <= Limit
    BY <1>1 DEF Covers, Least
  <1>. QED
    BY <1>2, TakeAll DEF Covers

(* Today's open parties are not cut off from the upcoming ones. *)
LEMMA TodayIsUpcoming ==
  ASSUME ReportsAssumption, ReportsTyped, NEW scope, Cardinality(DayOf(scope)) <= Limit
  PROVE  {b \in DayOf(scope) : booking[b].status \notin Closed} \subseteq getUpcoming(scope)
  <1>1. PICK K : K = getUpcoming(scope)
    OBVIOUS
  <1>2. PICK U : U = Open(scope) /\ U \in SUBSET Booked(booking)
    BY AmongIsBooked
  <1>3. /\ K \in SUBSET U /\ Cardinality(K) = Least(Cardinality(U), Limit)
        /\ \A b \in K, c \in U \ K : booking[b].partyDate <= booking[c].partyDate
    BY <1>1, <1>2, TakeByDate DEF getUpcoming, Open
  <1>4. \A b \in Booked(booking) : booking[b].partyDate \in Nat
    BY RowDay DEF Booked
  <1>5. today \in Nat
    BY ReportsConstants DEF ReportsTyped
  <1>6. SUFFICES ASSUME NEW b \in DayOf(scope), booking[b].status \notin Closed, b \notin K
                 PROVE  FALSE
    BY <1>1
  <1>7. b \in Among(booking, scope) /\ booking[b].partyDate = today
    BY <1>5, <1>6, AmongIsBooked, <1>4 DEF DayOf, Within
  <1>8. b \in U
    BY <1>2, <1>5, <1>6, <1>7 DEF Open
  <1>9. ASSUME NEW c \in K
        PROVE  c \in DayOf(scope) \ {b}
    <2>1. c \in Among(booking, scope) /\ booking[c].partyDate >= today /\ c \in Booked(booking)
      BY <1>2, <1>3 DEF Open
    <2>2. booking[c].partyDate <= today
      BY <1>3, <1>6, <1>7, <1>8
    <2>3. booking[c].partyDate \in today .. today
      BY <1>4, <1>5, <2>1, <2>2
    <2>. QED
      BY <1>6, <2>1, <2>3 DEF DayOf, Within
  <1>10. DayOf(scope) \in SUBSET Booked(booking)
    BY AmongIsBooked DEF DayOf
  <1>11. /\ IsFiniteSet(DayOf(scope)) /\ Cardinality(DayOf(scope)) \in Nat
         /\ IsFiniteSet(U) /\ Cardinality(U) \in Nat
    BY <1>2, <1>10, BookedIsFinite
  <1>12. PICK R : R = DayOf(scope) \ {b}
    OBVIOUS
  <1>13. IsFiniteSet(R) /\ Cardinality(R) = Cardinality(DayOf(scope)) - 1 /\ K \in SUBSET R
    BY <1>6, <1>9, <1>11, <1>12, FS_RemoveElement
  <1>14. Cardinality(K) <= Cardinality(DayOf(scope)) - 1 /\ Cardinality(K) \in Nat
    BY <1>13, FS_Subset, FS_CardinalityType
  <1>15. Cardinality(K) < Cardinality(U)
    <2>1. Cardinality(K) <= Cardinality(U) /\ (Cardinality(K) = Cardinality(U) => K = U)
      BY <1>3, <1>11, FS_Subset
    <2>. QED
      BY <1>6, <1>8, <1>11, <1>14, <2>1
  <1>16. Limit \in Nat
    BY ReportsConstants
  <1>. QED
    BY <1>3, <1>11, <1>14, <1>15, <1>16 DEF Least

LEMMA WarningCodes ==
  ASSUME NEW row, NEW dayDiff, NEW seats
  PROVE  /\ "ACTUAL_PAX_MISSING" \in buildWarningsForBooking(row, dayDiff, seats, NULL) <=>
              row.actualPax = NULL /\ dayDiff < 0 /\ row.status \in {"CONFIRMED", "COMPLETED"}
         /\ "TENTATIVE_TOMORROW" \in buildWarningsForBooking(row, dayDiff, seats, NULL) <=>
              row.status = "TENTATIVE" /\ dayDiff = 1
  BY DEF buildWarningsForBooking

(* The bookings of the last and the next 7 days. *)
WeekOf(scope) == Within(booking, Among(booking, scope), today - 7, today + 7)

Warned(scope, code) == {b \in DOMAIN getWarnings(scope) : code \in getWarnings(scope)[b]}

LEMMA WarnedOfWeek ==
  ASSUME ReportsAssumption, ReportsTyped, NEW scope,
         Cardinality(DOMAIN getWarnings(scope)) < Limit
  PROVE  /\ Warned(scope, "ACTUAL_PAX_MISSING") =
              {b \in WeekOf(scope) : /\ booking[b].actualPax = NULL
                                     /\ booking[b].partyDate - today < 0
                                     /\ booking[b].status \in {"CONFIRMED", "COMPLETED"}}
         /\ Warned(scope, "TENTATIVE_TOMORROW") =
              {b \in WeekOf(scope) : /\ booking[b].status = "TENTATIVE"
                                     /\ booking[b].partyDate - today = 1}
  <1>1. PICK W : W = WeekOf(scope) /\ W \in SUBSET Booked(booking)
    BY AmongIsBooked DEF WeekOf
  <1>2. Covers(booking, Take(booking, W, partyDate), W)
    BY <1>1, TakeByDate DEF Covers
  <1>3. DOMAIN getWarnings(scope) = Take(booking, W, partyDate)
    BY <1>1 DEF getWarnings, WeekOf
  <1>4. DOMAIN getWarnings(scope) = W
    BY <1>2, <1>3, CoversAll
  <1>5. \A b \in W : getWarnings(scope)[b] =
          buildWarningsForBooking(booking[b], booking[b].partyDate - today,
                                  Capacity[booking[b].branchId], NULL)
    <2>1. \A b \in DOMAIN getWarnings(scope) : getWarnings(scope)[b] =
            buildWarningsForBooking(booking[b], booking[b].partyDate - today,
                                    Capacity[booking[b].branchId], NULL)
      BY DEF getWarnings
    <2>. QED
      BY <1>4, <2>1
  <1>. QED
    BY <1>1, <1>4, <1>5, WarningCodes DEF Warned

LEMMA MissingIsOverdue ==
  ASSUME ReportsAssumption, ReportsTyped, NEW scope,
         Cardinality(DOMAIN getWarnings(scope)) < Limit
  PROVE  Warned(scope, "ACTUAL_PAX_MISSING") =
           UNION {getPaginatedBookings(scope, today - 7, today - 1, s, TRUE) :
                    s \in {"CONFIRMED", "COMPLETED"}}
  <1>1. PICK A : A = Among(booking, scope) /\ A \in SUBSET Booked(booking)
    BY AmongIsBooked
  <1>2. \A b \in A : booking[b].partyDate \in Nat
    BY <1>1, RowDay DEF Booked
  <1>3. today \in Nat
    BY ReportsConstants DEF ReportsTyped
  <1>4. WeekOf(scope) = {b \in A : booking[b].partyDate \in (today - 7) .. (today + 7)}
    BY <1>1 DEF WeekOf, Within
  <1>5. UNION {getPaginatedBookings(scope, today - 7, today - 1, s, TRUE) :
                 s \in {"CONFIRMED", "COMPLETED"}}
          = {b \in A : /\ booking[b].partyDate \in (today - 7) .. (today - 1)
                       /\ booking[b].status \in {"CONFIRMED", "COMPLETED"}
                       /\ booking[b].actualPax = NULL}
    BY <1>1 DEF getPaginatedBookings, Within
  <1>6. \A b \in A : booking[b].partyDate \in (today - 7) .. (today - 1) <=>
          /\ booking[b].partyDate \in (today - 7) .. (today + 7)
          /\ booking[b].partyDate - today < 0
    BY <1>2, <1>3
  <1>. QED
    BY <1>4, <1>5, <1>6, WarnedOfWeek

LEMMA TentativeIsUpcoming ==
  ASSUME ReportsAssumption, ReportsTyped, NEW scope,
         Cardinality(DOMAIN getWarnings(scope)) < Limit,
         Cardinality(getUpcoming(scope)) < Limit
  PROVE  Warned(scope, "TENTATIVE_TOMORROW") =
           {b \in getUpcoming(scope) : /\ booking[b].status = "TENTATIVE"
                                       /\ booking[b].partyDate = today + 1}
  <1>1. PICK A : A = Among(booking, scope) /\ A \in SUBSET Booked(booking)
    BY AmongIsBooked
  <1>2. \A b \in A : booking[b].partyDate \in Nat
    BY <1>1, RowDay DEF Booked
  <1>3. today \in Nat
    BY ReportsConstants DEF ReportsTyped
  <1>4. WeekOf(scope) = {b \in A : booking[b].partyDate \in (today - 7) .. (today + 7)}
    BY <1>1 DEF WeekOf, Within
  <1>5. getUpcoming(scope) = Open(scope)
    <2>1. PICK U : U = Open(scope) /\ U \in SUBSET Booked(booking)
      BY AmongIsBooked
    <2>2. getUpcoming(scope) = Take(booking, U, partyDate)
      BY <2>1 DEF getUpcoming, Open
    <2>3. Covers(booking, Take(booking, U, partyDate), U)
      BY <2>1, TakeByDate DEF Covers
    <2>. QED
      BY <2>1, <2>2, <2>3, CoversAll
  <1>6. Open(scope) = {b \in A : booking[b].status \notin Closed /\ booking[b].partyDate >= today}
    BY <1>1 DEF Open
  <1>7. \A b \in A :
          /\ booking[b].partyDate - today = 1 <=> booking[b].partyDate = today + 1
          /\ booking[b].partyDate = today + 1 =>
               booking[b].partyDate >= today
               /\ booking[b].partyDate \in (today - 7) .. (today + 7)
    BY <1>2, <1>3
  <1>8. "TENTATIVE" \notin Closed
    BY DEF Closed
  <1>. QED
    BY <1>4, <1>5, <1>6, <1>7, <1>8, WarnedOfWeek

(* The dashboard of a day and the report of that day. *)
LEMMA DashboardOfDay ==
  ASSUME NEW scope
  PROVE  /\ getDashboard(scope).byStatus =
              [s \in Statuses |-> Cardinality(Only(booking, DayOf(scope), "status", s))]
         /\ getDashboard(scope).expectedPax = Pax(booking, DayOf(scope), "expectedPax")
         /\ getDashboard(scope).bookings = Take(booking, DayOf(scope), partyType)
         /\ getDashboard(scope).byType =
              [m \in PartyTypes |->
                 Cardinality(Only(booking, getDashboard(scope).bookings, "partyType", m))]
  BY DEF getDashboard, DayOf

FiguresOfDay(scope) == aggregateReport([k \in Queries |-> booking], DailyOf(scope))

LEMMA ReportOfDay ==
  ASSUME NEW scope,
         NEW F, F = FiguresOfDay(scope)
  PROVE  /\ F.byStatus = [s \in Statuses |-> Cardinality(Only(booking, DayOf(scope), "status", s))]
         /\ F.byType["parties"] =
              [m \in PartyTypes |-> Cardinality(Only(booking, DayOf(scope), "partyType", m))]
         /\ F.pax["expectedPax"] = Pax(booking, DayOf(scope), "expectedPax")
  <1>1. PICK t : t = [k \in Queries |-> booking]
    OBVIOUS
  <1>2. \A k \in Queries : t[k] = booking
    BY <1>1
  <1>3. t["status"] = booking /\ t["type"] = booking /\ t["pax"] = booking
    BY <1>2 DEF Queries
  <1>4. PICK q : q = DailyOf(scope) /\ reportWhere(booking, q) = DayOf(scope)
    BY DailyIsDay
  <1>5. F = aggregateReport(t, q)
    BY <1>1, <1>4 DEF FiguresOfDay
  <1>6. /\ aggregateReport(t, q).byStatus =
             [s \in Statuses |->
                Cardinality(Only(t["status"], reportWhere(t["status"], q), "status", s))]
        /\ aggregateReport(t, q).byType["parties"] =
             [m \in PartyTypes |->
                Cardinality(Only(t["type"], reportWhere(t["type"], q), "partyType", m))]
    BY ReportCounts
  <1>7. "expectedPax" \in SplitPax
    BY DEF SplitPax
  <1>8. aggregateReport(t, q).pax["expectedPax"] = Pax(t["pax"], reportWhere(t["pax"], q), "expectedPax")
    BY <1>7, ReportPax
  <1>. QED
    BY <1>3, <1>4, <1>5, <1>6, <1>8, Zenon

LEMMA DayCounts ==
  ASSUME ReportsAssumption, ReportsTyped, NEW scope
  PROVE  SumFunction(getDashboard(scope).byStatus) = Cardinality(DayOf(scope))
  <1>1. PICK S \in SUBSET Booked(booking) : S = DayOf(scope)
    BY AmongIsBooked DEF DayOf
  <1>2. \A b \in S : booking[b]["status"] \in Statuses
    BY FieldsOfBooked
  <1>3. SumFunction([s \in Statuses |-> Cardinality(Only(booking, S, "status", s))]) = Cardinality(S)
    BY <1>2, FewKinds, CountByField
  <1>. QED
    BY <1>1, <1>3, DashboardOfDay

LEMMA DashboardFigures ==
  ASSUME NEW scope,
         NEW F, F = FiguresOfDay(scope)
  PROVE  /\ getDashboard(scope).byStatus = F.byStatus
         /\ getDashboard(scope).expectedPax = F.pax["expectedPax"]
  BY DashboardOfDay, ReportOfDay

LEMMA DashboardHolds ==
  ASSUME ReportsAssumption, ReportsTyped, NEW scope,
         NEW D, D = getDashboard(scope),
         NEW F, F = FiguresOfDay(scope)
  PROVE  /\ Cardinality(D.bookings) = Min({SumFunction(D.byStatus), Limit})
         /\ SumFunction(D.byType) = Cardinality(D.bookings)
         /\ SumFunction(D.byStatus) <= Limit =>
              /\ D.byType = F.byType["parties"]
              /\ D.bookings = getCalendar(scope, today, today)
              /\ {b \in D.bookings : booking[b].status \notin Closed} \subseteq getUpcoming(scope)
  <1>1. PICK S \in SUBSET Booked(booking) : S = DayOf(scope)
    BY AmongIsBooked DEF DayOf
  <1>2. PICK K : K = D.bookings
    OBVIOUS
  <1>3. /\ SumFunction(D.byStatus) = Cardinality(S)
        /\ K = Take(booking, S, partyType)
        /\ D.byType = [m \in PartyTypes |-> Cardinality(Only(booking, K, "partyType", m))]
        /\ F.byType["parties"] = [m \in PartyTypes |-> Cardinality(Only(booking, S, "partyType", m))]
    <2>1. SumFunction(D.byStatus) = Cardinality(S)
      BY <1>1, DayCounts
    <2>2. /\ K = Take(booking, S, partyType)
          /\ D.byType = [m \in PartyTypes |-> Cardinality(Only(booking, K, "partyType", m))]
      <3>1. /\ D.bookings = Take(booking, DayOf(scope), partyType)
            /\ D.byType =
                 [m \in PartyTypes |-> Cardinality(Only(booking, D.bookings, "partyType", m))]
        BY DashboardOfDay
      <3>. QED
        BY <1>1, <1>2, <3>1
    <2>3. F.byType["parties"] = [m \in PartyTypes |-> Cardinality(Only(booking, S, "partyType", m))]
      <3>1. F.byType["parties"] =
              [m \in PartyTypes |-> Cardinality(Only(booking, DayOf(scope), "partyType", m))]
        BY ReportOfDay
      <3>. QED
        BY <1>1, <3>1
    <2>. QED
      BY <2>1, <2>2, <2>3
  <1>4. Covers(booking, K, S)
    <2>1. Covers(booking, Take(booking, S, partyType), S)
      BY TakeByType
    <2>. QED
      BY <1>3, <2>1
  <1>5. IsFiniteSet(S) /\ Cardinality(S) \in Nat /\ Limit \in Nat
    BY BookedIsFinite, ReportsConstants
  <1>6. Cardinality(K) = Min({SumFunction(D.byStatus), Limit})
    BY <1>3, <1>4, <1>5, MinOfTwo DEF Covers
  <1>7. SumFunction(D.byType) = Cardinality(K)
    <2>1. K \in SUBSET Booked(booking)
      BY <1>4 DEF Covers
    <2>2. \A b \in K : booking[b]["partyType"] \in PartyTypes
      BY <2>1, FieldsOfBooked
    <2>3. SumFunction([m \in PartyTypes |-> Cardinality(Only(booking, K, "partyType", m))])
            = Cardinality(K)
      BY <2>1, <2>2, FewKinds, CountByField
    <2>. QED
      BY <1>3, <2>3
  <1>8. ASSUME Cardinality(S) <= Limit
        PROVE  /\ K = S
               /\ K = getCalendar(scope, today, today)
               /\ {b \in K : booking[b].status \notin Closed} \subseteq getUpcoming(scope)
    <2>1. K = S
      BY <1>4, <1>8, CoversAll
    <2>2. getCalendar(scope, today, today) = S
      <3>1. PICK C : C = Take(booking, S, LAMBDA row : 2 * row.partyDate + partyType(row))
        OBVIOUS
      <3>2. Covers(booking, C, S)
        BY <3>1, TakeForCalendar
      <3>3. C = S
        BY <1>8, <3>2, CoversAll
      <3>. QED
        BY <1>1, <3>1, <3>3 DEF getCalendar, DayOf
    <2>3. {b \in S : booking[b].status \notin Closed} \subseteq getUpcoming(scope)
      BY <1>1, <1>8, TodayIsUpcoming
    <2>. QED
      BY <2>1, <2>2, <2>3
  <1>. QED
    BY <1>2, <1>3, <1>6, <1>7, <1>8

LEMMA LedgerHolds ==
  ASSUME ReportsTyped, NEW b \in Among(booking, "all")
  PROVE  getBookingById(b).expectedPax = booking[b].expectedPax
  <1>. DEFINE E == [delta : Int]
  <1>1. PICK row \in BookingRows : row = booking[b]
    BY DEF ReportsTyped, BookingTables, Among
  <1>2. /\ row.adjustments \in Seq(E) /\ row.initialPax \in Int
        /\ row.expectedPax = computeExpectedPax(row.initialPax, row.adjustments)
    BY RowFields
  <1>3. \A e \in E : e.delta \in Int
    OBVIOUS
  <1>. HIDE DEF E
  <1>4. computePaxSummary(row.initialPax, row.adjustments, row.actualPax, NULL).expectedPax
          = computeExpectedPax(row.initialPax, row.adjustments)
    BY <1>2, <1>3, SummaryIsExpectedPax
  <1>. QED
    BY <1>1, <1>2, <1>4 DEF getBookingById

LEMMA ViewsHold ==
  ASSUME ReportsAssumption, ReportsTyped
  PROVE  ViewsAgree
  <1>1. ASSUME NEW scope
        PROVE  LET D == getDashboard(scope)
                   F == FiguresOfDay(scope)
               IN  /\ D.byStatus = F.byStatus
                   /\ D.expectedPax = F.pax["expectedPax"]
                   /\ Cardinality(D.bookings) = Min({SumFunction(D.byStatus), Limit})
                   /\ SumFunction(D.byType) = Cardinality(D.bookings)
                   /\ SumFunction(D.byStatus) <= Limit =>
                        /\ D.byType = F.byType["parties"]
                        /\ D.bookings = getCalendar(scope, today, today)
                        /\ {b \in D.bookings : booking[b].status \notin Closed}
                             \subseteq getUpcoming(scope)
    <2>1. PICK d, f : /\ d = getDashboard(scope)
                      /\ f = FiguresOfDay(scope)
      OBVIOUS
    <2>2. /\ d.byStatus = f.byStatus
          /\ d.expectedPax = f.pax["expectedPax"]
      BY <2>1, DashboardFigures
    <2>3. /\ Cardinality(d.bookings) = Min({SumFunction(d.byStatus), Limit})
          /\ SumFunction(d.byType) = Cardinality(d.bookings)
          /\ SumFunction(d.byStatus) <= Limit =>
               /\ d.byType = f.byType["parties"]
               /\ d.bookings = getCalendar(scope, today, today)
               /\ {b \in d.bookings : booking[b].status \notin Closed} \subseteq getUpcoming(scope)
      BY <2>1, DashboardHolds
    <2>. QED
      BY <2>1, <2>2, <2>3
  <1>2. ASSUME NEW scope, Cardinality(DOMAIN getWarnings(scope)) < Limit
        PROVE  /\ Warned(scope, "ACTUAL_PAX_MISSING") =
                    UNION {getPaginatedBookings(scope, today - 7, today - 1, s, TRUE) :
                             s \in {"CONFIRMED", "COMPLETED"}}
               /\ Cardinality(getUpcoming(scope)) < Limit =>
                    Warned(scope, "TENTATIVE_TOMORROW") =
                      {b \in getUpcoming(scope) : /\ booking[b].status = "TENTATIVE"
                                                  /\ booking[b].partyDate = today + 1}
    BY <1>2, MissingIsOverdue, TentativeIsUpcoming
  <1>. QED
    BY <1>1, <1>2, LedgerHolds DEF ViewsAgree, FiguresOfDay, DailyOf, Warned

(* What is read of the bookings at one moment agrees in every reachable    *)
(* state, for all tables and every limit: the lists, the calendar, the     *)
(* warnings, the dashboard and the ledger of booking.service.ts.           *)
THEOREM ViewsOfBookingsAgree ==
  ASSUME ReportsAssumption
  PROVE  BookingSpec => []ViewsAgree
  <1>1. BookingSpec => []ReportsTyped
    BY ReportsTypeCorrect, PTL
  <1>2. ReportsTyped => ViewsAgree
    BY ViewsHold
  <1>. QED
    BY <1>1, <1>2, PTL

-----------------------------------------------------------------------------
(* The matrix of a mail. *)

PaxSums(g, u, t, S, f) ==
  SubsetSums(g, u, S) /\ \A T \in SUBSET S : Pax(t, T, f) = g[T]

LEMMA PaxOfSubsets ==
  ASSUME ReportsAssumption, NEW t, NEW S \in SUBSET Booked(t), NEW f \in PaxFields
  PROVE  \E u \in [S -> Int] : \E g : PaxSums(g, u, t, S, f)
  <1>1. PICK u : u = Guests(t, S, f)
    OBVIOUS
  <1>2. u \in [S -> Int] /\ \A T \in SUBSET S : Guests(t, T, f) = [b \in T |-> u[b]]
    <2>1. Guests(t, S, f) \in [S -> Int]
      BY GuestsAreNaturals
    <2>2. \A T \in SUBSET S : Guests(t, T, f) = [b \in T |-> Guests(t, S, f)[b]]
      BY DEF Guests
    <2>. QED
      BY <1>1, <2>1, <2>2
  <1>3. IsFiniteSet(S)
    BY BookedIsFinite
  <1>4. PICK g : SubsetSums(g, u, S)
    BY <1>2, <1>3, SumsOfSubsets
  <1>5. \A T \in SUBSET S : Pax(t, T, f) = g[T]
    <2>1. ASSUME NEW T \in SUBSET S
          PROVE  Pax(t, T, f) = g[T]
      <3>1. Pax(t, T, f) = SumFunction(Guests(t, T, f))
        BY PaxIsSum
      <3>. QED
        BY <1>2, <1>4, <3>1 DEF SubsetSums
    <2>. QED
      BY <2>1
  <1>. QED
    BY <1>2, <1>4, <1>5 DEF PaxSums

LEMMA PaxOfTwo ==
  ASSUME ReportsAssumption, NEW t, NEW S \in SUBSET Booked(t), NEW f \in PaxFields,
         NEW A \in SUBSET S, NEW B \in SUBSET S, A \cup B = S, A \cap B = {}
  PROVE  IsTotal(Pax(t, S, f), Pax(t, A, f), Pax(t, B, f))
  <1>1. PICK u \in [S -> Int] : \E g : PaxSums(g, u, t, S, f)
    BY PaxOfSubsets
  <1>2. PICK g : SubsetSums(g, u, S) /\ \A T \in SUBSET S : Pax(t, T, f) = g[T]
    BY <1>1 DEF PaxSums
  <1>3. IsFiniteSet(S)
    BY BookedIsFinite
  <1>4. IsTotal(g[A \cup B], g[A], g[B])
    BY <1>2, <1>3, AddsUnion
  <1>. QED
    BY <1>2, <1>4

LEMMA PaxOfNone ==
  ASSUME NEW t, NEW f
  PROVE  Pax(t, {}, f) = 0
  <1>1. Guests(t, {}, f) = [x \in {} |-> 0]
    BY DEF Guests
  <1>. QED
    BY <1>1, PaxIsSum, SumNone

(* The bookings of a cell. *)
Of(t, rows, br, d, m, statuses) ==
  {b \in rows : /\ t[b].branchId = br
                /\ t[b].partyDate = d
                /\ t[b].partyType = m
                /\ t[b].status \in statuses \ {"CANCELLED"}}

LEMMA CellIsPax ==
  ASSUME ReportsAssumption, NEW t, NEW rows \in SUBSET Booked(t),
         NEW br, NEW d, NEW m, NEW statuses
  PROVE  /\ Cell(t, rows, br, d, m, statuses) = Pax(t, Of(t, rows, br, d, m, statuses), "expectedPax")
         /\ Cell(t, rows, br, d, m, statuses) \in Nat
  <1>1. Cell(t, rows, br, d, m, statuses) = Pax(t, Of(t, rows, br, d, m, statuses), "expectedPax")
    BY DEF Cell, Of
  <1>2. PICK S \in SUBSET Booked(t) : S = Of(t, rows, br, d, m, statuses)
    BY DEF Of
  <1>3. Pax(t, S, "expectedPax") \in Nat
    BY PaxIsNatural DEF PaxFields
  <1>. QED
    BY <1>1, <1>2, <1>3

(* The tentative guests of a cell and the others are all of them. *)
LEMMA CellSplits ==
  ASSUME ReportsAssumption, NEW t, NEW rows \in SUBSET Booked(t),
         NEW br, NEW d, NEW m
  PROVE  IsTotal(Cell(t, rows, br, d, m, Statuses), Cell(t, rows, br, d, m, {"TENTATIVE"}),
                 Cell(t, rows, br, d, m, Statuses \ {"TENTATIVE"}))
  <1>1. PICK S \in SUBSET Booked(t) : S = Of(t, rows, br, d, m, Statuses)
    BY DEF Of
  <1>2. PICK A \in SUBSET S : A = Of(t, rows, br, d, m, {"TENTATIVE"})
    BY <1>1 DEF Of, Statuses
  <1>3. PICK B \in SUBSET S : B = Of(t, rows, br, d, m, Statuses \ {"TENTATIVE"})
    BY <1>1 DEF Of
  <1>4. A \cup B = S /\ A \cap B = {}
    BY <1>1, <1>2, <1>3 DEF Of
  <1>5. IsTotal(Pax(t, S, "expectedPax"), Pax(t, A, "expectedPax"), Pax(t, B, "expectedPax"))
    BY <1>4, PaxOfTwo DEF PaxFields
  <1>. QED
    BY <1>1, <1>2, <1>3, <1>5, CellIsPax

LEMMA TakeForMatrix ==
  ASSUME ReportsAssumption, NEW t, NEW S \in SUBSET Booked(t)
  PROVE  Covers(t, Take(t, S, LAMBDA row : (LastDay + 1) * BranchId[row.branchId] + row.partyDate), S)
  <1>. DEFINE key == [b \in S |-> (LastDay + 1) * BranchId[t[b].branchId] + t[b].partyDate]
  <1>1. key \in [S -> Nat]
    <2>1. ASSUME NEW b \in S
          PROVE  (LastDay + 1) * BranchId[t[b].branchId] + t[b].partyDate \in Nat
      <3>1. PICK row \in BookingRows : row = t[b]
        BY DEF Booked
      <3>2. row.partyDate \in Nat
        BY RowDay
      <3>3. row.branchId \in Branches
        BY RowFields
      <3>4. LastDay \in Nat /\ BranchId[row.branchId] \in Nat
        BY <3>3, ReportsConstants
      <3>5. (LastDay + 1) * BranchId[row.branchId] \in Nat
        BY <3>4
      <3>. QED
        BY <3>1, <3>2, <3>5
    <2>. QED
      BY <2>1
  <1>2. \A b \in S : key[b] = (LastDay + 1) * BranchId[t[b].branchId] + t[b].partyDate
    OBVIOUS
  <1>. HIDE DEF key
  <1>3. PICK K \in SUBSET S : FirstOf(K, S, key, Least(Cardinality(S), Limit))
    BY <1>1, TakeFirst
  <1>4. /\ Cardinality(K) = IF Cardinality(S) < Limit THEN Cardinality(S) ELSE Limit
        /\ \A b \in K, c \in S \ K :
             (LastDay + 1) * BranchId[t[b].branchId] + t[b].partyDate
               <= (LastDay + 1) * BranchId[t[c].branchId] + t[c].partyDate
    BY <1>2, <1>3 DEF FirstOf, Least
  <1>. QED
    BY <1>4 DEF Take, Least, Covers

(* The rows of a range are bookings of its report, and all of them if they *)
(* are not cut off.                                                        *)
LEMMA RowsOfRange ==
  ASSUME ReportsAssumption, NEW t \in BookingTables, NEW q \in Spans
  PROVE  Covers(t, fetchRangeRows(t, q), reportWhere(t, q))
  <1>1. PICK i \in Int, j \in Int : q = Span(i, j)
    BY DEF Spans
  <1>2. q.scope = "all" /\ q.status = "any" /\ q.partyType = "any"
    BY <1>1 DEF Span
  <1>3. reportWhere(t, q) = Within(t, Among(t, "all"), q.start, q.end)
    BY <1>2 DEF reportWhere
  <1>4. PICK S \in SUBSET Booked(t) : S = reportWhere(t, q)
    BY WhereIsBooked
  <1>5. Covers(t, Take(t, S, LAMBDA row : (LastDay + 1) * BranchId[row.branchId] + row.partyDate), S)
    BY TakeForMatrix
  <1>. QED
    BY <1>3, <1>4, <1>5 DEF fetchRangeRows

(* The parties of a meal that count, and those of one day. *)
Meals(t, rows, m) == {b \in rows : t[b].partyType = m /\ t[b].status # "CANCELLED"}

MealsOn(t, rows, d, m) == {b \in Meals(t, rows, m) : t[b].partyDate = d}

LEMMA DayTotalIsPax ==
  ASSUME ReportsAssumption, NEW t, NEW rows \in SUBSET Booked(t), NEW d, NEW m
  PROVE  /\ DayTotal(t, rows, d, m) = Pax(t, MealsOn(t, rows, d, m), "expectedPax")
         /\ DayTotal(t, rows, d, m) \in Nat
  <1>1. PICK S \in SUBSET Booked(t) : S = MealsOn(t, rows, d, m)
    BY DEF MealsOn, Meals
  <1>. DEFINE P == [br \in Branches |-> Of(t, rows, br, d, m, Statuses)]
  <1>2. Parts(P, Branches, S)
    <2>1. \A b \in rows : t[b].branchId \in Branches /\ t[b].status \in Statuses
      BY FieldsOfBooked
    <2>2. \A br \in Branches : \A b : b \in P[br] <=> b \in S /\ t[b].branchId = br
      BY <1>1, <2>1 DEF Of, MealsOn, Meals
    <2>3. \A b \in S : t[b].branchId \in Branches
      BY <1>1, <2>1 DEF MealsOn, Meals
    <2>. HIDE DEF P
    <2>. QED
      BY <2>2, <2>3 DEF Parts
  <1>3. IsFiniteSet(Branches) /\ "expectedPax" \in PaxFields
    BY ReportsConstants DEF PaxFields
  <1>4. [br \in Branches |-> Cell(t, rows, br, d, m, Statuses)]
          = [br \in Branches |-> Pax(t, P[br], "expectedPax")]
    <2>1. \A br \in Branches :
            Cell(t, rows, br, d, m, Statuses) = Pax(t, P[br], "expectedPax")
      BY CellIsPax
    <2>. QED
      BY <2>1
  <1>. HIDE DEF P
  <1>5. SumFunction([br \in Branches |-> Pax(t, P[br], "expectedPax")]) = Pax(t, S, "expectedPax")
    BY <1>2, <1>3, PaxByParts
  <1>6. Pax(t, S, "expectedPax") \in Nat
    BY <1>3, PaxIsNatural
  <1>. QED
    BY <1>1, <1>4, <1>5, <1>6 DEF DayTotal

LEMMA GrandTotalIsPax ==
  ASSUME ReportsAssumption, NEW t, NEW rows \in SUBSET Booked(t), NEW m,
         NEW days, IsFiniteSet(days), \A b \in rows : t[b].partyDate \in days
  PROVE  SumFunction([d \in days |-> DayTotal(t, rows, d, m)])
           = Pax(t, Meals(t, rows, m), "expectedPax")
  <1>1. PICK S \in SUBSET Booked(t) : S = Meals(t, rows, m)
    BY DEF Meals
  <1>. DEFINE P == [d \in days |-> MealsOn(t, rows, d, m)]
  <1>2. Parts(P, days, S)
    BY <1>1 DEF Parts, MealsOn, Meals
  <1>3. [d \in days |-> DayTotal(t, rows, d, m)] = [d \in days |-> Pax(t, P[d], "expectedPax")]
    <2>1. \A d \in days : DayTotal(t, rows, d, m) = Pax(t, P[d], "expectedPax")
      BY DayTotalIsPax
    <2>. QED
      BY <2>1
  <1>. HIDE DEF P
  <1>4. SumFunction([d \in days |-> Pax(t, P[d], "expectedPax")]) = Pax(t, S, "expectedPax")
    BY <1>2, PaxByParts DEF PaxFields
  <1>. QED
    BY <1>1, <1>3, <1>4

(* No guests are lost with the branches the matrix leaves out. *)
LEMMA BranchesLeftOut ==
  ASSUME ReportsAssumption, NEW t \in BookingTables, NEW q \in Spans,
         NEW rows \in SUBSET reportWhere(t, q),
         NEW branches, branches = MatrixBranches(t, rows, q, BranchesOf(t, q)),
         NEW d \in q.start .. q.end, NEW m \in PartyTypes
  PROVE  DayTotal(t, rows, d, m)
           = SumFunction([br \in branches |-> Cell(t, rows, br, d, m, Statuses)])
  <1>1. rows \in SUBSET Booked(t)
    BY WhereIsBooked
  <1>. DEFINE u == [br \in Branches |-> Cell(t, rows, br, d, m, Statuses)]
  <1>2. u \in [Branches -> Int]
    <2>1. \A br \in Branches : Cell(t, rows, br, d, m, Statuses) \in Nat
      BY <1>1, CellIsPax
    <2>. QED
      BY <2>1
  <1>3. branches \in SUBSET Branches
    BY BranchesOfFew DEF MatrixBranches
  <1>4. ASSUME NEW br \in Branches \ branches
        PROVE  u[br] = 0
    <2>1. PICK n \in Nat : n = Cell(t, rows, br, d, m, Statuses)
      BY <1>1, CellIsPax
    <2>2. CASE br \in BranchesOf(t, q)
      BY <1>4, <2>1, <2>2 DEF MatrixBranches
    <2>3. CASE br \notin BranchesOf(t, q)
      <3>1. Of(t, rows, br, d, m, Statuses) = {}
        BY <2>3 DEF Of, BranchesOf
      <3>2. Cell(t, rows, br, d, m, Statuses) = 0
        BY <1>1, <3>1, CellIsPax, PaxOfNone
      <3>. QED
        BY <3>2
    <2>. QED
      BY <2>2, <2>3
  <1>5. [br \in branches |-> Cell(t, rows, br, d, m, Statuses)] = [br \in branches |-> u[br]]
    BY <1>3
  <1>6. DayTotal(t, rows, d, m) = SumFunction(u)
    BY DEF DayTotal
  <1>7. IsFiniteSet(Branches)
    BY ReportsConstants
  <1>. HIDE DEF u
  <1>8. SumFunction(u) = SumFunction([br \in branches |-> u[br]])
    BY <1>2, <1>3, <1>4, <1>7, SumWithoutZeros
  <1>. QED
    BY <1>5, <1>6, <1>8

Columns(t, rows, d) == {m \in PartyTypes : DayTotal(t, rows, d, m) > 0}

LEMMA MatrixFoot ==
  ASSUME NEW t, NEW rows, NEW q, NEW branches
  PROVE  /\ DOMAIN buildDateMatrixPdf(t, rows, q, branches).foot = q.start .. q.end
         /\ \A d \in q.start .. q.end :
              buildDateMatrixPdf(t, rows, q, branches).foot[d]
                = [m \in Columns(t, rows, d) |-> DayTotal(t, rows, d, m)]
  BY DEF buildDateMatrixPdf, Columns

LEMMA MatrixGrandTotal ==
  ASSUME NEW t, NEW rows, NEW q, NEW branches, NEW m \in PartyTypes
  PROVE  buildDateMatrixPdf(t, rows, q, branches).grandTotal[m]
           = SumFunction([d \in q.start .. q.end |-> DayTotal(t, rows, d, m)])
  BY DEF buildDateMatrixPdf

(* The days whose columns show a meal. *)
ShownDays(table, m) == {d \in DOMAIN table.foot : m \in DOMAIN table.foot[d]}

LEMMA ShownOfMatrix ==
  ASSUME NEW t, NEW rows, NEW q, NEW branches, NEW m \in PartyTypes,
         NEW table, table = buildDateMatrixPdf(t, rows, q, branches)
  PROVE  /\ ShownDays(table, m) = {d \in q.start .. q.end : DayTotal(t, rows, d, m) > 0}
         /\ \A d \in ShownDays(table, m) : table.foot[d][m] = DayTotal(t, rows, d, m)
  <1>1. DOMAIN table.foot = q.start .. q.end
    BY MatrixFoot
  <1>2. \A d \in q.start .. q.end :
          table.foot[d] = [n \in Columns(t, rows, d) |-> DayTotal(t, rows, d, n)]
    BY MatrixFoot
  <1>3. \A d \in q.start .. q.end : m \in DOMAIN table.foot[d] <=> DayTotal(t, rows, d, m) > 0
    BY <1>2 DEF Columns
  <1>4. \A d \in q.start .. q.end : m \in DOMAIN table.foot[d] =>
          table.foot[d][m] = DayTotal(t, rows, d, m)
    BY <1>2
  <1>. QED
    BY <1>1, <1>3, <1>4 DEF ShownDays

(* The row TOTAL and the rows of the branches. *)
LEMMA TotalsOfMatrix ==
  ASSUME ReportsAssumption, NEW t \in BookingTables, NEW q \in Spans,
         NEW rows \in SUBSET reportWhere(t, q),
         NEW branches, branches = MatrixBranches(t, rows, q, BranchesOf(t, q)),
         NEW table, table = buildDateMatrixPdf(t, rows, q, branches),
         NEW m \in PartyTypes, NEW d \in ShownDays(table, m)
  PROVE  /\ table.foot[d][m] = SumFunction([br \in branches |-> table.body[br][d][m].pax])
         /\ \A br \in branches : LET cell == table.body[br][d][m]
                               IN  cell.pax = cell.T + cell.C
  <1>1. d \in q.start .. q.end /\ m \in Columns(t, rows, d)
        /\ table.foot[d][m] = DayTotal(t, rows, d, m)
    BY ShownOfMatrix DEF Columns
  <1>2. ASSUME NEW br \in branches
        PROVE  /\ table.body[br][d][m].pax = Cell(t, rows, br, d, m, Statuses)
               /\ table.body[br][d][m].T = Cell(t, rows, br, d, m, {"TENTATIVE"})
               /\ table.body[br][d][m].C = Cell(t, rows, br, d, m, Statuses \ {"TENTATIVE"})
    <2>1. table.body[br][d][m] =
            [pax |-> Cell(t, rows, br, d, m, Statuses),
             T |-> Cell(t, rows, br, d, m, {"TENTATIVE"}),
             C |-> Cell(t, rows, br, d, m, Statuses \ {"TENTATIVE"})]
      BY <1>1 DEF buildDateMatrixPdf, Columns
    <2>. QED
      BY <2>1
  <1>3. [br \in branches |-> table.body[br][d][m].pax]
          = [br \in branches |-> Cell(t, rows, br, d, m, Statuses)]
    BY <1>2
  <1>4. DayTotal(t, rows, d, m)
          = SumFunction([br \in branches |-> Cell(t, rows, br, d, m, Statuses)])
    BY <1>1, BranchesLeftOut
  <1>5. rows \in SUBSET Booked(t)
    BY WhereIsBooked
  <1>6. ASSUME NEW br \in branches
        PROVE  IsTotal(table.body[br][d][m].pax, table.body[br][d][m].T, table.body[br][d][m].C)
    <2>1. IsTotal(Cell(t, rows, br, d, m, Statuses), Cell(t, rows, br, d, m, {"TENTATIVE"}),
                  Cell(t, rows, br, d, m, Statuses \ {"TENTATIVE"}))
      BY <1>5, CellSplits
    <2>. QED
      BY <1>2, <2>1
  <1>. QED
    BY <1>1, <1>3, <1>4, <1>6 DEF IsTotal

(* The grand total and the days with guests. *)
ShownTotal(table, m) == SumFunction([d \in ShownDays(table, m) |-> table.foot[d][m]])

LEMMA GrandTotalOfMatrix ==
  ASSUME ReportsAssumption, NEW t, NEW q \in Spans,
         NEW rows \in SUBSET Booked(t), NEW branches,
         NEW table, table = buildDateMatrixPdf(t, rows, q, branches),
         NEW m \in PartyTypes
  PROVE  table.grandTotal[m] = ShownTotal(table, m)
  <1>1. PICK D : D = q.start .. q.end /\ IsFiniteSet(D)
    <2>1. q.start \in Int /\ q.end \in Int
      BY DEF Spans, Span
    <2>. QED
      BY <2>1, FS_Interval
  <1>2. PICK S : S = ShownDays(table, m)
    OBVIOUS
  <1>3. /\ S = {d \in D : DayTotal(t, rows, d, m) > 0}
        /\ \A d \in S : table.foot[d][m] = DayTotal(t, rows, d, m)
    BY <1>1, <1>2, ShownOfMatrix
  <1>. DEFINE u == [d \in D |-> DayTotal(t, rows, d, m)]
  <1>4. \A d \in D : DayTotal(t, rows, d, m) \in Nat
    BY DayTotalIsPax
  <1>5. u \in [D -> Int] /\ S \in SUBSET D
    BY <1>3, <1>4
  <1>6. ASSUME NEW d \in D \ S
        PROVE  u[d] = 0
    BY <1>3, <1>4
  <1>7. [d \in S |-> table.foot[d][m]] = [d \in S |-> u[d]]
    BY <1>3
  <1>8. table.grandTotal[m] = SumFunction(u)
    BY <1>1, MatrixGrandTotal
  <1>. HIDE DEF u
  <1>9. SumFunction(u) = SumFunction([d \in S |-> u[d]])
    <2>1. IsFiniteSet(D)
      BY <1>1
    <2>. QED
      BY <1>5, <1>6, <2>1, SumWithoutZeros
  <1>. QED
    BY <1>2, <1>7, <1>8, <1>9 DEF ShownTotal

(* The guests of the text are those of the matrix and of cancelled parties. *)
LEMMA TextOfMail ==
  ASSUME ReportsAssumption, NEW t \in BookingTables, NEW q \in Spans,
         NEW F, F = aggregateReport([k \in Queries |-> t], q),
         NEW m \in PartyTypes
  PROVE  /\ SumFunction(F.byStatus) = Cardinality(reportWhere(t, q))
         /\ IsTotal(F.byType["expectedPax"][m],
                    Pax(t, Meals(t, reportWhere(t, q), m), "expectedPax"),
                    Pax(t, Only(t, Only(t, reportWhere(t, q), "status", "CANCELLED"), "partyType", m),
                        "expectedPax"))
         /\ DOMAIN F.branchBreakdown = BranchesOf(t, q)
  <1>1. PICK T : T = [k \in Queries |-> t]
    OBVIOUS
  <1>2. F = aggregateReport(T, q) /\ \A k \in Queries : T[k] = t
    BY <1>1
  <1>3. \A k \in Queries : T[k] \in BookingTables
    BY <1>2
  <1>4. T["status"] = t /\ T["type"] = t /\ T["branch"] = t
    BY <1>2 DEF Queries
  <1>5. SumFunction(F.byStatus) = Cardinality(reportWhere(t, q))
    <2>1. SumFunction(aggregateReport(T, q).byStatus) = Cardinality(reportWhere(T["status"], q))
      BY <1>3, CountsOfReport
    <2>. QED
      BY <1>2, <1>4, <2>1
  <1>6. DOMAIN F.branchBreakdown = BranchesOf(t, q)
    <2>1. DOMAIN aggregateReport(T, q).branchBreakdown = BranchesOf(T["branch"], q)
      BY ReportBranches
    <2>. QED
      BY <1>2, <1>4, <2>1
  <1>7. F.byType["expectedPax"][m]
          = Pax(t, Only(t, reportWhere(t, q), "partyType", m), "expectedPax")
    <2>1. "expectedPax" \in SplitPax
      BY DEF SplitPax
    <2>2. aggregateReport(T, q).byType["expectedPax"] =
            [n \in PartyTypes |->
               Pax(T["type"], Only(T["type"], reportWhere(T["type"], q), "partyType", n), "expectedPax")]
      BY <2>1, ReportPax
    <2>3. F.byType["expectedPax"] =
            [n \in PartyTypes |->
               Pax(t, Only(t, reportWhere(t, q), "partyType", n), "expectedPax")]
      BY <1>2, <1>4, <2>2, Zenon
    <2>. QED
      BY <2>3
  <1>8. PICK W \in SUBSET Booked(t) : W = reportWhere(t, q)
    BY WhereIsBooked
  <1>9. PICK S \in SUBSET Booked(t) : S = Only(t, W, "partyType", m)
    BY DEF Only
  <1>10. PICK A \in SUBSET S : A = Meals(t, W, m)
    BY <1>9 DEF Meals, Only
  <1>11. PICK B \in SUBSET S : B = Only(t, Only(t, W, "status", "CANCELLED"), "partyType", m)
    BY <1>9 DEF Only
  <1>12. A \cup B = S /\ A \cap B = {}
    BY <1>9, <1>10, <1>11 DEF Meals, Only
  <1>13. IsTotal(Pax(t, S, "expectedPax"), Pax(t, A, "expectedPax"), Pax(t, B, "expectedPax"))
    BY <1>12, PaxOfTwo DEF PaxFields
  <1>. QED
    BY <1>5, <1>6, <1>7, <1>8, <1>9, <1>10, <1>11, <1>13

(* What is said of the matrix of one range, beside the text of its report. *)
MatrixAddsUp(t, q, F, branches, table) ==
  \A m \in PartyTypes :
    /\ \A d \in ShownDays(table, m) :
         /\ table.foot[d][m] = SumFunction([br \in branches |-> table.body[br][d][m].pax])
         /\ \A br \in branches : LET cell == table.body[br][d][m]
                               IN  cell.pax = cell.T + cell.C
    /\ table.grandTotal[m] = ShownTotal(table, m)
    /\ SumFunction(F.byStatus) <= Limit =>
         F.byType["expectedPax"][m] =
           table.grandTotal[m]
           + Pax(t, Only(t, Only(t, reportWhere(t, q), "status", "CANCELLED"), "partyType", m),
                 "expectedPax")

LEMMA MatrixHolds ==
  ASSUME ReportsAssumption, NEW t \in BookingTables, NEW q \in Spans,
         NEW rows, rows = fetchRangeRows(t, q),
         NEW F, F = aggregateReport([k \in Queries |-> t], q),
         NEW branches, branches = MatrixBranches(t, rows, q, DOMAIN F.branchBreakdown),
         NEW table, table = buildDateMatrixPdf(t, rows, q, branches)
  PROVE  MatrixAddsUp(t, q, F, branches, table)
  <1>. SUFFICES ASSUME NEW m \in PartyTypes
                PROVE  /\ \A d \in ShownDays(table, m) :
                            /\ table.foot[d][m]
                                 = SumFunction([br \in branches |-> table.body[br][d][m].pax])
                            /\ \A br \in branches : LET cell == table.body[br][d][m]
                                                  IN  cell.pax = cell.T + cell.C
                       /\ table.grandTotal[m] = ShownTotal(table, m)
                       /\ SumFunction(F.byStatus) <= Limit =>
                            F.byType["expectedPax"][m] =
                              table.grandTotal[m]
                              + Pax(t, Only(t, Only(t, reportWhere(t, q), "status", "CANCELLED"),
                                            "partyType", m), "expectedPax")
    BY DEF MatrixAddsUp
  <1>1. Covers(t, rows, reportWhere(t, q))
    BY RowsOfRange
  <1>2. rows \in SUBSET reportWhere(t, q) /\ rows \in SUBSET Booked(t)
    BY <1>1 DEF Covers
  <1>3. /\ SumFunction(F.byStatus) = Cardinality(reportWhere(t, q))
        /\ IsTotal(F.byType["expectedPax"][m],
                   Pax(t, Meals(t, reportWhere(t, q), m), "expectedPax"),
                   Pax(t, Only(t, Only(t, reportWhere(t, q), "status", "CANCELLED"), "partyType", m),
                       "expectedPax"))
        /\ DOMAIN F.branchBreakdown = BranchesOf(t, q)
    BY TextOfMail
  <1>4. branches = MatrixBranches(t, rows, q, BranchesOf(t, q))
    BY <1>3
  <1>5. ASSUME NEW d \in ShownDays(table, m)
        PROVE  /\ table.foot[d][m] = SumFunction([br \in branches |-> table.body[br][d][m].pax])
               /\ \A br \in branches : LET cell == table.body[br][d][m]
                                     IN  cell.pax = cell.T + cell.C
    BY <1>2, <1>4, TotalsOfMatrix
  <1>6. table.grandTotal[m] = ShownTotal(table, m)
    BY <1>2, GrandTotalOfMatrix
  <1>7. ASSUME SumFunction(F.byStatus) <= Limit
        PROVE  table.grandTotal[m] = Pax(t, Meals(t, reportWhere(t, q), m), "expectedPax")
    <2>1. rows = reportWhere(t, q)
      BY <1>1, <1>3, <1>7, CoversAll
    <2>2. PICK D : D = q.start .. q.end
      OBVIOUS
    <2>3. IsFiniteSet(D)
      <3>1. \A i, j \in Int : IsFiniteSet(i .. j)
        BY FS_Interval
      <3>2. q.start \in Int /\ q.end \in Int
        BY DEF Spans, Span
      <3>. QED
        BY <2>2, <3>1, <3>2
    <2>4. \A b \in rows : t[b].partyDate \in D
      BY <2>1, <2>2 DEF reportWhere, Within
    <2>5. SumFunction([d \in D |-> DayTotal(t, rows, d, m)]) = Pax(t, Meals(t, rows, m), "expectedPax")
      BY <1>2, <2>3, <2>4, GrandTotalIsPax
    <2>6. table.grandTotal[m] = SumFunction([d \in D |-> DayTotal(t, rows, d, m)])
      BY <2>2, MatrixGrandTotal
    <2>. QED
      BY <2>1, <2>5, <2>6
  <1>. QED
    BY <1>3, <1>5, <1>6, <1>7 DEF IsTotal

-----------------------------------------------------------------------------
(* The weeks of a month. *)

SpanSet(t, i, j) == reportWhere(t, Span(i, j))

LEMMA InSpan ==
  ASSUME ReportsAssumption, NEW t \in BookingTables, NEW i \in Int, NEW j \in Int
  PROVE  /\ SpanSet(t, i, j) \in SUBSET Among(t, "all")
         /\ \A b \in Among(t, "all") :
              b \in SpanSet(t, i, j) <=> i <= t[b].partyDate /\ t[b].partyDate <= j
  <1>1. \A b \in Among(t, "all") : t[b].partyDate \in Int
    <2>1. ASSUME NEW b \in Among(t, "all")
          PROVE  t[b].partyDate \in Int
      <3>1. t[b] \in BookingRows
        BY DEF Among, BookingTables
      <3>. QED
        BY <3>1, RowDay
    <2>. QED
      BY <2>1
  <1>2. SpanSet(t, i, j) = {b \in Among(t, "all") : t[b].partyDate \in i .. j}
    BY DEF SpanSet, reportWhere, Within, Span
  <1>. QED
    BY <1>1, <1>2

LEMMA SpanSplits ==
  ASSUME ReportsAssumption, NEW t \in BookingTables,
         NEW i \in Int, NEW j \in Int, NEW k \in Int, i <= j, j <= k
  PROVE  IsTotal(Cardinality(SpanSet(t, i, k)), Cardinality(SpanSet(t, i, j)),
                 Cardinality(SpanSet(t, j + 1, k)))
  <1>1. \A b \in Among(t, "all") : t[b].partyDate \in Int
    <2>1. ASSUME NEW b \in Among(t, "all")
          PROVE  t[b].partyDate \in Int
      <3>1. t[b] \in BookingRows
        BY DEF Among, BookingTables
      <3>. QED
        BY <3>1, RowDay
    <2>. QED
      BY <2>1
  <1>2. j + 1 \in Int
    OBVIOUS
  <1>3. PICK A, B, S : A = SpanSet(t, i, j) /\ B = SpanSet(t, j + 1, k) /\ S = SpanSet(t, i, k)
    OBVIOUS
  <1>4. /\ S \in SUBSET Among(t, "all")
        /\ \A b \in Among(t, "all") : b \in S <=> i <= t[b].partyDate /\ t[b].partyDate <= k
    BY <1>3, InSpan
  <1>5. /\ A \in SUBSET Among(t, "all")
        /\ \A b \in Among(t, "all") : b \in A <=> i <= t[b].partyDate /\ t[b].partyDate <= j
    BY <1>3, InSpan
  <1>6. /\ B \in SUBSET Among(t, "all")
        /\ \A b \in Among(t, "all") : b \in B <=> j + 1 <= t[b].partyDate /\ t[b].partyDate <= k
    BY <1>2, <1>3, InSpan
  <1>7. A \cup B = S /\ A \cap B = {}
    BY <1>1, <1>4, <1>5, <1>6
  <1>8. IsFiniteSet(A) /\ IsFiniteSet(B) /\ Cardinality(A) \in Nat /\ Cardinality(B) \in Nat
    <2>1. A \in SUBSET Booked(t) /\ B \in SUBSET Booked(t)
      BY <1>3, WhereIsBooked DEF SpanSet
    <2>. QED
      BY <2>1, BookedIsFinite
  <1>9. Cardinality(A \cup B) = Cardinality(A) + Cardinality(B)
    <2>1. Cardinality(A \cup B) = Cardinality(A) + Cardinality(B) - Cardinality(A \cap B)
      BY <1>8, FS_Union
    <2>2. Cardinality(A \cap B) = 0
      BY <1>7, FS_EmptySet
    <2>. QED
      BY <1>8, <2>1, <2>2
  <1>. QED
    BY <1>3, <1>7, <1>9 DEF IsTotal

LEMMA SumOfFour ==
  ASSUME NEW u \in [1 .. 4 -> Int]
  PROVE  SumFunction(u) = u[1] + u[2] + u[3] + u[4]
  <1>1. IsFiniteSet(1 .. 4)
    <2>1. PICK i \in Int, j \in Int : i = 1 /\ j = 4
      OBVIOUS
    <2>2. IsFiniteSet(i .. j)
      BY FS_Interval
    <2>. QED
      BY <2>1, <2>2
  <1>2. PICK g : Adds(g, u, 0, 1 .. 4) /\ SumFunction(u) = g[1 .. 4]
    BY <1>1, SumOfFunction
  <1>3. /\ g[{}] = 0
        /\ \A T \in SUBSET (1 .. 4) : \A x \in T : g[T] = u[x] + g[T \ {x}]
    BY <1>2 DEF Adds
  <1>4. /\ g[{1}] = u[1] + g[{}]
        /\ g[{1, 2}] = u[2] + g[{1}]
        /\ g[{1, 2, 3}] = u[3] + g[{1, 2}]
        /\ g[1 .. 4] = u[4] + g[{1, 2, 3}]
    <2>1. /\ {1} \ {1} = {} /\ {1, 2} \ {2} = {1} /\ {1, 2, 3} \ {3} = {1, 2}
          /\ (1 .. 4) \ {4} = {1, 2, 3}
      OBVIOUS
    <2>2. /\ {1} \in SUBSET (1 .. 4) /\ {1, 2} \in SUBSET (1 .. 4)
          /\ {1, 2, 3} \in SUBSET (1 .. 4) /\ 1 .. 4 \in SUBSET (1 .. 4)
      OBVIOUS
    <2>3. g[{1}] = u[1] + g[{1} \ {1}]
      BY <1>3, <2>2
    <2>4. g[{1, 2}] = u[2] + g[{1, 2} \ {2}]
      BY <1>3, <2>2
    <2>5. g[{1, 2, 3}] = u[3] + g[{1, 2, 3} \ {3}]
      BY <1>3, <2>2
    <2>6. g[1 .. 4] = u[4] + g[(1 .. 4) \ {4}]
      BY <1>3, <2>2
    <2>. QED
      BY <2>1, <2>3, <2>4, <2>5, <2>6
  <1>5. u[1] \in Int /\ u[2] \in Int /\ u[3] \in Int /\ u[4] \in Int
    OBVIOUS
  <1>. QED
    BY <1>2, <1>3, <1>4, <1>5

CountIn(i, j, k) == Cardinality(SpanSet(past[i], j, k))

LEMMA CountInNat ==
  ASSUME ReportsAssumption, ReportsTyped, NEW i \in 1 .. Len(past), NEW j, NEW k
  PROVE  CountIn(i, j, k) \in Nat
  <1>1. PICK t \in BookingTables : t = past[i]
    BY DEF ReportsTyped
  <1>2. SpanSet(t, j, k) \in SUBSET Booked(t)
    BY WhereIsBooked DEF SpanSet
  <1>. QED
    BY <1>1, <1>2, BookedIsFinite DEF CountIn

LEMMA CountInSplits ==
  ASSUME ReportsAssumption, ReportsTyped, NEW x \in 1 .. Len(past),
         NEW i \in Int, NEW j \in Int, NEW k \in Int, i <= j, j <= k
  PROVE  IsTotal(CountIn(x, i, k), CountIn(x, i, j), CountIn(x, j + 1, k))
  <1>1. PICK t \in BookingTables : t = past[x]
    BY DEF ReportsTyped
  <1>2. IsTotal(Cardinality(SpanSet(t, i, k)), Cardinality(SpanSet(t, i, j)),
                Cardinality(SpanSet(t, j + 1, k)))
    BY SpanSplits
  <1>. QED
    BY <1>1, <1>2 DEF CountIn

LEMMA CountInNear ==
  ASSUME ReportsAssumption, ReportsTyped, OneByOne,
         NEW x \in 1 .. Len(past), NEW y \in 1 .. Len(past), x <= y, NEW j, NEW k
  PROVE  Near(CountIn(x, j, k), CountIn(y, j, k), y - x)
  <1>1. Len(past) \in Nat
    BY DEF ReportsTyped
  <1>2. PICK distance \in Nat : distance = y - x
    BY <1>1
  <1>3. Near(x, y, distance)
    BY <1>1, <1>2 DEF Near
  <1>4. PICK q : q = Span(j, k)
    OBVIOUS
  <1>5. Near(Cardinality(reportWhere(past[x], q)), Cardinality(reportWhere(past[y], q)), distance)
    BY <1>3, WritesBetween
  <1>. QED
    BY <1>2, <1>4, <1>5 DEF CountIn, SpanSet

(* The weeks read one after the other, and the month after them. *)
LEMMA WeeksMakeTheMonth ==
  ASSUME ReportsAssumption, ReportsTyped, OneByOne,
         NEW v \in 1 .. Len(past), NEW w \in 1 .. Len(past), NEW x \in 1 .. Len(past),
         NEW y \in 1 .. Len(past), NEW z \in 1 .. Len(past),
         v <= w, w <= x, x <= y, y <= z
  PROVE  Near(CountIn(v, 1, 7) + CountIn(w, 8, 14) + CountIn(x, 15, 21) + CountIn(y, 22, LastDay),
              CountIn(z, 1, LastDay), z - v)
  <1>1. Len(past) \in Nat /\ LastDay \in Int /\ 21 <= LastDay
    BY ReportsConstants DEF ReportsTyped
  <1>2. /\ CountIn(v, 1, 7) \in Nat /\ CountIn(w, 1, 7) \in Nat
        /\ CountIn(w, 8, 14) \in Nat /\ CountIn(w, 1, 14) \in Nat
    BY CountInNat
  <1>3. /\ CountIn(x, 1, 14) \in Nat /\ CountIn(x, 15, 21) \in Nat /\ CountIn(x, 1, 21) \in Nat
        /\ CountIn(y, 1, 21) \in Nat
    BY CountInNat
  <1>4. /\ CountIn(y, 22, LastDay) \in Nat /\ CountIn(y, 1, LastDay) \in Nat
        /\ CountIn(z, 1, LastDay) \in Nat
    BY CountInNat
  <1>5. IsTotal(CountIn(w, 1, 14), CountIn(w, 1, 7), CountIn(w, 8, 14))
    <2>1. PICK i \in Int, j \in Int, k \in Int : i = 1 /\ j = 7 /\ k = 14
      OBVIOUS
    <2>2. IsTotal(CountIn(w, i, k), CountIn(w, i, j), CountIn(w, j + 1, k))
      BY <2>1, CountInSplits
    <2>. QED
      BY <2>1, <2>2
  <1>6. IsTotal(CountIn(x, 1, 21), CountIn(x, 1, 14), CountIn(x, 15, 21))
    <2>1. PICK i \in Int, j \in Int, k \in Int : i = 1 /\ j = 14 /\ k = 21
      OBVIOUS
    <2>2. IsTotal(CountIn(x, i, k), CountIn(x, i, j), CountIn(x, j + 1, k))
      BY <2>1, CountInSplits
    <2>. QED
      BY <2>1, <2>2
  <1>7. IsTotal(CountIn(y, 1, LastDay), CountIn(y, 1, 21), CountIn(y, 22, LastDay))
    <2>1. PICK i \in Int, j \in Int, k \in Int : i = 1 /\ j = 21 /\ k = LastDay
      BY <1>1
    <2>2. IsTotal(CountIn(y, i, k), CountIn(y, i, j), CountIn(y, j + 1, k))
      BY <1>1, <2>1, CountInSplits
    <2>. QED
      BY <2>1, <2>2
  <1>8. /\ Near(CountIn(v, 1, 7), CountIn(w, 1, 7), w - v)
        /\ Near(CountIn(w, 1, 14), CountIn(x, 1, 14), x - w)
    BY CountInNear
  <1>9. /\ Near(CountIn(x, 1, 21), CountIn(y, 1, 21), y - x)
        /\ Near(CountIn(y, 1, LastDay), CountIn(z, 1, LastDay), z - y)
    BY CountInNear
  <1>10. v \in Int /\ w \in Int /\ x \in Int /\ y \in Int /\ z \in Int
    BY <1>1
  <1>11. PICK a1 \in Nat, a2 \in Nat, a3 \in Nat, a4 \in Nat :
           /\ a1 = CountIn(v, 1, 7) /\ a2 = CountIn(w, 8, 14)
           /\ a3 = CountIn(x, 15, 21) /\ a4 = CountIn(y, 22, LastDay)
    BY <1>2, <1>3, <1>4
  <1>12. PICK b1 \in Nat, b2 \in Nat, b3 \in Nat, c2 \in Nat, c3 \in Nat, c4 \in Nat, month \in Nat :
           /\ b1 = CountIn(w, 1, 7) /\ b2 = CountIn(x, 1, 14) /\ b3 = CountIn(y, 1, 21)
           /\ c2 = CountIn(w, 1, 14) /\ c3 = CountIn(x, 1, 21) /\ c4 = CountIn(y, 1, LastDay)
           /\ month = CountIn(z, 1, LastDay)
    BY <1>2, <1>3, <1>4
  <1>13. c2 = b1 + a2 /\ c3 = b2 + a3 /\ c4 = b3 + a4
    BY <1>5, <1>6, <1>7, <1>11, <1>12 DEF IsTotal
  <1>14. /\ Near(a1, b1, w - v) /\ Near(c2, b2, x - w)
         /\ Near(c3, b3, y - x) /\ Near(c4, month, z - y)
    BY <1>8, <1>9, <1>11, <1>12
  <1>15. Near(a1 + a2 + a3 + a4, month, z - v)
    BY <1>10, <1>13, <1>14 DEF Near
  <1>. QED
    BY <1>11, <1>12, <1>15

LEMMA WeeksCoverOnce ==
  ASSUME NEW n \in 28 .. 31, NEW d \in 1 .. n
  PROVE  Cardinality({i \in 1 .. 4 :
           d \in splitMonthWeeks(n)[i].start .. splitMonthWeeks(n)[i].end}) = 1
  <1>1. /\ splitMonthWeeks(n)[1].start = 1 /\ splitMonthWeeks(n)[1].end = 7
        /\ splitMonthWeeks(n)[2].start = 8 /\ splitMonthWeeks(n)[2].end = 14
        /\ splitMonthWeeks(n)[3].start = 15 /\ splitMonthWeeks(n)[3].end = 21
        /\ splitMonthWeeks(n)[4].start = 22 /\ splitMonthWeeks(n)[4].end = n
    BY DEF splitMonthWeeks, Span
  <1>2. PICK S : S = {i \in 1 .. 4 :
                        d \in splitMonthWeeks(n)[i].start .. splitMonthWeeks(n)[i].end}
    OBVIOUS
  <1>3. \E j : S = {j}
    <2>1. CASE d <= 7
      <3>1. S = {1}
        BY <1>1, <1>2, <2>1
      <3>. QED
        BY <3>1
    <2>2. CASE 8 <= d /\ d <= 14
      <3>1. S = {2}
        BY <1>1, <1>2, <2>2
      <3>. QED
        BY <3>1
    <2>3. CASE 15 <= d /\ d <= 21
      <3>1. S = {3}
        BY <1>1, <1>2, <2>3
      <3>. QED
        BY <3>1
    <2>4. CASE 22 <= d
      <3>1. S = {4}
        BY <1>1, <1>2, <2>4
      <3>. QED
        BY <3>1
    <2>5. d \in Int
      OBVIOUS
    <2>6. d <= 7 \/ (8 <= d /\ d <= 14) \/ (15 <= d /\ d <= 21) \/ 22 <= d
      BY <2>5
    <2>. QED
      BY <2>1, <2>2, <2>3, <2>4, <2>6
  <1>. QED
    BY <1>2, <1>3, FS_Singleton

(* The mails that have read all they read. *)
LEMMA MailsAsked ==
  ASSUME ReportsAssumption, ReportsTyped, asked # NULL, asked.job = "mail",
         Len(seen) = asked.reads
  PROVE  /\ \A i \in DOMAIN asked.ranges :
              asked.ranges[i] \in Spans /\ 2 * i - 1 \in 1 .. Len(seen) /\ 2 * i \in 1 .. Len(seen)
         /\ Len(asked.ranges) = 4 =>
              Len(seen) = 9 /\ asked.ranges = splitMonthWeeks(LastDay)
         /\ \A i \in 1 .. Len(seen) : seen[i] \in 1 .. Len(past)
         /\ \A i, j \in 1 .. Len(seen) : i <= j => seen[i] <= seen[j]
  <1>1. asked = sendDailyBookingReport \/ asked = sendMonthlyBookingReports
    BY DEF ReportsTyped, AskedTyped
  <1>2. /\ seen \in Seq(1 .. Len(past))
        /\ \A i, j \in 1 .. Len(seen) : i <= j => seen[i] <= seen[j]
    BY DEF ReportsTyped, SeenTyped
  <1>3. \A i \in 1 .. Len(seen) : seen[i] \in 1 .. Len(past)
    BY <1>2
  <1>4. today \in Int /\ LastDay \in Int
    BY ReportsConstants DEF ReportsTyped
  <1>5. \A i, j \in Int : Span(i, j) \in Spans
    BY DEF Spans
  <1>6. CASE asked = sendDailyBookingReport
    <2>1. asked.ranges = <<Span(today, today)>> /\ asked.reads = 2
      BY <1>6 DEF sendDailyBookingReport
    <2>2. DOMAIN asked.ranges = {1} /\ Len(asked.ranges) = 1 /\ asked.ranges[1] = Span(today, today)
      BY <2>1
    <2>. QED
      BY <1>2, <1>3, <1>4, <1>5, <2>1, <2>2
  <1>7. CASE asked = sendMonthlyBookingReports
    <2>1. asked.ranges = splitMonthWeeks(LastDay) /\ asked.reads = 9
      BY <1>7 DEF sendMonthlyBookingReports
    <2>2. /\ DOMAIN asked.ranges = 1 .. 4
          /\ asked.ranges[1] = Span(1, 7) /\ asked.ranges[2] = Span(8, 14)
          /\ asked.ranges[3] = Span(15, 21) /\ asked.ranges[4] = Span(22, LastDay)
      BY <2>1 DEF splitMonthWeeks
    <2>3. \A i \in 1 .. 4 : asked.ranges[i] \in Spans
      BY <1>4, <1>5, <2>2
    <2>. QED
      BY <1>2, <1>3, <2>1, <2>2, <2>3
  <1>. QED
    BY <1>1, <1>6, <1>7

Told(i, q) == toMailData(aggregateReport([k \in Queries |-> past[seen[i]]], q))

LEMMA ToldTotal ==
  ASSUME ReportsAssumption, NEW i, past[seen[i]] \in BookingTables, NEW q
  PROVE  Told(i, q).total = Cardinality(reportWhere(past[seen[i]], q))
  <1>1. PICK t \in BookingTables : t = past[seen[i]]
    OBVIOUS
  <1>2. PICK T : T = [k \in Queries |-> t]
    OBVIOUS
  <1>3. (\A k \in Queries : T[k] \in BookingTables) /\ T["status"] = t
    BY <1>2 DEF Queries
  <1>4. SumFunction(aggregateReport(T, q).byStatus) = Cardinality(reportWhere(T["status"], q))
    BY <1>3, CountsOfReport
  <1>5. Told(i, q) = toMailData(aggregateReport(T, q))
    BY <1>1, <1>2 DEF Told
  <1>. QED
    BY <1>1, <1>3, <1>4, <1>5 DEF toMailData

LEMMA MonthHolds ==
  ASSUME ReportsAssumption, ReportsTyped, OneByOne, asked # NULL, asked.job = "mail",
         Len(seen) = asked.reads, Len(asked.ranges) = 4
  PROVE  Near(SumFunction([i \in DOMAIN asked.ranges |-> Told(2 * i - 1, asked.ranges[i]).total]),
              Told(9, getMonthlyReport).total, seen[9] - seen[1])
  <1>1. /\ Len(seen) = 9 /\ asked.ranges = splitMonthWeeks(LastDay)
        /\ \A i \in 1 .. 9 : seen[i] \in 1 .. Len(past)
        /\ \A i, j \in 1 .. 9 : i <= j => seen[i] <= seen[j]
    BY MailsAsked
  <1>2. \A i \in 1 .. 9 : past[seen[i]] \in BookingTables
    <2>1. \A i \in 1 .. Len(past) : past[i] \in BookingTables
      BY DEF ReportsTyped
    <2>. QED
      BY <1>1, <2>1
  <1>3. PICK v \in 1 .. Len(past), w \in 1 .. Len(past), x \in 1 .. Len(past),
             y \in 1 .. Len(past), z \in 1 .. Len(past) :
          /\ v = seen[1] /\ w = seen[3] /\ x = seen[5] /\ y = seen[7] /\ z = seen[9]
          /\ v <= w /\ w <= x /\ x <= y /\ y <= z
    BY <1>1
  <1>4. /\ Told(1, Span(1, 7)).total = CountIn(v, 1, 7)
        /\ Told(3, Span(8, 14)).total = CountIn(w, 8, 14)
        /\ Told(5, Span(15, 21)).total = CountIn(x, 15, 21)
        /\ Told(7, Span(22, LastDay)).total = CountIn(y, 22, LastDay)
        /\ Told(9, getMonthlyReport).total = CountIn(z, 1, LastDay)
    <2>1. ASSUME NEW i \in 1 .. 9, NEW q
          PROVE  Told(i, q).total = Cardinality(reportWhere(past[seen[i]], q))
      BY <1>2, ToldTotal
    <2>2. /\ Told(1, Span(1, 7)).total = Cardinality(reportWhere(past[seen[1]], Span(1, 7)))
          /\ Told(3, Span(8, 14)).total = Cardinality(reportWhere(past[seen[3]], Span(8, 14)))
          /\ Told(5, Span(15, 21)).total = Cardinality(reportWhere(past[seen[5]], Span(15, 21)))
      BY <2>1
    <2>3. /\ Told(7, Span(22, LastDay)).total
               = Cardinality(reportWhere(past[seen[7]], Span(22, LastDay)))
          /\ Told(9, getMonthlyReport).total
               = Cardinality(reportWhere(past[seen[9]], getMonthlyReport))
      BY <2>1
    <2>. QED
      BY <1>3, <2>2, <2>3 DEF CountIn, SpanSet, getMonthlyReport
  <1>. DEFINE u == [i \in 1 .. 4 |-> Told(2 * i - 1, asked.ranges[i]).total]
  <1>5. DOMAIN asked.ranges = 1 .. 4
    BY <1>1 DEF splitMonthWeeks
  <1>6. /\ u[1] = CountIn(v, 1, 7) /\ u[2] = CountIn(w, 8, 14)
        /\ u[3] = CountIn(x, 15, 21) /\ u[4] = CountIn(y, 22, LastDay)
    <2>1. /\ asked.ranges[1] = Span(1, 7) /\ asked.ranges[2] = Span(8, 14)
          /\ asked.ranges[3] = Span(15, 21) /\ asked.ranges[4] = Span(22, LastDay)
      BY <1>1 DEF splitMonthWeeks
    <2>2. /\ u[1] = Told(1, asked.ranges[1]).total /\ u[2] = Told(3, asked.ranges[2]).total
          /\ u[3] = Told(5, asked.ranges[3]).total /\ u[4] = Told(7, asked.ranges[4]).total
      OBVIOUS
    <2>. HIDE DEF u
    <2>. QED
      BY <1>4, <2>1, <2>2
  <1>7. /\ CountIn(v, 1, 7) \in Int /\ CountIn(w, 8, 14) \in Int
        /\ CountIn(x, 15, 21) \in Int /\ CountIn(y, 22, LastDay) \in Int
    BY CountInNat
  <1>8. u \in [1 .. 4 -> Int]
    <2>1. DOMAIN u = 1 .. 4 /\ u = [i \in 1 .. 4 |-> u[i]]
      OBVIOUS
    <2>. HIDE DEF u
    <2>2. \A i \in 1 .. 4 : u[i] \in Int
      <3>1. \A i \in 1 .. 4 : i = 1 \/ i = 2 \/ i = 3 \/ i = 4
        OBVIOUS
      <3>. QED
        BY <1>6, <1>7, <3>1
    <2>. QED
      BY <2>1, <2>2
  <1>9. SumFunction([i \in DOMAIN asked.ranges |-> Told(2 * i - 1, asked.ranges[i]).total])
          = SumFunction(u)
    BY <1>5
  <1>. HIDE DEF u
  <1>10. SumFunction(u) = u[1] + u[2] + u[3] + u[4]
    BY <1>8, SumOfFour
  <1>11. Near(CountIn(v, 1, 7) + CountIn(w, 8, 14) + CountIn(x, 15, 21) + CountIn(y, 22, LastDay),
              CountIn(z, 1, LastDay), z - v)
    BY <1>3, WeeksMakeTheMonth
  <1>. QED
    BY <1>3, <1>4, <1>6, <1>9, <1>10, <1>11

(* What MailAddsUp says of the range q of a mail and the table t its rows  *)
(* and its report have seen.                                               *)
TextAddsUp(t, q, F, branches, table) ==
  LET cancelled == Only(t, reportWhere(t, q), "status", "CANCELLED")
      Shown(m) == {d \in DOMAIN table.foot : m \in DOMAIN table.foot[d]}
  IN  \A m \in PartyTypes :
        /\ \A d \in Shown(m) :
             /\ table.foot[d][m] = SumFunction([br \in branches |-> table.body[br][d][m].pax])
             /\ \A br \in branches : LET cell == table.body[br][d][m]
                                   IN  cell.pax = cell.T + cell.C
        /\ table.grandTotal[m] = SumFunction([d \in Shown(m) |-> table.foot[d][m]])
        /\ toMailData(F).total <= Limit =>
             toMailData(F).pax[m] =
               table.grandTotal[m]
               + Pax(t, Only(t, cancelled, "partyType", m), "expectedPax")

LEMMA TextHolds ==
  ASSUME NEW t, NEW q, NEW F, NEW branches, NEW table, MatrixAddsUp(t, q, F, branches, table)
  PROVE  TextAddsUp(t, q, F, branches, table)
  <1>1. toMailData(F).total = SumFunction(F.byStatus)
    BY DEF toMailData
  <1>2. toMailData(F).pax = F.byType["expectedPax"]
    BY DEF toMailData
  <1>3. ASSUME NEW m \in PartyTypes
        PROVE  /\ \A d \in ShownDays(table, m) :
                    /\ table.foot[d][m] = SumFunction([br \in branches |-> table.body[br][d][m].pax])
                    /\ \A br \in branches : LET cell == table.body[br][d][m]
                                          IN  cell.pax = cell.T + cell.C
               /\ table.grandTotal[m] = ShownTotal(table, m)
               /\ toMailData(F).total <= Limit =>
                    toMailData(F).pax[m] =
                      table.grandTotal[m]
                      + Pax(t, Only(t, Only(t, reportWhere(t, q), "status", "CANCELLED"),
                                    "partyType", m), "expectedPax")
    BY <1>1, <1>2, Zenon DEF MatrixAddsUp
  <1>. QED
    BY <1>3, Zenon DEF TextAddsUp, ShownDays, ShownTotal

RangeAddsUp(t, q) ==
  LET rows == fetchRangeRows(t, q)
      F == aggregateReport([k \in Queries |-> t], q)
      branches == MatrixBranches(t, rows, q, DOMAIN F.branchBreakdown)
  IN  TextAddsUp(t, q, F, branches, buildDateMatrixPdf(t, rows, q, branches))

LEMMA RangeHolds ==
  ASSUME ReportsAssumption, NEW t \in BookingTables, NEW q \in Spans
  PROVE  RangeAddsUp(t, q)
  <1>1. PICK rows : rows = fetchRangeRows(t, q)
    OBVIOUS
  <1>2. PICK F : F = aggregateReport([k \in Queries |-> t], q)
    OBVIOUS
  <1>3. PICK branches : branches = MatrixBranches(t, rows, q, DOMAIN F.branchBreakdown)
    OBVIOUS
  <1>4. PICK table : table = buildDateMatrixPdf(t, rows, q, branches)
    OBVIOUS
  <1>5. MatrixAddsUp(t, q, F, branches, table)
    BY <1>1, <1>2, <1>3, <1>4, MatrixHolds
  <1>6. TextAddsUp(t, q, F, branches, table)
    BY <1>5, TextHolds
  <1>. QED
    BY <1>1, <1>2, <1>3, <1>4, <1>6 DEF RangeAddsUp

LEMMA MailHolds ==
  ASSUME ReportsAssumption, ReportsTyped, OneByOne
  PROVE  MailAddsUp
  <1>. SUFFICES ASSUME asked # NULL, asked.job = "mail", Len(seen) = asked.reads
                PROVE  MailAddsUp
    BY DEF MailAddsUp
  <1>1. asked.ranges = splitMonthWeeks(LastDay) =>
          \A n \in 28 .. 31 : \A d \in 1 .. n : Cardinality({i \in 1 .. 4 :
            d \in splitMonthWeeks(n)[i].start .. splitMonthWeeks(n)[i].end}) = 1
    BY WeeksCoverOnce
  <1>2. ASSUME NEW i \in DOMAIN asked.ranges
        PROVE  RangeAddsUp(past[seen[2 * i]], asked.ranges[i])
    <2>1. asked.ranges[i] \in Spans /\ 2 * i \in 1 .. Len(seen)
      BY MailsAsked
    <2>2. \A j \in 1 .. Len(seen) : seen[j] \in 1 .. Len(past)
      BY MailsAsked
    <2>3. \A j \in 1 .. Len(past) : past[j] \in BookingTables
      BY DEF ReportsTyped
    <2>4. PICK j \in 1 .. Len(past) : j = seen[2 * i]
      BY <2>1, <2>2
    <2>. QED
      BY <2>1, <2>3, <2>4, RangeHolds
  <1>3. Len(asked.ranges) = 4 =>
          Near(SumFunction([i \in DOMAIN asked.ranges |-> Told(2 * i - 1, asked.ranges[i]).total]),
               Told(9, getMonthlyReport).total, seen[9] - seen[1])
    BY MonthHolds
  <1>. QED
    BY <1>1, <1>2, <1>3, Zenon DEF MailAddsUp, RangeAddsUp, TextAddsUp, Told

(* A mail adds up in every reachable state, for all tables of bookings and *)
(* all writes between its reports: the matrix, the text beside it and the  *)
(* weeks of the month: report-mailer.ts.                                   *)
THEOREM MailsAddUp ==
  ASSUME ReportsAssumption
  PROVE  BookingSpec => []MailAddsUp
  <1>1. BookingSpec => [](ReportsTyped /\ OneByOne)
    BY ReportsTypeCorrect
  <1>2. ReportsTyped /\ OneByOne => MailAddsUp
    BY MailHolds
  <1>. QED
    BY <1>1, <1>2, PTL

-----------------------------------------------------------------------------
(* Operations. *)

(* Guest offers, manager reports and inventory statements: types. *)

OperationsSpec ==
  FeedbackInit /\ OperationsInit /\ [][OperationsNext]_<<feedbackVars, operationsVars>>

OperationsTyped ==
  /\ log \in [LogIds -> LogRows \cup {NULL}]
  /\ report \in [ReportIds -> ReportRows \cup {NULL}]
  /\ AreStatements(statement)
  /\ now \in Nat

LEMMA OperationsConstants ==
  ASSUME FeedbackAssumption, OperationsAssumption
  PROVE  /\ DayLength \in Nat \ {0} /\ MaxTime \in Nat /\ ExportLimit \in Nat
         /\ ThisMonth \in Nat /\ Amounts \subseteq Nat
         /\ IsFiniteSet(Venues) /\ IsFiniteSet(LogIds) /\ IsFiniteSet(ReportIds)
  BY DEF FeedbackAssumption, OperationsAssumption

LEMMA Quotients ==
  ASSUME NEW a \in Nat, NEW b \in Nat \ {0}
  PROVE  a \div b \in Nat
  OBVIOUS

LEMMA WriteLogTyped ==
  ASSUME FeedbackAssumption, OperationsAssumption, OperationsTyped, WriteLog
  PROVE  log' \in [LogIds -> LogRows \cup {NULL}]
  <1>1. \E x \in LogIds : \E row \in LogRows : log' = [log EXCEPT ![x] = row]
    <2>1. PICK x \in LogIds :
            \/ \E k \in Kinds, br \in Venues, n \in Amounts :
                 log' = [log EXCEPT ![x] =
                   [kind |-> k, branchId |-> br, logDate |-> now \div DayLength,
                    approvalStatus |-> "PENDING", amount |-> n, isDeleted |-> FALSE]]
            \/ /\ log[x] # NULL
               /\ \/ \E status \in {"APPROVED", "REJECTED"} :
                       log' = [log EXCEPT ![x].approvalStatus = status]
                  \/ \E n \in Amounts : log' = [log EXCEPT ![x].amount = n]
                  \/ log' = [log EXCEPT ![x].isDeleted = TRUE]
      BY DEF WriteLog
    <2>2. now \div DayLength \in Nat
      <3>1. now \in Nat /\ DayLength \in Nat \ {0}
        BY OperationsConstants DEF OperationsTyped
      <3>. QED
        BY <3>1, Quotients
    <2>3. ASSUME NEW k \in Kinds, NEW br \in Venues, NEW n \in Amounts
          PROVE  [kind |-> k, branchId |-> br, logDate |-> now \div DayLength,
                  approvalStatus |-> "PENDING", amount |-> n, isDeleted |-> FALSE] \in LogRows
      BY <2>2, OperationsConstants DEF LogRows, Approvals
    <2>4. ASSUME log[x] # NULL
          PROVE  /\ \A status \in Approvals : [log[x] EXCEPT !.approvalStatus = status] \in LogRows
                 /\ \A n \in Amounts : [log[x] EXCEPT !.amount = n] \in LogRows
                 /\ [log[x] EXCEPT !.isDeleted = TRUE] \in LogRows
      <3>1. log[x] \in LogRows
        BY <2>4 DEF OperationsTyped
      <3>. QED
        BY <3>1, OperationsConstants DEF LogRows
    <2>. QED
      BY <2>1, <2>3, <2>4 DEF Approvals
  <1>. QED
    BY <1>1 DEF OperationsTyped

LEMMA WriteReportTyped ==
  ASSUME OperationsTyped, WriteReport
  PROVE  report' \in [ReportIds -> ReportRows \cup {NULL}]
  <1>1. PICK x \in ReportIds, status \in Approvals :
          /\ report[x] # NULL
          /\ \/ report' = [report EXCEPT ![x].approvalStatus = status]
             \/ report' = [report EXCEPT ![x].isDeleted = TRUE]
             \/ report' = [report EXCEPT ![x].isDeleted = FALSE, ![x].approvalStatus = "PENDING"]
    BY DEF WriteReport
  <1>2. report[x] \in ReportRows
    BY <1>1 DEF OperationsTyped
  <1>3. /\ [report[x] EXCEPT !.approvalStatus = status] \in ReportRows
        /\ [report[x] EXCEPT !.isDeleted = TRUE] \in ReportRows
        /\ [report[x] EXCEPT !.isDeleted = FALSE, !.approvalStatus = "PENDING"] \in ReportRows
    BY <1>2 DEF ReportRows, Approvals
  <1>. QED
    BY <1>1, <1>2, <1>3 DEF OperationsTyped, ReportRows, Approvals

LEMMA WriteStatementTyped ==
  ASSUME FeedbackAssumption, OperationsAssumption, OperationsTyped, WriteStatement
  PROVE  AreStatements(statement')
  <1>1. ASSUME NEW br \in Venues, NEW m \in Months, NEW s, IsStatement(s),
               statement' = [statement EXCEPT ![br][m] = s]
        PROVE  AreStatements(statement')
    BY <1>1 DEF OperationsTyped, AreStatements
  <1>2. PICK br \in Venues, m \in Months :
          \/ statement' = [statement EXCEPT ![br][m] =
               [status |-> "DRAFT", lines |-> [i \in DOMAIN GroupOf |-> 0]]]
          \/ /\ statement[br][m] # NULL
             /\ \/ \E status \in StatementStatuses :
                     statement' = [statement EXCEPT ![br][m] =
                       [status |-> status, lines |-> statement[br][m].lines]]
                \/ \E i \in DOMAIN statement[br][m].lines, n \in Amounts :
                     statement' = [statement EXCEPT ![br][m] =
                       [status |-> statement[br][m].status,
                        lines |-> [statement[br][m].lines EXCEPT ![i] = n]]]
    BY DEF WriteStatement
  <1>3. IsStatement([status |-> "DRAFT", lines |-> [i \in DOMAIN GroupOf |-> 0]])
    BY DEF IsStatement, StatementStatuses
  <1>4. ASSUME statement[br][m] # NULL
        PROVE  /\ \A status \in StatementStatuses :
                    IsStatement([status |-> status, lines |-> statement[br][m].lines])
               /\ \A i \in DOMAIN statement[br][m].lines, n \in Amounts :
                    IsStatement([status |-> statement[br][m].status,
                                 lines |-> [statement[br][m].lines EXCEPT ![i] = n]])
    <2>1. PICK S \in SUBSET DOMAIN GroupOf :
            statement[br][m] \in [status : StatementStatuses, lines : [S -> Nat]]
      BY <1>4 DEF OperationsTyped, AreStatements, IsStatement
    <2>2. statement[br][m].lines \in [S -> Nat] /\ statement[br][m].status \in StatementStatuses
      BY <2>1
    <2>3. \A i \in S, n \in Amounts : [statement[br][m].lines EXCEPT ![i] = n] \in [S -> Nat]
      BY <2>2, OperationsConstants
    <2>. QED
      BY <2>2, <2>3 DEF IsStatement
  <1>. QED
    BY <1>1, <1>2, <1>3, <1>4

LEMMA OperationsStepTyped ==
  ASSUME FeedbackAssumption, OperationsAssumption, OperationsTyped,
         [OperationsNext]_<<feedbackVars, operationsVars>>
  PROVE  OperationsTyped'
  <1>1. CASE WriteLog /\ UNCHANGED feedbackVars
    BY <1>1, WriteLogTyped DEF WriteLog, OperationsTyped, feedbackVars
  <1>2. CASE WriteReport /\ UNCHANGED feedbackVars
    BY <1>2, WriteReportTyped DEF WriteReport, OperationsTyped, feedbackVars
  <1>3. CASE WriteStatement /\ UNCHANGED feedbackVars
    BY <1>3, WriteStatementTyped DEF WriteStatement, OperationsTyped, feedbackVars
  <1>4. CASE updateCategory /\ UNCHANGED feedbackVars
    BY <1>4 DEF updateCategory, OperationsTyped, feedbackVars
  <1>5. CASE ChangeVenue /\ UNCHANGED operationsVars
    BY <1>5 DEF ChangeVenue, OperationsTyped, operationsVars
  <1>6. CASE Tick /\ UNCHANGED operationsVars
    BY <1>6 DEF Tick, OperationsTyped, operationsVars
  <1>7. CASE UNCHANGED <<feedbackVars, operationsVars>>
    BY <1>7 DEF OperationsTyped, feedbackVars, operationsVars
  <1>. QED
    BY <1>1, <1>2, <1>3, <1>4, <1>5, <1>6, <1>7 DEF OperationsNext

(* The logs, reports and statements are typed in every reachable state,    *)
(* for all tables to begin with; what their views show rests on it.        *)
THEOREM OperationsTypeCorrect ==
  ASSUME FeedbackAssumption, OperationsAssumption
  PROVE  OperationsSpec => []OperationsTyped
  <1>1. FeedbackInit /\ OperationsInit => OperationsTyped
    BY DEF FeedbackInit, OperationsInit, OperationsAssumption, OperationsTyped
  <1>2. OperationsTyped /\ [OperationsNext]_<<feedbackVars, operationsVars>> => OperationsTyped'
    BY OperationsStepTyped
  <1>. QED
    BY <1>1, <1>2, PTL DEF OperationsSpec

-----------------------------------------------------------------------------
(* The latest of some rows. *)

LEMMA CountOfTwo ==
  ASSUME NEW A, NEW B, IsFiniteSet(A), IsFiniteSet(B), A \cap B = {}
  PROVE  /\ Cardinality(A) \in Nat /\ Cardinality(B) \in Nat
         /\ IsTotal(Cardinality(A \cup B), Cardinality(A), Cardinality(B))
  <1>1. Cardinality(A \cup B) = Cardinality(A) + Cardinality(B) - Cardinality(A \cap B)
    BY FS_Union
  <1>2. Cardinality(A \cap B) = 0 /\ Cardinality(A) \in Nat /\ Cardinality(B) \in Nat
    BY FS_EmptySet, FS_CardinalityType
  <1>. QED
    BY <1>1, <1>2 DEF IsTotal

LEMMA LatestOfSome ==
  ASSUME FeedbackAssumption, OperationsAssumption,
         NEW S, IsFiniteSet(S), NEW day \in [S -> 0 .. MaxTime]
  PROVE  LatestBy(S, day) \in SUBSET S
  <1>0. MaxTime \in Nat /\ ExportLimit \in Nat /\ Cardinality(S) \in Nat
    BY OperationsConstants, FS_CardinalityType
  <1>1. PICK key : key = [x \in S |-> MaxTime - day[x]]
    OBVIOUS
  <1>2. key \in [S -> Nat]
    BY <1>0, <1>1
  <1>3. PICK n \in Nat : n = Min({ExportLimit, Cardinality(S)}) /\ n <= Cardinality(S)
    <2>1. Min({ExportLimit, Cardinality(S)}) = Least(ExportLimit, Cardinality(S))
      BY <1>0, MinOfTwo
    <2>. QED
      BY <1>0, <2>1 DEF Least
  <1>4. PICK K \in SUBSET S : FirstOf(K, S, key, n)
    BY <1>2, <1>3, FirstExist
  <1>5. \A x \in K, y \in S \ K : day[x] >= day[y]
    <2>1. ASSUME NEW x \in K, NEW y \in S \ K
          PROVE  day[x] >= day[y]
      <3>1. key[x] <= key[y] /\ x \in S /\ y \in S
        BY <1>4 DEF FirstOf
      <3>2. PICK i \in Int, j \in Int : i = day[x] /\ j = day[y]
        BY <3>1
      <3>3. MaxTime - i <= MaxTime - j
        BY <1>1, <3>1, <3>2
      <3>. QED
        BY <1>0, <3>2, <3>3
    <2>. QED
      BY <2>1
  <1>6. \E L \in SUBSET S : /\ Cardinality(L) = Min({ExportLimit, Cardinality(S)})
                            /\ \A x \in L, y \in S \ L : day[x] >= day[y]
    BY <1>3, <1>4, <1>5 DEF FirstOf
  <1>. QED
    BY <1>6, Zenon DEF LatestBy

(* No limit cuts them off. *)
LEMMA LatestOfFew ==
  ASSUME FeedbackAssumption, OperationsAssumption,
         NEW S, IsFiniteSet(S), NEW day, Cardinality(S) <= ExportLimit
  PROVE  LatestBy(S, day) = S
  <1>0. ExportLimit \in Nat /\ Cardinality(S) \in Nat
    BY OperationsConstants, FS_CardinalityType
  <1>1. Cardinality(S) = Min({ExportLimit, Cardinality(S)})
    <2>1. Min({ExportLimit, Cardinality(S)}) = Least(ExportLimit, Cardinality(S))
      BY <1>0, MinOfTwo
    <2>. QED
      BY <1>0, <2>1 DEF Least
  <1>2. \E L \in SUBSET S : /\ Cardinality(L) = Min({ExportLimit, Cardinality(S)})
                            /\ \A x \in L, y \in S \ L : day[x] >= day[y]
    BY <1>1
  <1>3. /\ LatestBy(S, day) \in SUBSET S
        /\ Cardinality(LatestBy(S, day)) = Min({ExportLimit, Cardinality(S)})
    BY <1>2, Zenon DEF LatestBy
  <1>4. PICK K \in SUBSET S : K = LatestBy(S, day) /\ Cardinality(K) = Cardinality(S)
    BY <1>1, <1>3
  <1>. QED
    BY <1>4, FS_Subset

-----------------------------------------------------------------------------
(* Guest offers. *)

Logged == {x \in LogIds : log[x] \in LogRows}

LEMMA LogsAreLogged ==
  ASSUME FeedbackAssumption, OperationsAssumption, OperationsTyped
  PROVE  /\ IsFiniteSet(Logged)
         /\ \A kind, scope, from, to : LogsOf(kind, scope, from, to) \in SUBSET Logged
         /\ [x \in Logged |-> log[x].amount] \in [Logged -> Nat]
  <1>1. IsFiniteSet(Logged)
    BY OperationsConstants, FS_Subset DEF Logged
  <1>2. \A kind, scope, from, to : LogsOf(kind, scope, from, to) \in SUBSET Logged
    BY DEF LogsOf, Logged, OperationsTyped
  <1>3. \A x \in Logged : log[x].amount \in Nat
    BY DEF Logged, LogRows
  <1>. QED
    BY <1>1, <1>2, <1>3

LEMMA LogsOfDays ==
  ASSUME FeedbackAssumption, OperationsAssumption, OperationsTyped, NEW kind, NEW scope
  PROVE  Parts([d \in 0 .. MaxTime |-> LogsOf(kind, scope, d, d)], 0 .. MaxTime,
               LogsOf(kind, scope, 0, MaxTime))
  <1>1. MaxTime \in Nat
    BY OperationsConstants
  <1>2. \A x \in LogIds : log[x] # NULL => log[x].logDate \in Nat
    BY DEF OperationsTyped, LogRows
  <1>3. \A d \in 0 .. MaxTime, x \in LogIds :
          x \in LogsOf(kind, scope, d, d) <=> x \in LogsOf(kind, scope, 0, MaxTime) /\ log[x].logDate = d
    BY <1>1, <1>2 DEF LogsOf
  <1>4. \A x \in LogsOf(kind, scope, 0, MaxTime) : x \in LogIds /\ log[x].logDate \in 0 .. MaxTime
    BY DEF LogsOf
  <1>5. \A d : LogsOf(kind, scope, d, d) \subseteq LogIds
    BY DEF LogsOf
  <1>6. PICK P, K, S : /\ K = 0 .. MaxTime /\ S = LogsOf(kind, scope, 0, MaxTime)
                       /\ P = [d \in K |-> LogsOf(kind, scope, d, d)]
    OBVIOUS
  <1>7. \A d \in K : P[d] = {x \in S : log[x].logDate = d}
    BY <1>3, <1>4, <1>5, <1>6
  <1>8. \A x \in S : log[x].logDate \in K
    BY <1>4, <1>6
  <1>9. Parts(P, K, S)
    BY <1>7, <1>8 DEF Parts
  <1>. QED
    BY <1>6, <1>9

LEMMA FewApprovals == IsFiniteSet(Approvals)
  <1>1. Approvals = {"PENDING"} \cup {"APPROVED"} \cup {"REJECTED"}
    BY DEF Approvals
  <1>. QED
    BY <1>1, FS_Union, FS_Singleton

LEMMA LogsOfStatuses ==
  ASSUME FeedbackAssumption, OperationsAssumption, OperationsTyped, NEW S \in SUBSET Logged
  PROVE  Parts([s \in Approvals |-> WithStatus(S, s)], Approvals, S)
  <1>1. \A x \in S : log[x].approvalStatus \in Approvals
    BY DEF Logged, LogRows
  <1>. QED
    BY <1>1 DEF Parts, WithStatus

LEMMA AmountsOfSome ==
  ASSUME FeedbackAssumption, OperationsAssumption, OperationsTyped, NEW S \in SUBSET Logged
  PROVE  [x \in S |-> log[x].amount] \in [S -> Int] /\ Amounted(S) \in Int
  <1>1. PICK u : u = [x \in S |-> log[x].amount]
    OBVIOUS
  <1>2. \A x \in S : log[x].amount \in Nat
    BY DEF Logged, LogRows
  <1>3. u \in [S -> Int] /\ IsFiniteSet(S)
    BY <1>1, <1>2, LogsAreLogged, FS_Subset
  <1>4. SumFunction(u) \in Int
    BY <1>3, SumStep
  <1>. QED
    BY <1>1, <1>3, <1>4 DEF Amounted

LEMMA AmountsAddUp ==
  ASSUME FeedbackAssumption, OperationsAssumption, OperationsTyped, NEW S \in SUBSET Logged
  PROVE  SumFunction([s \in Approvals |-> Amounted(WithStatus(S, s))]) = Amounted(S)
  <1>1. PICK u, P, n : /\ u = [x \in S |-> log[x].amount]
                       /\ P = [s \in Approvals |-> WithStatus(S, s)]
                       /\ n = [s \in Approvals |-> Amounted(WithStatus(S, s))]
    OBVIOUS
  <1>2. \A s : WithStatus(S, s) \in SUBSET S
    BY DEF WithStatus
  <1>3. u \in [S -> Int] /\ IsFiniteSet(S)
    BY <1>1, AmountsOfSome, LogsAreLogged, FS_Subset
  <1>4. n \in [Approvals -> Int]
    BY <1>1, <1>2, AmountsOfSome
  <1>5. \A s \in Approvals : n[s] = SumFunction([x \in P[s] |-> u[x]])
    <2>1. ASSUME NEW s \in Approvals
          PROVE  n[s] = SumFunction([x \in P[s] |-> u[x]])
      <3>1. [x \in P[s] |-> u[x]] = [x \in WithStatus(S, s) |-> log[x].amount]
        BY <1>1, <1>2
      <3>. QED
        BY <1>1, <3>1 DEF Amounted
    <2>. QED
      BY <2>1
  <1>6. IsFiniteSet(Approvals)
    BY FewApprovals
  <1>7. Parts(P, Approvals, S)
    BY <1>1, LogsOfStatuses
  <1>8. SumFunction(n) = SumFunction(u)
    BY <1>3, <1>4, <1>5, <1>6, <1>7, SumOfParts
  <1>. QED
    BY <1>1, <1>8 DEF Amounted

LEMMA PendingAddsUp ==
  ASSUME FeedbackAssumption, OperationsAssumption, OperationsTyped, NEW scope
  PROVE  getOperationalWidgets(scope).pendingApprovals.total =
           Cardinality(getPaginatedDiscountLogs(scope, "PENDING", 0, MaxTime)
                        \cup getPaginatedEntertainmentLogs(scope, "PENDING", 0, MaxTime))
  <1>1. PICK A, B : /\ A = getPaginatedDiscountLogs(scope, "PENDING", 0, MaxTime)
                    /\ B = getPaginatedEntertainmentLogs(scope, "PENDING", 0, MaxTime)
    OBVIOUS
  <1>2. A \cap B = {} /\ A \in SUBSET Logged /\ B \in SUBSET Logged
    <2>1. /\ A = WithStatus(LogsOf("discount", scope, 0, MaxTime), "PENDING")
          /\ B = WithStatus(LogsOf("entertainment", scope, 0, MaxTime), "PENDING")
      BY <1>1 DEF getPaginatedDiscountLogs, getPaginatedEntertainmentLogs
    <2>2. A \cap B = {}
      BY <2>1 DEF WithStatus, LogsOf
    <2>. QED
      BY <2>1, <2>2, LogsAreLogged DEF WithStatus
  <1>3. IsFiniteSet(A) /\ IsFiniteSet(B)
    BY <1>2, LogsAreLogged, FS_Subset
  <1>4. Cardinality(A \cup B) = Cardinality(A) + Cardinality(B)
    BY <1>2, <1>3, CountOfTwo DEF IsTotal
  <1>5. getOperationalWidgets(scope).pendingApprovals.total = Cardinality(A) + Cardinality(B)
    BY <1>1 DEF getOperationalWidgets, getPaginatedDiscountLogs, getPaginatedEntertainmentLogs
  <1>. QED
    BY <1>1, <1>4, <1>5

LEMMA DaysAddUp ==
  ASSUME FeedbackAssumption, OperationsAssumption, OperationsTyped, NEW scope, NEW k \in Kinds
  PROVE  getDailySummary(scope, 0, MaxTime)[k].logs
           = SumFunction([d \in 0 .. MaxTime |-> getDailySummary(scope, d, d)[k].logs])
  <1>1. PICK S, K, P, n :
          /\ S = LogsOf(k, scope, 0, MaxTime) /\ K = 0 .. MaxTime
          /\ P = [d \in K |-> LogsOf(k, scope, d, d)]
          /\ n = [d \in K |-> getDailySummary(scope, d, d)[k].logs]
    OBVIOUS
  <1>2. IsFiniteSet(S) /\ IsFiniteSet(K)
    <2>1. IsFiniteSet(S)
      BY <1>1, LogsAreLogged, FS_Subset
    <2>2. 0 \in Int /\ MaxTime \in Int
      BY OperationsConstants
    <2>3. IsFiniteSet(0 .. MaxTime)
      BY <2>2, FS_Interval
    <2>. QED
      BY <1>1, <2>1, <2>3
  <1>3. Parts(P, K, S)
    BY <1>1, LogsOfDays
  <1>4. \A d \in K : n[d] = Cardinality(P[d])
    BY <1>1 DEF getDailySummary
  <1>5. DOMAIN n = K /\ n = [d \in K |-> n[d]]
    BY <1>1
  <1>6. SumFunction(n) = Cardinality(S)
    BY <1>2, <1>3, <1>4, <1>5, CountOfParts
  <1>7. getDailySummary(scope, 0, MaxTime)[k].logs = Cardinality(S)
    BY <1>1 DEF getDailySummary
  <1>. QED
    BY <1>1, <1>6, <1>7

LEMMA LogsHold ==
  ASSUME FeedbackAssumption, OperationsAssumption, OperationsTyped, NEW scope
  PROVE  LogsAgree(scope)
  <1>1. \A k \in Kinds :
          /\ getDailySummary(scope, 0, MaxTime)[k].logs = Cardinality(LogsOf(k, scope, 0, MaxTime))
          /\ getDailySummary(scope, 0, MaxTime)[k].total = Amounted(LogsOf(k, scope, 0, MaxTime))
    BY DEF getDailySummary
  <1>2. \A k \in Kinds : Amounted(LogsOf(k, scope, 0, MaxTime)) =
          SumFunction([s \in Approvals |-> Amounted(WithStatus(LogsOf(k, scope, 0, MaxTime), s))])
    BY LogsAreLogged, AmountsAddUp
  <1>3. \A k : Cardinality(LogsOf(k, scope, 0, MaxTime)) <= ExportLimit =>
          LatestLogs(LogsOf(k, scope, 0, MaxTime)) = LogsOf(k, scope, 0, MaxTime)
    <2>1. ASSUME NEW k, Cardinality(LogsOf(k, scope, 0, MaxTime)) <= ExportLimit
          PROVE  LatestLogs(LogsOf(k, scope, 0, MaxTime)) = LogsOf(k, scope, 0, MaxTime)
      <3>1. PICK S : S = LogsOf(k, scope, 0, MaxTime) /\ Cardinality(S) <= ExportLimit
        BY <2>1
      <3>2. IsFiniteSet(S)
        BY <3>1, LogsAreLogged, FS_Subset
      <3>3. LatestBy(S, [x \in S |-> log[x].logDate]) = S
        BY <3>1, <3>2, LatestOfFew
      <3>. QED
        BY <3>1, <3>3 DEF LatestLogs
    <2>. QED
      BY <2>1
  <1>4. /\ exportDiscountLogsExcel(scope, 0, MaxTime) = LatestLogs(LogsOf("discount", scope, 0, MaxTime))
        /\ exportEntertainmentLogsExcel(scope, 0, MaxTime) =
             LatestLogs(LogsOf("entertainment", scope, 0, MaxTime))
    BY DEF exportDiscountLogsExcel, exportEntertainmentLogsExcel
  <1>5. "discount" \in Kinds /\ "entertainment" \in Kinds
    BY DEF Kinds
  <1>6. ASSUME NEW k \in Kinds, getDailySummary(scope, 0, MaxTime)[k].logs <= ExportLimit
        PROVE  getDailySummary(scope, 0, MaxTime)[k].total =
                 Amounted(LatestLogs(LogsOf(k, scope, 0, MaxTime)))
    BY <1>1, <1>3, <1>6
  <1>7. \A k \in Kinds :
          /\ getDailySummary(scope, 0, MaxTime)[k].logs
               = SumFunction([d \in 0 .. MaxTime |-> getDailySummary(scope, d, d)[k].logs])
          /\ getDailySummary(scope, 0, MaxTime)[k].total = SumFunction([s \in Approvals |->
               Amounted(WithStatus(LogsOf(k, scope, 0, MaxTime), s))])
    BY <1>1, <1>2, DaysAddUp
  <1>. QED
    BY <1>4, <1>5, <1>6, <1>7, PendingAddsUp DEF LogsAgree

-----------------------------------------------------------------------------
(* Manager reports. *)

LEMMA ReportsAreFew ==
  ASSUME FeedbackAssumption, OperationsAssumption, NEW scope, NEW from, NEW to
  PROVE  IsFiniteSet(ReportsOf(scope, from, to))
  BY OperationsConstants, FS_Subset DEF ReportsOf

LEMMA ReportsOfStatuses ==
  ASSUME FeedbackAssumption, OperationsAssumption, OperationsTyped, NEW scope, NEW from, NEW to
  PROVE  Parts([s \in Approvals |-> getPaginatedReports(scope, s, from, to)], Approvals,
               ReportsOf(scope, from, to))
  <1>1. \A x \in ReportsOf(scope, from, to) : report[x].approvalStatus \in Approvals
    <2>1. \A x \in ReportsOf(scope, from, to) : report[x] \in ReportRows
      BY DEF ReportsOf, OperationsTyped
    <2>. QED
      BY <2>1 DEF ReportRows
  <1>. QED
    BY <1>1 DEF Parts, getPaginatedReports

LEMMA StatusesAddUp ==
  ASSUME FeedbackAssumption, OperationsAssumption, OperationsTyped, NEW scope, NEW from, NEW to
  PROVE  SumFunction([s \in Approvals |-> Cardinality(getPaginatedReports(scope, s, from, to))])
           = Cardinality(ReportsOf(scope, from, to))
  <1>1. PICK S, P, n :
          /\ S = ReportsOf(scope, from, to)
          /\ P = [s \in Approvals |-> getPaginatedReports(scope, s, from, to)]
          /\ n = [s \in Approvals |-> Cardinality(getPaginatedReports(scope, s, from, to))]
    OBVIOUS
  <1>2. IsFiniteSet(S) /\ Parts(P, Approvals, S)
    BY <1>1, ReportsAreFew, ReportsOfStatuses
  <1>3. \A s \in Approvals : n[s] = Cardinality(P[s])
    BY <1>1
  <1>4. DOMAIN n = Approvals /\ n = [s \in Approvals |-> n[s]]
    BY <1>1
  <1>5. SumFunction(n) = Cardinality(S)
    BY <1>2, <1>3, <1>4, FewApprovals, CountOfParts
  <1>. QED
    BY <1>1, <1>5

LEMMA SummaryAddsUp ==
  ASSUME FeedbackAssumption, OperationsAssumption, OperationsTyped, NEW scope
  PROVE  getReportSummary(scope).total = Cardinality(ReportsOf(scope, 0, MaxTime))
  <1>1. PICK S, A, B, C :
          /\ S = ReportsOf(scope, 0, MaxTime)
          /\ A = getPaginatedReports(scope, "PENDING", 0, MaxTime)
          /\ B = getPaginatedReports(scope, "APPROVED", 0, MaxTime)
          /\ C = getPaginatedReports(scope, "REJECTED", 0, MaxTime)
    OBVIOUS
  <1>2. /\ \A x \in S : report[x].approvalStatus \in {"PENDING", "APPROVED", "REJECTED"}
        /\ A = {x \in S : report[x].approvalStatus = "PENDING"}
        /\ B = {x \in S : report[x].approvalStatus = "APPROVED"}
        /\ C = {x \in S : report[x].approvalStatus = "REJECTED"}
    <2>1. \A x \in S : report[x] \in ReportRows
      BY <1>1 DEF ReportsOf, OperationsTyped
    <2>. QED
      BY <1>1, <2>1 DEF ReportRows, Approvals, getPaginatedReports
  <1>3. /\ A \cap B = {} /\ (A \cup B) \cap C = {} /\ A \cup B \cup C = S
    BY <1>2
  <1>4. IsFiniteSet(A) /\ IsFiniteSet(B) /\ IsFiniteSet(C) /\ IsFiniteSet(A \cup B)
    <2>1. IsFiniteSet(S) /\ A \in SUBSET S /\ B \in SUBSET S /\ C \in SUBSET S
      BY <1>1, <1>2, ReportsAreFew
    <2>. QED
      BY <2>1, FS_Subset, FS_Union
  <1>5. IsTotal(Cardinality(A \cup B), Cardinality(A), Cardinality(B))
    BY <1>3, <1>4, CountOfTwo
  <1>6. IsTotal(Cardinality(A \cup B \cup C), Cardinality(A \cup B), Cardinality(C))
    BY <1>3, <1>4, CountOfTwo
  <1>7. getReportSummary(scope).total = Cardinality(A) + Cardinality(B) + Cardinality(C)
    BY <1>1 DEF getReportSummary
  <1>. QED
    BY <1>1, <1>3, <1>5, <1>6, <1>7 DEF IsTotal

LEMMA ComplaintsAddUp ==
  ASSUME FeedbackAssumption, OperationsAssumption, OperationsTyped, NEW scope, NEW R,
         R = exportManagerReportsExcel(scope, 0, MaxTime)
  PROVE  Cardinality(R.complaints) = SumFunction(R.reports)
  <1>1. PICK S, day, K :
          /\ S = ReportsOf(scope, 0, MaxTime)
          /\ day = [x \in S |-> report[x].reportDate]
          /\ K = LatestBy(S, day)
    OBVIOUS
  <1>2. IsFiniteSet(S) /\ day \in [S -> 0 .. MaxTime]
    <2>1. \A x \in S : report[x].reportDate \in 0 .. MaxTime
      BY <1>1 DEF ReportsOf
    <2>. QED
      BY <1>1, <2>1, ReportsAreFew
  <1>3. K \in SUBSET S /\ IsFiniteSet(K)
    BY <1>1, <1>2, LatestOfSome, FS_Subset
  <1>4. PICK C, P, n :
          /\ C = {c \in DOMAIN ReportOf : ReportOf[c] \in K}
          /\ P = [x \in K |-> {c \in DOMAIN ReportOf : ReportOf[c] \in {x}}]
          /\ n = [x \in K |-> Cardinality({c \in DOMAIN ReportOf : ReportOf[c] \in {x}})]
    OBVIOUS
  <1>5. R.complaints = C /\ R.reports = n
    BY <1>1, <1>4 DEF exportManagerReportsExcel, LatestReports
  <1>6. IsFiniteSet(C)
    BY <1>4, FS_Subset DEF OperationsAssumption
  <1>7. Parts(P, K, C)
    BY <1>4 DEF Parts
  <1>8. /\ \A x \in K : n[x] = Cardinality(P[x])
        /\ DOMAIN n = K /\ n = [x \in K |-> n[x]]
    BY <1>4
  <1>9. SumFunction(n) = Cardinality(C)
    BY <1>3, <1>6, <1>7, <1>8, CountOfParts
  <1>. QED
    BY <1>5, <1>9

LEMMA ReportsHold ==
  ASSUME FeedbackAssumption, OperationsAssumption, OperationsTyped, NEW scope
  PROVE  ReportsAgree(scope)
  <1>1. PICK day : day = now \div DayLength
    OBVIOUS
  <1>2. getOperationalWidgets(scope).managerReportsSubmittedToday =
          Cardinality(ReportsOf(scope, day, day))
    BY <1>1 DEF getOperationalWidgets
  <1>3. SumFunction([s \in Approvals |-> Cardinality(getPaginatedReports(scope, s, day, day))])
          = Cardinality(ReportsOf(scope, day, day))
    BY StatusesAddUp
  <1>4. Cardinality(exportManagerReportsExcel(scope, 0, MaxTime).complaints) =
          SumFunction(exportManagerReportsExcel(scope, 0, MaxTime).reports)
    BY ComplaintsAddUp
  <1>. QED
    BY <1>1, <1>2, <1>3, <1>4, SummaryAddsUp, Zenon DEF ReportsAgree

-----------------------------------------------------------------------------
(* The pages of a list.  Page n of k rows takes the rows from s = (n - 1)  *)
(* * k on; row a, counted from 0, is on page a \div k + 1.  A row is taken *)
(* only if fewer than s + k come before its ties, and more than s up to    *)
(* their end.                                                              *)

LEMMA QuotientBounds ==
  ASSUME NEW a \in Nat, NEW b \in Nat \ {0}
  PROVE  a \div b \in Nat /\ b * (a \div b) <= a /\ a < b * (a \div b) + b
  OBVIOUS

LEMMA ProductGrows ==
  ASSUME NEW b \in Nat \ {0}, NEW i \in Int, NEW j \in Int, i <= j
  PROVE  b * i <= b * j
  OBVIOUS

LEMMA ProductsAreNumbers ==
  ASSUME NEW i \in Nat, NEW b \in Nat
  PROVE  i * b \in Nat
  OBVIOUS

(* A number and the page it falls on, counted from 1. *)
Falls(a, s, k, n) ==
  /\ s <= a <=> n <= a \div k + 1
  /\ a < s + k <=> a \div k + 1 <= n

LEMMA NumberFalls ==
  ASSUME NEW a \in Nat, NEW k \in Nat \ {0}, NEW n \in Nat \ {0}, NEW s, s = (n - 1) * k
  PROVE  Falls(a, s, k, n)
  <1>1. PICK q \in Nat, u \in Int : q = a \div k /\ u = k * q /\ u <= a /\ a < u + k
    <2>1. a \div k \in Nat /\ k * (a \div k) <= a /\ a < k * (a \div k) + k
      BY QuotientBounds
    <2>. QED
      BY <2>1
  <1>2. s \in Int /\ s = k * (n - 1)
    OBVIOUS
  <1>3. k * (q + 1) = u + k /\ k * n = s + k
    BY <1>1, <1>2
  <1>4. n - 1 <= q => s <= u
    BY <1>1, <1>2, ProductGrows
  <1>5. q + 1 <= n - 1 => u + k <= s
    BY <1>1, <1>2, <1>3, ProductGrows
  <1>6. q <= n - 1 => u <= s
    BY <1>1, <1>2, ProductGrows
  <1>7. n <= q => s + k <= u
    BY <1>1, <1>2, <1>3, ProductGrows
  <1>8. s <= a <=> n <= q + 1
    BY <1>1, <1>2, <1>4, <1>5
  <1>9. a < s + k <=> q + 1 <= n
    BY <1>1, <1>2, <1>6, <1>7
  <1>. QED
    BY <1>1, <1>8, <1>9 DEF Falls

LEMMA MaxOfTwo ==
  ASSUME NEW m \in Nat, NEW n \in Nat
  PROVE  Max({m, n}) \in Nat /\ m <= Max({m, n}) /\ n <= Max({m, n})
         /\ (n <= m => Max({m, n}) = m)
  BY DEF Max

LEMMA ClampKeeps ==
  ASSUME NEW n \in 1 .. MaxLimit
  PROVE  Clamp(n) = n
  <1>1. MaxLimit \in Nat /\ 1 \in Nat /\ n \in Nat /\ 1 <= n /\ n <= MaxLimit
    BY DEF MaxLimit
  <1>2. Max({n, 1}) = n
    BY <1>1, MaxOfTwo
  <1>3. Min({n, MaxLimit}) = Least(n, MaxLimit)
    BY <1>1, MinOfTwo
  <1>. QED
    BY <1>1, <1>2, <1>3 DEF Clamp, Least

(* The rows before those that tie with x, and the rows up to these. *)
Below(S, rank, x) == {y \in S : rank[y] < rank[x]}

UpTo(S, rank, x) == {y \in S : rank[y] <= rank[x]}

LEMMA LeadCount ==
  ASSUME NEW S, IsFiniteSet(S), NEW K \in SUBSET S, NEW n \in Nat, NEW rank,
         MayLead(K, S, n, rank)
  PROVE  /\ IsFiniteSet(K) /\ Cardinality(K) \in Nat /\ Cardinality(K) <= n
         /\ K # S => Cardinality(K) = n
         /\ n <= Cardinality(S) => Cardinality(K) = n
  <1>1. /\ IsFiniteSet(K) /\ Cardinality(K) \in Nat /\ Cardinality(S) \in Nat
        /\ Cardinality(K) <= Cardinality(S)
        /\ Cardinality(K) = Cardinality(S) => K = S
    BY FS_Subset, FS_CardinalityType
  <1>2. Min({n, Cardinality(S)}) = Least(n, Cardinality(S))
    BY <1>1, MinOfTwo
  <1>3. Cardinality(K) = Least(n, Cardinality(S))
    BY <1>2 DEF MayLead
  <1>. QED
    BY <1>1, <1>3 DEF Least

(* The rows skipped and the rows taken. *)
Taken(S, B, K, s, t, rank) ==
  /\ B \in SUBSET S /\ K \in SUBSET (S \ B)
  /\ MayLead(B, S, s, rank) /\ MayLead(K, S \ B, t, rank)

LEMMA TakenCount ==
  ASSUME NEW S, IsFiniteSet(S), NEW rank, NEW s \in Nat, NEW t \in Nat, NEW B, NEW K,
         Taken(S, B, K, s, t, rank)
  PROVE  /\ IsFiniteSet(B \cup K) /\ Cardinality(B \cup K) = Cardinality(B) + Cardinality(K)
         /\ Cardinality(B) \in Nat /\ Cardinality(B) <= s /\ (B # S => Cardinality(B) = s)
         /\ Cardinality(K) \in Nat /\ Cardinality(K) <= t /\ (K # S \ B => Cardinality(K) = t)
  <1>1. B \in SUBSET S /\ K \in SUBSET (S \ B) /\ IsFiniteSet(S \ B)
    BY FS_Subset DEF Taken
  <1>2. /\ IsFiniteSet(B) /\ Cardinality(B) \in Nat /\ Cardinality(B) <= s
        /\ B # S => Cardinality(B) = s
    BY <1>1, LeadCount DEF Taken
  <1>3. PICK R : R = S \ B
    OBVIOUS
  <1>4. /\ IsFiniteSet(K) /\ Cardinality(K) \in Nat /\ Cardinality(K) <= t
        /\ K # R => Cardinality(K) = t
    <2>1. IsFiniteSet(R) /\ K \in SUBSET R /\ MayLead(K, R, t, rank)
      BY <1>1, <1>3 DEF Taken
    <2>. QED
      BY <2>1, LeadCount
  <1>5. IsFiniteSet(B \cup K) /\ Cardinality(B \cup K) = Cardinality(B) + Cardinality(K)
    <2>1. B \cap K = {}
      BY <1>1
    <2>2. IsTotal(Cardinality(B \cup K), Cardinality(B), Cardinality(K))
      BY <1>2, <1>4, <2>1, CountOfTwo
    <2>3. B \cup K \in SUBSET S
      BY <1>1
    <2>4. IsFiniteSet(B \cup K)
      BY <2>3, FS_Subset
    <2>. QED
      BY <2>2, <2>4 DEF IsTotal
  <1>. QED
    BY <1>2, <1>3, <1>4, <1>5

LEMMA WithoutOne ==
  ASSUME NEW T, IsFiniteSet(T), NEW x \in T, NEW U \in SUBSET (T \ {x})
  PROVE  Cardinality(U) \in Nat /\ Cardinality(U) < Cardinality(T)
  <1>1. PICK D : D = T \ {x} /\ IsFiniteSet(D)
    BY FS_Subset
  <1>2. Cardinality(D) = Cardinality(T) - 1 /\ Cardinality(T) \in Nat
    BY <1>1, FS_RemoveElement, FS_CardinalityType
  <1>3. IsFiniteSet(U) /\ Cardinality(U) <= Cardinality(D) /\ U \in SUBSET D
    BY <1>1, FS_Subset
  <1>4. Cardinality(U) \in Nat
    BY <1>3, FS_CardinalityType
  <1>. QED
    BY <1>2, <1>3, <1>4

(* Between the first and the last of its ties, s rows are skipped. *)
LEMMA RowTaken ==
  ASSUME NEW S, IsFiniteSet(S), NEW rank \in [S -> Int], NEW s \in Nat, NEW t \in Nat,
         NEW B, NEW K, Taken(S, B, K, s, t, rank), NEW x \in K
  PROVE  Cardinality(Below(S, rank, x)) < s + t /\ s < Cardinality(UpTo(S, rank, x))
  <1>1. B \in SUBSET S /\ K \in SUBSET (S \ B) /\ x \in S /\ x \notin B
    BY DEF Taken
  <1>2. \A y \in B : rank[y] <= rank[x]
    BY <1>1 DEF Taken, MayLead
  <1>3. \A y \in (S \ B) \ K : rank[x] <= rank[y]
    BY <1>1 DEF Taken, MayLead
  <1>4. Below(S, rank, x) \in SUBSET ((B \cup K) \ {x})
    <2>1. ASSUME NEW y \in S, rank[y] < rank[x]
          PROVE  y \in (B \cup K) \ {x}
      <3>1. rank[y] \in Int /\ rank[x] \in Int
        BY <1>1
      <3>2. y # x /\ ~(rank[x] <= rank[y])
        BY <2>1, <3>1
      <3>. QED
        BY <1>3, <3>2
    <2>. QED
      BY <2>1 DEF Below
  <1>5. PICK T : T = B \cup K
    OBVIOUS
  <1>6. /\ Cardinality(Below(S, rank, x)) \in Nat
        /\ Cardinality(Below(S, rank, x)) < Cardinality(T)
    <2>1. IsFiniteSet(T) /\ x \in T /\ Below(S, rank, x) \in SUBSET (T \ {x})
      BY <1>4, <1>5, TakenCount
    <2>. QED
      BY <2>1, WithoutOne
  <1>7. PICK b \in Nat, k \in Nat :
          b = Cardinality(B) /\ k = Cardinality(K) /\ b = s /\ k <= t /\ Cardinality(T) = b + k
    <2>1. B # S
      BY <1>1
    <2>2. Cardinality(B) \in Nat /\ Cardinality(B) = s
      <3>1. Cardinality(B) \in Nat /\ (B # S => Cardinality(B) = s)
        BY TakenCount
      <3>. QED
        BY <2>1, <3>1
    <2>3. Cardinality(K) \in Nat /\ Cardinality(K) <= t
      BY TakenCount
    <2>4. Cardinality(B \cup K) = Cardinality(B) + Cardinality(K)
      BY TakenCount
    <2>. QED
      BY <1>5, <2>2, <2>3, <2>4
  <1>8. Cardinality(Below(S, rank, x)) < s + t
    BY <1>6, <1>7
  <1>9. PICK U : U = UpTo(S, rank, x) /\ IsFiniteSet(U) /\ x \in U /\ B \in SUBSET (U \ {x})
    <2>1. UpTo(S, rank, x) \in SUBSET S
      BY DEF UpTo
    <2>2. rank[x] <= rank[x]
      <3>1. PICK i \in Int : i = rank[x]
        BY <1>1
      <3>. QED
        BY <3>1
    <2>3. x \in UpTo(S, rank, x) /\ B \in SUBSET (UpTo(S, rank, x) \ {x})
      BY <1>1, <1>2, <2>2 DEF UpTo
    <2>. QED
      BY <2>1, <2>3, FS_Subset
  <1>10. Cardinality(B) < Cardinality(U)
    BY <1>9, WithoutOne
  <1>. QED
    BY <1>7, <1>8, <1>9, <1>10

LEMMA RowLeftOut ==
  ASSUME NEW S, IsFiniteSet(S), NEW rank \in [S -> Int], NEW s \in Nat, NEW t \in Nat,
         NEW B, NEW K, Taken(S, B, K, s, t, rank), NEW x \in S, x \notin K
  PROVE  Cardinality(Below(S, rank, x)) < s \/ s + t < Cardinality(UpTo(S, rank, x))
  <1>1. B \in SUBSET S /\ K \in SUBSET (S \ B)
    BY DEF Taken
  <1>2. CASE x \in B
    <2>1. \A y \in S \ B : rank[x] <= rank[y]
      BY <1>2 DEF Taken, MayLead
    <2>2. Below(S, rank, x) \in SUBSET (B \ {x})
      <3>1. ASSUME NEW y \in S, rank[y] < rank[x]
            PROVE  y \in B \ {x}
        <4>1. rank[y] \in Int /\ rank[x] \in Int
          OBVIOUS
        <4>2. y # x /\ ~(rank[x] <= rank[y])
          BY <3>1, <4>1
        <4>. QED
          BY <2>1, <4>2
      <3>. QED
        BY <3>1 DEF Below
    <2>3. IsFiniteSet(B)
      BY <1>1, FS_Subset
    <2>4. /\ Cardinality(Below(S, rank, x)) \in Nat
          /\ Cardinality(Below(S, rank, x)) < Cardinality(B)
      BY <1>2, <2>2, <2>3, WithoutOne
    <2>5. Cardinality(B) \in Nat /\ Cardinality(B) <= s
      BY TakenCount
    <2>. QED
      BY <2>4, <2>5
  <1>3. CASE x \notin B
    <2>1. \A y \in B \cup K : rank[y] <= rank[x]
      BY <1>1, <1>3 DEF Taken, MayLead
    <2>2. PICK U, T : /\ U = UpTo(S, rank, x) /\ IsFiniteSet(U) /\ x \in U
                      /\ T = B \cup K /\ T \in SUBSET (U \ {x})
      <3>1. UpTo(S, rank, x) \in SUBSET S
        BY DEF UpTo
      <3>2. rank[x] <= rank[x]
        <4>1. PICK i \in Int : i = rank[x]
          OBVIOUS
        <4>. QED
          BY <4>1
      <3>3. x \in UpTo(S, rank, x) /\ B \cup K \in SUBSET (UpTo(S, rank, x) \ {x})
        BY <1>1, <1>3, <2>1, <3>2 DEF UpTo
      <3>. QED
        BY <3>1, <3>3, FS_Subset
    <2>3. Cardinality(T) < Cardinality(U)
      BY <2>2, WithoutOne
    <2>4. PICK b \in Nat, k \in Nat :
            b = Cardinality(B) /\ k = Cardinality(K) /\ b = s /\ k = t /\ Cardinality(T) = b + k
      <3>1. B # S /\ K # S \ B
        BY <1>3
      <3>2. /\ Cardinality(B) \in Nat /\ Cardinality(B) = s
            /\ Cardinality(K) \in Nat /\ Cardinality(K) = t
            /\ Cardinality(T) = Cardinality(B) + Cardinality(K)
        BY <2>2, <3>1, TakenCount
      <3>. QED
        BY <3>2
    <2>. QED
      BY <2>2, <2>3, <2>4
  <1>. QED
    BY <1>2, <1>3

(* What PagesShowOnce says of one answer to the query for page n. *)
PageAgrees(list, rank, limit, n, K) ==
  /\ Cardinality(K) = Min({limit, Cardinality(list) - (n - 1) * limit})
  /\ \A x \in list :
       LET first == FirstPage(list, rank, limit, x)
           final == LastPage(list, rank, limit, x)
       IN  /\ x \in K => first <= n /\ n <= final
           /\ first = n /\ final = n => x \in K

LEMMA PageHolds ==
  ASSUME NEW list, IsFiniteSet(list), NEW rank \in [list -> Int], NEW limit \in Nat \ {0},
         NEW n \in Nat \ {0}, NEW s \in Nat, s = (n - 1) * limit, s <= Cardinality(list),
         NEW B, NEW K, Taken(list, B, K, s, limit, rank)
  PROVE  PageAgrees(list, rank, limit, n, K)
  <1>1. Cardinality(K) = Min({limit, Cardinality(list) - s})
    <2>1. B \in SUBSET list /\ MayLead(B, list, s, rank) /\ MayLead(K, list \ B, limit, rank)
      BY DEF Taken
    <2>2. Cardinality(B) = s
      BY <2>1, LeadCount
    <2>3. Cardinality(list \ B) = Cardinality(list) - s
      <3>1. PICK D : D = list \ B /\ IsFiniteSet(D) /\ IsFiniteSet(B)
        BY <2>1, FS_Subset
      <3>2. IsTotal(Cardinality(B \cup D), Cardinality(B), Cardinality(D))
            /\ Cardinality(D) \in Nat
        <4>1. B \cap D = {}
          BY <3>1
        <4>. QED
          BY <3>1, <4>1, CountOfTwo
      <3>3. B \cup D = list
        BY <2>1, <3>1
      <3>4. Cardinality(list) = s + Cardinality(D)
        BY <2>2, <3>2, <3>3 DEF IsTotal
      <3>5. PICK d \in Nat : d = Cardinality(D)
        BY <3>2
      <3>. QED
        BY <3>1, <3>4, <3>5
    <2>. QED
      BY <2>1, <2>3 DEF MayLead
  <1>2. ASSUME NEW x \in list
        PROVE  /\ x \in K => FirstPage(list, rank, limit, x) <= n
                              /\ n <= LastPage(list, rank, limit, x)
               /\ FirstPage(list, rank, limit, x) = n /\ LastPage(list, rank, limit, x) = n
                    => x \in K
    <2>1. PICK b \in Nat : /\ b = Cardinality(Below(list, rank, x))
                           /\ FirstPage(list, rank, limit, x) = b \div limit + 1
      <3>1. Below(list, rank, x) \in SUBSET list
        BY DEF Below
      <3>2. Cardinality(Below(list, rank, x)) \in Nat
        BY <3>1, FS_Subset, FS_CardinalityType
      <3>. QED
        BY <3>2 DEF FirstPage, Below
    <2>2. PICK c \in Nat : /\ c + 1 = Cardinality(UpTo(list, rank, x))
                           /\ LastPage(list, rank, limit, x) = c \div limit + 1
      <3>1. UpTo(list, rank, x) \in SUBSET list
        BY DEF UpTo
      <3>2. x \in UpTo(list, rank, x)
        <4>1. PICK i \in Int : i = rank[x]
          OBVIOUS
        <4>. QED
          BY <4>1 DEF UpTo
      <3>3. /\ Cardinality(UpTo(list, rank, x)) \in Nat
            /\ 0 < Cardinality(UpTo(list, rank, x))
        <4>1. PICK U : U = UpTo(list, rank, x) /\ IsFiniteSet(U) /\ x \in U
          BY <3>1, <3>2, FS_Subset
        <4>2. {} \in SUBSET (U \ {x})
          OBVIOUS
        <4>3. Cardinality({}) \in Nat /\ Cardinality({}) < Cardinality(U)
          BY <4>1, <4>2, WithoutOne
        <4>. QED
          BY <4>1, <4>3, FS_CardinalityType
      <3>4. PICK m \in Nat \ {0} : m = Cardinality(UpTo(list, rank, x))
        BY <3>3
      <3>5. LastPage(list, rank, limit, x) = (m - 1) \div limit + 1
        BY <3>4 DEF LastPage, UpTo
      <3>6. m - 1 \in Nat /\ (m - 1) + 1 = m
        BY <3>4
      <3>. QED
        BY <3>4, <3>5, <3>6
    <2>3. Falls(b, s, limit, n) /\ Falls(c, s, limit, n)
      BY NumberFalls
    <2>4. PICK p \in Int, q \in Int :
            /\ p = FirstPage(list, rank, limit, x) /\ q = LastPage(list, rank, limit, x)
            /\ s <= b <=> n <= p
            /\ b < s + limit <=> p <= n
            /\ s <= c <=> n <= q
            /\ c < s + limit <=> q <= n
      <3>1. b \div limit \in Nat /\ c \div limit \in Nat
        BY QuotientBounds
      <3>. QED
        BY <2>1, <2>2, <2>3, <3>1 DEF Falls
    <2>5. x \in K => b < s + limit /\ s < c + 1
      BY <2>1, <2>2, RowTaken
    <2>6. x \notin K => b < s \/ s + limit < c + 1
      BY <2>1, <2>2, RowLeftOut
    <2>7. x \in K => p <= n /\ n <= q
      BY <2>4, <2>5
    <2>8. p = n /\ q = n => x \in K
      BY <2>4, <2>6
    <2>. QED
      BY <2>4, <2>7, <2>8
  <1>. QED
    BY <1>1, <1>2 DEF PageAgrees

(* The query for a page. *)
Asked(n, limit, sortBy, sortOrder) ==
  transformPagination([page |-> n, limit |-> limit, sortBy |-> sortBy, sortOrder |-> sortOrder])

LEMMA QueriesAsked ==
  ASSUME NEW limit \in 1 .. MaxLimit, NEW sortBy, NEW sortOrder, NEW n \in 1 .. MaxLimit
  PROVE  /\ Asked(n, limit, sortBy, sortOrder).skip = (n - 1) * limit
         /\ Asked(n, limit, sortBy, sortOrder).take = limit
         /\ Asked(n, limit, sortBy, sortOrder).orderBy = Asked(1, limit, sortBy, sortOrder).orderBy
  <1>1. Clamp(limit) = limit /\ Clamp(n) = n
    BY ClampKeeps
  <1>. QED
    BY <1>1 DEF Asked, transformPagination

SortColumns == {"logDate", "amount"}

LEMMA RanksAreNumbers ==
  ASSUME NEW list \in SUBSET Logged, NEW limit, NEW sortBy \in SortColumns, NEW sortOrder
  PROVE  Rank(list, Asked(1, limit, sortBy, sortOrder).orderBy) \in [list -> Int]
  <1>1. PICK o : o = Asked(1, limit, sortBy, sortOrder).orderBy /\ o.column = sortBy
    <2>1. PICK d : Asked(1, limit, sortBy, sortOrder).orderBy = [column |-> sortBy, direction |-> d]
      BY DEF Asked, transformPagination
    <2>. QED
      BY <2>1
  <1>2. ASSUME NEW x \in list
        PROVE  log[x][sortBy] \in Nat /\ -log[x][sortBy] \in Int
    <2>1. log[x] \in LogRows
      BY DEF Logged
    <2>2. log[x][sortBy] \in Nat
      BY <2>1 DEF LogRows, SortColumns
    <2>. QED
      BY <2>2
  <1>. QED
    BY <1>1, <1>2 DEF Rank

LEMMA PagesOfList ==
  ASSUME FeedbackAssumption, OperationsAssumption, NEW list \in SUBSET Logged,
         NEW limit \in PageSizes, NEW sortBy \in SortColumns, NEW sortOrder
  PROVE  PagesShowOnce(list, limit, sortBy, sortOrder)
  <1>1. IsFiniteSet(list) /\ Cardinality(list) \in Nat
    BY OperationsConstants, FS_Subset, FS_CardinalityType DEF Logged
  <1>2. limit \in 1 .. MaxLimit /\ limit \in Nat \ {0} /\ 1 \in 1 .. MaxLimit
    BY DEF OperationsAssumption, MaxLimit
  <1>3. PICK rank : /\ rank = Rank(list, Asked(1, limit, sortBy, sortOrder).orderBy)
                    /\ rank \in [list -> Int]
    BY RanksAreNumbers
  <1>4. PICK N \in Nat, m \in Nat :
          N = Cardinality(list) /\ m = (N + limit - 1) \div limit /\ limit * m <= N + limit - 1
    <2>1. PICK N \in Nat : N = Cardinality(list)
      BY <1>1
    <2>2. PICK a \in Nat : a = N + limit - 1
      BY <1>2
    <2>3. a \div limit \in Nat /\ limit * (a \div limit) <= a
      BY <1>2, <2>2, QuotientBounds
    <2>. QED
      BY <2>1, <2>2, <2>3
  <1>5. PICK last \in Nat : last = Max({1, m}) /\ (m >= 1 => last = m) /\ (m = 0 => last = 1)
    BY DEF Max
  <1>6. buildMetadata(Cardinality(list), Asked(1, limit, sortBy, sortOrder)).totalPages = last
    <2>1. Asked(1, limit, sortBy, sortOrder).take = limit
      BY <1>2, QueriesAsked
    <2>. QED
      BY <1>4, <1>5, <2>1 DEF buildMetadata
  <1>7. ASSUME last <= MaxLimit, NEW n \in 1 .. last,
               NEW K \in Pages(list, Asked(n, limit, sortBy, sortOrder))
        PROVE  PageAgrees(list, rank, limit, n, K)
    <2>1. n \in 1 .. MaxLimit /\ n \in Nat \ {0}
      BY <1>7 DEF MaxLimit
    <2>2. /\ Asked(n, limit, sortBy, sortOrder).skip = (n - 1) * limit
          /\ Asked(n, limit, sortBy, sortOrder).take = limit
          /\ Rank(list, Asked(n, limit, sortBy, sortOrder).orderBy) = rank
      BY <1>2, <1>3, <2>1, QueriesAsked
    <2>3. PICK s \in Nat : s = (n - 1) * limit
      <3>1. n - 1 \in Nat
        BY <2>1
      <3>2. (n - 1) * limit \in Nat
        BY <1>2, <3>1, ProductsAreNumbers
      <3>. QED
        BY <3>2
    <2>4. s <= N
      <3>1. CASE m = 0
        <4>1. n = 1
          BY <1>5, <3>1
        <4>2. s = 0
          BY <1>2, <2>3, <4>1
        <4>. QED
          BY <4>2
      <3>2. CASE m >= 1
        <4>1. n <= m
          BY <1>5, <3>2
        <4>2. limit * n <= limit * m
          BY <1>2, <4>1, ProductGrows
        <4>3. limit * n = s + limit
          BY <1>2, <2>1, <2>3
        <4>4. PICK u \in Int, v \in Int : u = limit * n /\ v = limit * m
          BY <1>2
        <4>5. u <= v /\ u = s + limit /\ v <= N + limit - 1
          BY <1>4, <4>2, <4>3, <4>4
        <4>. QED
          BY <1>2, <4>5
      <3>. QED
        BY <3>1, <3>2
    <2>5. PICK B \in SUBSET (list \ K) :
            MayLead(B, list, s, rank) /\ MayLead(K, list \ B, limit, rank)
      BY <2>2, <2>3 DEF Pages
    <2>6. K \in SUBSET list
      BY DEF Pages
    <2>7. Taken(list, B, K, s, limit, rank)
      BY <2>5, <2>6 DEF Taken
    <2>. QED
      BY <1>1, <1>2, <1>3, <1>4, <2>1, <2>3, <2>4, <2>7, PageHolds
  <1>. QED
    BY <1>3, <1>6, <1>7, Zenon DEF PagesShowOnce, PageAgrees, Asked

-----------------------------------------------------------------------------
(* Sums of a table, by its rows and by its columns. *)

LEMMA SumOfSums ==
  ASSUME NEW S, IsFiniteSet(S), NEW u \in [S -> Int], NEW v \in [S -> Int], NEW w \in [S -> Int],
         \A x \in S : IsTotal(w[x], u[x], v[x])
  PROVE  IsTotal(SumFunction(w), SumFunction(u), SumFunction(v))
  <1>1. PICK p, q, g : /\ Adds(p, w, 0, S) /\ SumFunction(w) = p[S]
                       /\ Adds(q, v, 0, S) /\ SumFunction(v) = q[S]
                       /\ Adds(g, u, 0, S) /\ SumFunction(u) = g[S]
    BY SumOfFunction
  <1>2. Differs(w, v, u, S)
    <2>1. ASSUME NEW x \in S
          PROVE  w[x] \in Int /\ v[x] \in Int /\ u[x] = w[x] - v[x]
      BY DEF IsTotal
    <2>. QED
      BY <2>1 DEF Differs
  <1>3. IsDifference(g, p, q, 0, S)
    BY <1>1, <1>2, DifferenceAdds
  <1>4. p[S] \in Int /\ q[S] \in Int /\ g[S] \in Int
    BY <1>1 DEF Adds
  <1>. QED
    BY <1>1, <1>3, <1>4 DEF IsDifference, IsTotal

Table(m, K, L) == \A k \in K : m[k] \in [L -> Int]

RowSum(m, k, L) == SumFunction([l \in L |-> m[k][l]])

ColumnSum(m, K, l) == SumFunction([k \in K |-> m[k][l]])

LEMMA SumsOfTable ==
  ASSUME NEW K, IsFiniteSet(K), NEW L, IsFiniteSet(L), NEW m, Table(m, K, L)
  PROVE  /\ \A k \in K : RowSum(m, k, L) \in Int
         /\ \A T \in SUBSET K, l \in L :
              /\ ColumnSum(m, T, l) \in Int
              /\ \A x \in T : IsTotal(ColumnSum(m, T, l), m[x][l], ColumnSum(m, T \ {x}, l))
  <1>1. ASSUME NEW k \in K
        PROVE  RowSum(m, k, L) \in Int
    <2>1. PICK u \in [L -> Int] : u = [l \in L |-> m[k][l]]
      BY DEF Table
    <2>2. SumFunction(u) \in Int
      BY SumStep
    <2>. QED
      BY <2>1, <2>2 DEF RowSum
  <1>2. ASSUME NEW T \in SUBSET K, NEW l \in L
        PROVE  /\ ColumnSum(m, T, l) \in Int
               /\ \A x \in T : IsTotal(ColumnSum(m, T, l), m[x][l], ColumnSum(m, T \ {x}, l))
    <2>1. PICK u \in [T -> Int] : u = [k \in T |-> m[k][l]]
      BY DEF Table
    <2>2. IsFiniteSet(T)
      BY FS_Subset
    <2>3. SumFunction(u) \in Int
      BY <2>2, SumStep
    <2>4. ASSUME NEW x \in T
          PROVE  IsTotal(ColumnSum(m, T, l), m[x][l], ColumnSum(m, T \ {x}, l))
      <3>1. SumFunction(u) = u[x] + SumFunction([y \in T \ {x} |-> u[y]])
        BY <2>2, SumStep
      <3>2. u[x] = m[x][l]
        BY <2>1
      <3>3. [y \in T \ {x} |-> u[y]] = [k \in T \ {x} |-> m[k][l]]
        BY <2>1
      <3>. QED
        BY <2>1, <3>1, <3>2, <3>3 DEF IsTotal, ColumnSum
    <2>. QED
      BY <2>1, <2>3, <2>4 DEF ColumnSum
  <1>. QED
    BY <1>1, <1>2

RowsAndColumns(m, T, L) ==
  SumFunction([k \in T |-> RowSum(m, k, L)]) = SumFunction([l \in L |-> ColumnSum(m, T, l)])

LEMMA SumByRowsAndColumns ==
  ASSUME NEW K, IsFiniteSet(K), NEW L, IsFiniteSet(L), NEW m, Table(m, K, L)
  PROVE  RowsAndColumns(m, K, L)
  <1>. DEFINE F == {T \in SUBSET K : RowsAndColumns(m, T, L)}
  <1>1. RowsAndColumns(m, {}, L)
    <2>1. PICK v : v = [l \in L |-> ColumnSum(m, {}, l)]
      OBVIOUS
    <2>2. \A l \in L : v[l] = 0
      <3>1. ASSUME NEW l \in L
            PROVE  ColumnSum(m, {}, l) = 0
        <4>1. [k \in {} |-> m[k][l]] = [x \in {} |-> 0]
          OBVIOUS
        <4>. QED
          BY <4>1, SumNone DEF ColumnSum
      <3>. QED
        BY <2>1, <3>1
    <2>3. v \in [L -> Int]
      BY <2>1, <2>2
    <2>4. PICK E \in SUBSET L : E = {}
      OBVIOUS
    <2>5. SumFunction(v) = SumFunction([x \in E |-> v[x]])
      BY <2>2, <2>3, SumWithoutZeros
    <2>6. [x \in {} |-> v[x]] = [x \in {} |-> 0] /\ [k \in {} |-> RowSum(m, k, L)] = [x \in {} |-> 0]
      OBVIOUS
    <2>. QED
      BY <2>1, <2>4, <2>5, <2>6 DEF RowsAndColumns
  <1>2. ASSUME NEW T \in SUBSET K, NEW x \in T, RowsAndColumns(m, T \ {x}, L)
        PROVE  RowsAndColumns(m, T, L)
    <2>1. PICK u, v, w, r, s :
            /\ u = [k \in T |-> RowSum(m, k, L)]
            /\ v = [l \in L |-> ColumnSum(m, T, l)]
            /\ w = [l \in L |-> ColumnSum(m, T \ {x}, l)]
            /\ r = [l \in L |-> m[x][l]]
            /\ s = [k \in T \ {x} |-> RowSum(m, k, L)]
      OBVIOUS
    <2>2. IsFiniteSet(T) /\ x \in K /\ T \ {x} \in SUBSET K
      BY FS_Subset
    <2>3. u \in [T -> Int] /\ v \in [L -> Int] /\ w \in [L -> Int]
      BY <2>1, <2>2, SumsOfTable
    <2>4. r \in [L -> Int]
      BY <2>1, <2>2 DEF Table
    <2>5. \A l \in L : IsTotal(v[l], r[l], w[l])
      BY <2>1, SumsOfTable
    <2>6. IsTotal(SumFunction(v), SumFunction(r), SumFunction(w))
      BY <2>3, <2>4, <2>5, SumOfSums
    <2>7. SumFunction(u) = u[x] + SumFunction([y \in T \ {x} |-> u[y]])
      BY <2>2, <2>3, SumStep
    <2>8. [y \in T \ {x} |-> u[y]] = s /\ u[x] = SumFunction(r)
      BY <2>1 DEF RowSum
    <2>9. SumFunction(s) = SumFunction(w)
      BY <1>2, <2>1 DEF RowsAndColumns
    <2>. QED
      BY <2>1, <2>6, <2>7, <2>8, <2>9 DEF RowsAndColumns, IsTotal
  <1>3. ASSUME NEW T \in SUBSET K, \A x \in T : T \ {x} \in F
        PROVE  T \in F
    <2>1. CASE T = {}
      BY <1>1, <2>1
    <2>2. ASSUME NEW x \in T
          PROVE  T \in F
      BY <1>2, <1>3
    <2>. QED
      BY <2>1, <2>2
  <1>. HIDE DEF F
  <1>4. K \in F
    BY <1>3, SubsetsByInduction
  <1>. QED
    BY <1>4 DEF F

-----------------------------------------------------------------------------
(* Inventory statements. *)

Found(scope) == getPaginatedStatements(scope, ThisMonth, StatementStatuses)

OpenVenues(scope) == {br \in Venues : venue[br] # "deleted" /\ scope \in {"all", br}}

Sheet(br) == statement[br][ThisMonth].lines

LinesOf(br, c) == {i \in DOMAIN Sheet(br) : GroupOf[i] = c}

GroupsFound(scope) == {GroupOf[i] : i \in UNION {DOMAIN Sheet(br) : br \in Found(scope)}}

LEMMA FoundStatements ==
  ASSUME FeedbackAssumption, OperationsAssumption, OperationsTyped, NEW scope
  PROVE  /\ Found(scope) \in SUBSET Venues /\ IsFiniteSet(Found(scope))
         /\ \A br \in Found(scope) : statement[br][ThisMonth].status \in StatementStatuses
         /\ \A br \in Found(scope) : IsFiniteSet(DOMAIN Sheet(br))
                                     /\ DOMAIN Sheet(br) \in SUBSET DOMAIN GroupOf
                                     /\ Sheet(br) \in [DOMAIN Sheet(br) -> Int]
  <1>1. Found(scope) \in SUBSET Venues
    BY DEF Found, getPaginatedStatements
  <1>2. ASSUME NEW br \in Found(scope)
        PROVE  /\ statement[br][ThisMonth].status \in StatementStatuses
               /\ IsFiniteSet(DOMAIN Sheet(br)) /\ DOMAIN Sheet(br) \in SUBSET DOMAIN GroupOf
               /\ Sheet(br) \in [DOMAIN Sheet(br) -> Int]
    <2>1. br \in Venues /\ statement[br][ThisMonth] # NULL /\ ThisMonth \in Months
      BY DEF Found, getPaginatedStatements, Months
    <2>2. IsStatement(statement[br][ThisMonth])
      BY <2>1 DEF OperationsTyped, AreStatements
    <2>3. PICK S \in SUBSET DOMAIN GroupOf :
            statement[br][ThisMonth] \in [status : StatementStatuses, lines : [S -> Nat]]
      BY <2>2 DEF IsStatement
    <2>4. Sheet(br) \in [S -> Nat] /\ statement[br][ThisMonth].status \in StatementStatuses
      BY <2>3 DEF Sheet
    <2>5. IsFiniteSet(S)
      BY FS_Subset DEF OperationsAssumption
    <2>. QED
      BY <2>4, <2>5
  <1>3. IsFiniteSet(Found(scope))
    BY <1>1, OperationsConstants, FS_Subset
  <1>. QED
    BY <1>1, <1>2, <1>3

LEMMA ReportOfMonth ==
  ASSUME NEW scope, NEW I, I = getInventoryReport(scope, ThisMonth)
  PROVE  /\ DOMAIN I.branches = OpenVenues(scope)
         /\ \A br \in OpenVenues(scope) : br \in Found(scope) =>
              /\ I.branches[br].status = statement[br][ThisMonth].status
              /\ I.branches[br].totals = SumFunction([i \in DOMAIN Sheet(br) |-> Sheet(br)[i]])
              /\ I.branches[br].lineCount = Cardinality(DOMAIN Sheet(br))
         /\ \A br \in OpenVenues(scope) : br \notin Found(scope) =>
              I.branches[br].status = "MISSING" /\ I.branches[br].totals = 0
  BY DEF getInventoryReport, Found, OpenVenues, Sheet, Totals

LEMMA SummaryOfMonth ==
  ASSUME NEW scope, NEW I, I = getInventoryReport(scope, ThisMonth)
  PROVE  /\ I.branchesWithStatement = Cardinality(Found(scope))
         /\ I.submitted =
              Cardinality(Found(scope) \ getPaginatedStatements(scope, ThisMonth, {"DRAFT"}))
         /\ I.locked = Cardinality(getPaginatedStatements(scope, ThisMonth, {"LOCKED"}))
         /\ I.missing = Cardinality(OpenVenues(scope)) - Cardinality(Found(scope))
  BY DEF getInventoryReport, Found, OpenVenues

LEMMA CategoriesOfMonth ==
  ASSUME NEW scope
  PROVE  getInventoryReport(scope, ThisMonth).categoryTotals =
           [c \in GroupsFound(scope) |->
              SumFunction([br \in Found(scope) |-> SumFunction([i \in LinesOf(br, c) |-> Sheet(br)[i]])])]
  BY DEF getInventoryReport, Found, Sheet, GroupsFound, LinesOf, Totals

LEMMA GroupsAreFew ==
  ASSUME FeedbackAssumption, OperationsAssumption, OperationsTyped, NEW scope
  PROVE  IsFiniteSet(GroupsFound(scope))
  <1>1. GroupsFound(scope) \in SUBSET Groups
    <2>1. ASSUME NEW br \in Found(scope), NEW i \in DOMAIN Sheet(br)
          PROVE  i \in DOMAIN GroupOf
      BY FoundStatements
    <2>. QED
      BY <2>1 DEF GroupsFound, Groups
  <1>2. IsFiniteSet(Groups)
    <2>1. PICK D : D = DOMAIN GroupOf /\ IsFiniteSet(D)
      BY DEF OperationsAssumption
    <2>2. PICK f : f = [i \in D |-> GroupOf[i]]
      OBVIOUS
    <2>3. f \in Surjection(D, Groups)
      BY <2>1, <2>2 DEF Surjection, Groups
    <2>. QED
      BY <2>1, <2>3, FS_Surjection
  <1>. QED
    BY <1>1, <1>2, FS_Subset

(* A statement by its categories. *)
LEMMA CategoriesAddUp ==
  ASSUME FeedbackAssumption, OperationsAssumption, OperationsTyped, NEW scope,
         NEW br \in Found(scope)
  PROVE  /\ SumFunction(Sheet(br)) \in Int
         /\ [c \in GroupsFound(scope) |-> SumFunction([i \in LinesOf(br, c) |-> Sheet(br)[i]])]
              \in [GroupsFound(scope) -> Int]
         /\ SumFunction([c \in GroupsFound(scope) |->
                           SumFunction([i \in LinesOf(br, c) |-> Sheet(br)[i]])])
              = SumFunction(Sheet(br))
  <1>1. PICK S, u : S = DOMAIN Sheet(br) /\ u = Sheet(br)
    OBVIOUS
  <1>2. IsFiniteSet(S) /\ u \in [S -> Int]
    BY <1>1, FoundStatements
  <1>3. IsFiniteSet(GroupsFound(scope))
    BY GroupsAreFew
  <1>4. PICK K, P, n : /\ K = GroupsFound(scope)
                       /\ P = [c \in K |-> LinesOf(br, c)]
                       /\ n = [c \in K |-> SumFunction([i \in LinesOf(br, c) |-> Sheet(br)[i]])]
    OBVIOUS
  <1>5. Parts(P, K, S)
    <2>1. \A i \in S : GroupOf[i] \in K
      BY <1>1, <1>4 DEF GroupsFound
    <2>2. \A c \in K : P[c] = {i \in S : GroupOf[i] = c}
      BY <1>1, <1>4 DEF LinesOf
    <2>. QED
      BY <2>1, <2>2 DEF Parts
  <1>6. \A c \in K : n[c] = SumFunction([i \in P[c] |-> u[i]])
    BY <1>1, <1>4
  <1>7. n \in [K -> Int]
    <2>1. ASSUME NEW c \in K
          PROVE  n[c] \in Int
      <3>1. PICK T, v : T = P[c] /\ v = [i \in T |-> u[i]]
        OBVIOUS
      <3>2. T \in SUBSET S
        BY <1>5, <3>1 DEF Parts
      <3>3. IsFiniteSet(T) /\ v \in [T -> Int]
        BY <1>2, <3>1, <3>2, FS_Subset
      <3>4. SumFunction(v) \in Int
        BY <3>3, SumStep
      <3>. QED
        BY <1>6, <3>1, <3>4
    <2>. QED
      BY <1>4, <2>1
  <1>8. SumFunction(n) = SumFunction(u)
    <2>1. IsFiniteSet(K)
      BY <1>3, <1>4
    <2>. QED
      BY <1>2, <1>5, <1>6, <1>7, <2>1, SumOfParts
  <1>9. SumFunction(u) \in Int
    BY <1>2, SumStep
  <1>. QED
    <2>1. SumFunction(Sheet(br)) \in Int
      BY <1>1, <1>9
    <2>2. n = [c \in GroupsFound(scope) |-> SumFunction([i \in LinesOf(br, c) |-> Sheet(br)[i]])]
      BY <1>4
    <2>3. n \in [GroupsFound(scope) -> Int]
      BY <1>4, <1>7
    <2>4. SumFunction(n) = SumFunction(Sheet(br))
      BY <1>1, <1>8
    <2>. QED
      BY <2>1, <2>2, <2>3, <2>4, Zenon

(* All categories hold all lines. *)
LEMMA CategoriesHoldAll ==
  ASSUME FeedbackAssumption, OperationsAssumption, OperationsTyped, NEW scope
  PROVE  SumFunction(getInventoryReport(scope, ThisMonth).categoryTotals) =
           SumFunction([br \in Found(scope) |-> SumFunction(Sheet(br))])
  <1>1. PICK K, L, m :
          /\ K = GroupsFound(scope) /\ L = Found(scope)
          /\ m = [c \in K |-> [br \in L |-> SumFunction([i \in LinesOf(br, c) |-> Sheet(br)[i]])]]
    OBVIOUS
  <1>2. \A br \in L : /\ [c \in K |-> m[c][br]] \in [K -> Int]
                      /\ ColumnSum(m, K, br) = SumFunction(Sheet(br))
    <2>1. ASSUME NEW br \in L
          PROVE  /\ [c \in K |-> m[c][br]] \in [K -> Int]
                 /\ ColumnSum(m, K, br) = SumFunction(Sheet(br))
      <3>1. [c \in K |-> m[c][br]] =
              [c \in GroupsFound(scope) |-> SumFunction([i \in LinesOf(br, c) |-> Sheet(br)[i]])]
        BY <1>1
      <3>. QED
        BY <1>1, <3>1, CategoriesAddUp DEF ColumnSum
    <2>. QED
      BY <2>1
  <1>3. Table(m, K, L)
    <2>1. ASSUME NEW c \in K, NEW br \in L
          PROVE  m[c][br] \in Int
      BY <1>2
    <2>2. \A c \in K : DOMAIN m[c] = L /\ m[c] = [br \in L |-> m[c][br]]
      BY <1>1
    <2>. QED
      BY <2>1, <2>2 DEF Table
  <1>4. IsFiniteSet(K) /\ IsFiniteSet(L)
    BY <1>1, FoundStatements, GroupsAreFew
  <1>5. RowsAndColumns(m, K, L)
    BY <1>3, <1>4, SumByRowsAndColumns
  <1>6. [c \in K |-> RowSum(m, c, L)] = getInventoryReport(scope, ThisMonth).categoryTotals
    <2>1. ASSUME NEW c \in K
          PROVE  RowSum(m, c, L) =
                   SumFunction([br \in Found(scope) |-> SumFunction([i \in LinesOf(br, c) |-> Sheet(br)[i]])])
      <3>1. [br \in L |-> m[c][br]] =
              [br \in Found(scope) |-> SumFunction([i \in LinesOf(br, c) |-> Sheet(br)[i]])]
        BY <1>1
      <3>. QED
        BY <3>1 DEF RowSum
    <2>2. [c \in K |-> RowSum(m, c, L)] =
            [c \in GroupsFound(scope) |->
               SumFunction([br \in Found(scope) |-> SumFunction([i \in LinesOf(br, c) |-> Sheet(br)[i]])])]
      BY <1>1, <2>1, Zenon
    <2>. QED
      BY <2>2, CategoriesOfMonth, Zenon
  <1>7. [br \in L |-> ColumnSum(m, K, br)] = [br \in Found(scope) |-> SumFunction(Sheet(br))]
    BY <1>1, <1>2
  <1>. QED
    BY <1>5, <1>6, <1>7 DEF RowsAndColumns

LEMMA LineCountOfMonth ==
  ASSUME NEW scope, NEW I, I = getInventoryReport(scope, ThisMonth),
         NEW br \in OpenVenues(scope), br \in Found(scope)
  PROVE  I.branches[br].lineCount = Cardinality(DOMAIN Sheet(br))
  BY DEF getInventoryReport, Found, OpenVenues, Sheet, Totals

SumsWithin(u, T) == SumFunction(u) = SumFunction([x \in T |-> u[x]])

LEMMA SumWithoutZerosOutside ==
  ASSUME NEW S, IsFiniteSet(S), NEW T, T \subseteq S, NEW u, u \in [S -> Int],
         \A x \in S : x \notin T => u[x] = 0
  PROVE  SumsWithin(u, T)
  <1>1. T \in SUBSET S
    OBVIOUS
  <1>2. \A x \in S \ T : u[x] = 0
    OBVIOUS
  <1>. QED
    BY <1>1, <1>2, SumWithoutZeros DEF SumsWithin

(* The rows and the statements of a month. *)
LEMMA StatusesOfMonth ==
  ASSUME FeedbackAssumption, OperationsAssumption, OperationsTyped, NEW scope, NEW I,
         I = getInventoryReport(scope, ThisMonth), NEW W,
         W = getOperationalWidgets(scope).inventoryThisMonth
  PROVE  W.submitted + I.locked = I.submitted /\ W.draft + I.submitted = I.branchesWithStatement
  <1>1. PICK S, A, B, C :
          /\ S = Found(scope)
          /\ A = getPaginatedStatements(scope, ThisMonth, {"SUBMITTED"})
          /\ B = getPaginatedStatements(scope, ThisMonth, {"LOCKED"})
          /\ C = getPaginatedStatements(scope, ThisMonth, {"DRAFT"})
    OBVIOUS
  <1>2. /\ A = {br \in S : statement[br][ThisMonth].status = "SUBMITTED"}
        /\ B = {br \in S : statement[br][ThisMonth].status = "LOCKED"}
        /\ C = {br \in S : statement[br][ThisMonth].status = "DRAFT"}
    BY <1>1 DEF Found, getPaginatedStatements, StatementStatuses
  <1>3. \A br \in S : statement[br][ThisMonth].status \in {"DRAFT", "SUBMITTED", "LOCKED"}
    BY <1>1, FoundStatements DEF StatementStatuses
  <1>4. IsFiniteSet(A) /\ IsFiniteSet(B) /\ IsFiniteSet(C) /\ IsFiniteSet(S \ C)
    <2>1. IsFiniteSet(S)
      BY <1>1, FoundStatements
    <2>. QED
      BY <1>2, <2>1, FS_Subset
  <1>5. A \cap B = {} /\ A \cup B = S \ C /\ C \cap (S \ C) = {} /\ C \cup (S \ C) = S
    BY <1>2, <1>3
  <1>6. IsTotal(Cardinality(S \ C), Cardinality(A), Cardinality(B))
    BY <1>4, <1>5, CountOfTwo
  <1>7. IsTotal(Cardinality(S), Cardinality(C), Cardinality(S \ C))
    <2>1. PICK D : D = S \ C
      OBVIOUS
    <2>. QED
      BY <1>4, <1>5, <2>1, CountOfTwo
  <1>8. W.submitted = Cardinality(A) /\ W.draft = Cardinality(C)
    BY <1>1 DEF getOperationalWidgets
  <1>9. /\ I.locked = Cardinality(B) /\ I.submitted = Cardinality(S \ C)
        /\ I.branchesWithStatement = Cardinality(S)
    BY <1>1, SummaryOfMonth
  <1>. QED
    BY <1>6, <1>7, <1>8, <1>9 DEF IsTotal

MissingAddsUp(I, closed) ==
  I.missing + Cardinality(closed)
    = Cardinality({br \in DOMAIN I.branches : I.branches[br].status = "MISSING"})

LEMMA MissingOfMonth ==
  ASSUME FeedbackAssumption, OperationsAssumption, OperationsTyped, NEW scope, NEW I,
         I = getInventoryReport(scope, ThisMonth), NEW closed,
         closed = {br \in Found(scope) : venue[br] = "deleted"}
  PROVE  MissingAddsUp(I, closed)
  <1>1. PICK S, T, A, B :
          /\ S = Found(scope) /\ T = OpenVenues(scope)
          /\ A = S \cap T /\ B = T \ S
    OBVIOUS
  <1>2. {br \in DOMAIN I.branches : I.branches[br].status = "MISSING"} = B
    <2>1. \A br \in T : I.branches[br].status = "MISSING" <=> br \notin S
      BY <1>1, ReportOfMonth, FoundStatements DEF StatementStatuses
    <2>2. DOMAIN I.branches = T
      BY <1>1, ReportOfMonth
    <2>. QED
      BY <1>1, <2>1, <2>2
  <1>3. /\ A \cup B = T /\ A \cap B = {}
        /\ A \cup closed = S /\ A \cap closed = {}
    BY <1>1 DEF Found, getPaginatedStatements, OpenVenues
  <1>4. IsFiniteSet(A) /\ IsFiniteSet(B) /\ IsFiniteSet(closed)
    <2>1. IsFiniteSet(S) /\ IsFiniteSet(T)
      BY <1>1, FoundStatements, OperationsConstants, FS_Subset DEF OpenVenues
    <2>. QED
      BY <1>1, <2>1, FS_Subset
  <1>5. /\ IsTotal(Cardinality(T), Cardinality(A), Cardinality(B))
        /\ Cardinality(A) \in Nat /\ Cardinality(B) \in Nat
    BY <1>3, <1>4, CountOfTwo
  <1>6. /\ IsTotal(Cardinality(S), Cardinality(A), Cardinality(closed))
        /\ Cardinality(closed) \in Nat
    BY <1>3, <1>4, CountOfTwo
  <1>7. I.missing = Cardinality(T) - Cardinality(S)
    BY <1>1, SummaryOfMonth
  <1>8. PICK a \in Nat, b \in Nat, c \in Nat :
          a = Cardinality(A) /\ b = Cardinality(B) /\ c = Cardinality(closed)
    BY <1>5, <1>6
  <1>9. Cardinality(T) = a + b /\ Cardinality(S) = a + c
    BY <1>5, <1>6, <1>8 DEF IsTotal
  <1>10. I.missing + c = b
    BY <1>7, <1>8, <1>9
  <1>. QED
    BY <1>2, <1>8, <1>10 DEF MissingAddsUp

LEMMA BranchesHoldAll ==
  ASSUME FeedbackAssumption, OperationsAssumption, OperationsTyped, NEW scope, NEW I,
         I = getInventoryReport(scope, ThisMonth), NEW closed,
         closed = {br \in Found(scope) : venue[br] = "deleted"}
  PROVE  IsTotal(SumFunction([br \in Found(scope) |-> SumFunction(Sheet(br))]),
                 SumFunction([br \in DOMAIN I.branches |-> I.branches[br].totals]),
                 SumFunction([br \in closed |-> SumFunction(Sheet(br))]))
  <1>1. PICK S, T, A, u, v :
          /\ S = Found(scope) /\ T = OpenVenues(scope) /\ A = S \cap T
          /\ u = [br \in S |-> SumFunction(Sheet(br))]
          /\ v = [br \in T |-> I.branches[br].totals]
    OBVIOUS
  <1>2. u \in [S -> Int] /\ IsFiniteSet(S)
    BY <1>1, CategoriesAddUp, FoundStatements
  <1>3. PICK g : SubsetSums(g, u, S)
    BY <1>2, SumsOfSubsets
  <1>4. A \in SUBSET S /\ closed \in SUBSET S /\ A \cap closed = {} /\ A \cup closed = S
    BY <1>1 DEF Found, getPaginatedStatements, OpenVenues
  <1>5. IsTotal(g[A \cup closed], g[A], g[closed])
    BY <1>2, <1>3, <1>4, AddsUnion, Zenon
  <1>6. /\ SumFunction(u) = g[S]
        /\ SumFunction([br \in A |-> u[br]]) = g[A]
        /\ SumFunction([br \in closed |-> u[br]]) = g[closed]
    BY <1>3, <1>4 DEF SubsetSums
  <1>7. SumFunction(v) = SumFunction([br \in A |-> u[br]])
    <2>1. \A br \in A : v[br] = u[br]
      <3>1. ASSUME NEW br \in A
            PROVE  v[br] = u[br]
        <4>1. br \in OpenVenues(scope) /\ br \in Found(scope)
          BY <1>1
        <4>2. v[br] = SumFunction([i \in DOMAIN Sheet(br) |-> Sheet(br)[i]])
          BY <1>1, <4>1, ReportOfMonth
        <4>3. [i \in DOMAIN Sheet(br) |-> Sheet(br)[i]] = Sheet(br)
          BY <4>1, FoundStatements
        <4>. QED
          BY <1>1, <4>1, <4>2, <4>3
      <3>. QED
        BY <3>1
    <2>2. \A br \in T \ A : v[br] = 0
      BY <1>1, ReportOfMonth
    <2>3. v \in [T -> Int] /\ A \in SUBSET T /\ IsFiniteSet(T)
      <3>1. \A br \in T : v[br] \in Int
        BY <1>2, <1>4, <2>1, <2>2
      <3>. QED
        BY <1>1, <3>1, OperationsConstants, FS_Subset DEF OpenVenues
    <2>4. SumFunction(v) = SumFunction([br \in A |-> v[br]])
      <3>1. v \in [T -> Int] /\ IsFiniteSet(T) /\ A \subseteq T
        BY <2>3
      <3>2. \A x \in T : x \notin A => v[x] = 0
        BY <2>2
      <3>3. SumsWithin(v, A)
        BY <3>1, <3>2, SumWithoutZerosOutside
      <3>. QED
        BY <3>3 DEF SumsWithin
    <2>5. [br \in A |-> v[br]] = [br \in A |-> u[br]]
      BY <2>1
    <2>. QED
      BY <2>4, <2>5
  <1>8. [br \in closed |-> u[br]] = [br \in closed |-> SumFunction(Sheet(br))]
    BY <1>1, <1>4
  <1>9. [br \in DOMAIN I.branches |-> I.branches[br].totals] = v
    BY <1>1, ReportOfMonth
  <1>. QED
    BY <1>1, <1>4, <1>5, <1>6, <1>7, <1>8, <1>9

(* The sheets are of statements that are found; which, if a limit cuts     *)
(* them off, is left open.                                                 *)
LEMMA SheetsOfMonth ==
  ASSUME FeedbackAssumption, OperationsAssumption, OperationsTyped, NEW scope, NEW sheets,
         sheets = exportInventoryExcel(scope, ThisMonth)
  PROVE  /\ DOMAIN sheets \in SUBSET Found(scope)
         /\ sheets = [br \in DOMAIN sheets |-> Sheet(br)]
         /\ Cardinality(Found(scope)) <= ExportLimit => DOMAIN sheets = Found(scope)
  <1>1. PICK S, day : S = Found(scope) /\ day = [b \in S |-> 0]
    OBVIOUS
  <1>2. sheets = [br \in LatestBy(S, day) |-> Sheet(br)]
    BY <1>1 DEF exportInventoryExcel, Found, Sheet
  <1>3. IsFiniteSet(S) /\ day \in [S -> 0 .. MaxTime]
    BY <1>1, FoundStatements, OperationsConstants
  <1>4. LatestBy(S, day) \in SUBSET S
    BY <1>3, LatestOfSome
  <1>5. Cardinality(S) <= ExportLimit => LatestBy(S, day) = S
    BY <1>3, LatestOfFew
  <1>. QED
    BY <1>1, <1>2, <1>4, <1>5

LEMMA OneOpeningIsEditable ==
  ASSUME FeedbackAssumption, OperationsAssumption, OperationsTyped, NEW br \in Venues,
         statement[br][ThisMonth] # NULL
  PROVE  Cardinality({m \in Months : /\ statement[br][m] # NULL
                                     /\ getStatementById(br, m).openingStockEditable}) = 1
  <1>1. PICK M \in Nat : M = ThisMonth
    BY OperationsConstants
  <1>2. \A m : getStatementById(br, m).openingStockEditable <=>
                 \A n \in Months : n < m => statement[br][n] = NULL
    BY DEF getStatementById
  <1>3. PICK T : T = {m \in Months : /\ statement[br][m] # NULL
                                     /\ getStatementById(br, m).openingStockEditable}
    OBVIOUS
  <1>4. Months = {M - 1, M} /\ statement[br][M] # NULL
    BY <1>1 DEF Months
  <1>5. CASE statement[br][M - 1] = NULL
    <2>1. T = {M}
      BY <1>2, <1>3, <1>4, <1>5
    <2>. QED
      BY <1>3, <2>1, FS_Singleton
  <1>6. CASE statement[br][M - 1] # NULL
    <2>1. T = {M - 1}
      BY <1>1, <1>2, <1>3, <1>4, <1>6
    <2>. QED
      BY <1>3, <2>1, FS_Singleton
  <1>. QED
    BY <1>5, <1>6

LEMMA InventoryHolds ==
  ASSUME FeedbackAssumption, OperationsAssumption, OperationsTyped, NEW scope
  PROVE  InventoryAgrees(scope)
  <1>1. PICK W, I, sheets, closed :
          /\ W = getOperationalWidgets(scope).inventoryThisMonth
          /\ I = getInventoryReport(scope, ThisMonth)
          /\ sheets = exportInventoryExcel(scope, ThisMonth)
          /\ closed = {br \in Found(scope) : venue[br] = "deleted"}
    OBVIOUS
  <1>2. W.submitted + I.locked = I.submitted /\ W.draft + I.submitted = I.branchesWithStatement
    BY <1>1, StatusesOfMonth
  <1>3. MissingAddsUp(I, closed)
    BY <1>1, MissingOfMonth
  <1>4. \A br : SumFunction(getStatementById(br, ThisMonth).lines) = SumFunction(Sheet(br))
    BY DEF getStatementById, Sheet
  <1>5. SumFunction(I.categoryTotals) = SumFunction([br \in Found(scope) |-> SumFunction(Sheet(br))])
    BY <1>1, CategoriesHoldAll
  <1>6. SumFunction(I.categoryTotals)
          = SumFunction([br \in DOMAIN I.branches |-> I.branches[br].totals])
            + SumFunction([br \in closed |-> SumFunction(getStatementById(br, ThisMonth).lines)])
    <2>1. IsTotal(SumFunction(I.categoryTotals),
                  SumFunction([br \in DOMAIN I.branches |-> I.branches[br].totals]),
                  SumFunction([br \in closed |-> SumFunction(Sheet(br))]))
      BY <1>1, <1>5, BranchesHoldAll
    <2>2. [br \in closed |-> SumFunction(getStatementById(br, ThisMonth).lines)] =
            [br \in closed |-> SumFunction(Sheet(br))]
      BY <1>4
    <2>. QED
      BY <2>1, <2>2 DEF IsTotal
  <1>7. /\ DOMAIN sheets \in SUBSET Found(scope)
        /\ sheets = [br \in DOMAIN sheets |-> Sheet(br)]
        /\ Cardinality(Found(scope)) <= ExportLimit => DOMAIN sheets = Found(scope)
    BY <1>1, SheetsOfMonth
  <1>8. ASSUME I.branchesWithStatement <= ExportLimit
        PROVE  SumFunction(I.categoryTotals) =
                 SumFunction([br \in DOMAIN sheets |-> SumFunction(sheets[br])])
    <2>1. DOMAIN sheets = Found(scope)
      <3>1. I.branchesWithStatement = Cardinality(Found(scope))
        BY <1>1, SummaryOfMonth
      <3>. QED
        BY <1>7, <1>8, <3>1
    <2>2. [br \in DOMAIN sheets |-> SumFunction(sheets[br])] =
            [br \in Found(scope) |-> SumFunction(Sheet(br))]
      BY <1>7, <2>1
    <2>. QED
      BY <1>5, <2>2
  <1>9. ASSUME NEW br \in DOMAIN sheets
        PROVE  /\ Cardinality({m \in Months : /\ statement[br][m] # NULL
                                              /\ getStatementById(br, m).openingStockEditable}) = 1
               /\ br \notin closed => I.branches[br].lineCount = Cardinality(DOMAIN sheets[br])
    <2>1. br \in Found(scope) /\ sheets[br] = Sheet(br)
      BY <1>7
    <2>2. br \in Venues /\ statement[br][ThisMonth] # NULL /\ scope \in {"all", br}
      BY <2>1 DEF Found, getPaginatedStatements
    <2>3. ASSUME br \notin closed
          PROVE  I.branches[br].lineCount = Cardinality(DOMAIN sheets[br])
      <3>1. br \in OpenVenues(scope)
        BY <1>1, <2>1, <2>2, <2>3 DEF OpenVenues
      <3>2. I.branches[br].lineCount = Cardinality(DOMAIN Sheet(br))
        <4>1. PICK J : J = getInventoryReport(scope, ThisMonth)
          OBVIOUS
        <4>2. J.branches[br].lineCount = Cardinality(DOMAIN Sheet(br))
          BY <2>1, <3>1, <4>1, LineCountOfMonth
        <4>. QED
          BY <1>1, <4>1, <4>2
      <3>. QED
        BY <2>1, <3>2
    <2>. QED
      BY <2>2, <2>3, OneOpeningIsEditable
  <1>10. closed = {br \in getPaginatedStatements(scope, ThisMonth, StatementStatuses) :
                    venue[br] = "deleted"}
    BY <1>1 DEF Found
  <1>. QED
    BY <1>1, <1>2, <1>3, <1>6, <1>8, <1>9, <1>10, Zenon DEF InventoryAgrees, MissingAddsUp

(* The lists, widgets, reports and sheets of the operations agree in every *)
(* reachable state, for all tables, every limit and every size of a page,  *)
(* in whatever order each query gives the rows that tie on the column it   *)
(* sorts by: guest-offer.service.ts, manager-report.service.ts,            *)
(* inventory.service.ts, dashboard.service.ts and reports.service.ts.      *)
THEOREM OperationsFiguresAgree ==
  ASSUME FeedbackAssumption, OperationsAssumption
  PROVE  OperationsSpec => []OperationsAgree
  <1>1. OperationsSpec => []OperationsTyped
    BY OperationsTypeCorrect
  <1>2. OperationsTyped => OperationsAgree
    <2>1. SUFFICES ASSUME OperationsTyped
                   PROVE  OperationsAgree
      OBVIOUS
    <2>2. getCategories(FALSE) \subseteq getCategories(TRUE)
      BY DEF getCategories
    <2>3. ASSUME NEW scope, NEW limit \in PageSizes,
                 NEW sortBy \in SortColumns, NEW sortOrder
          PROVE  /\ PagesShowOnce(getPaginatedDiscountLogs(scope, "PENDING", 0, MaxTime),
                                  limit, sortBy, sortOrder)
                 /\ PagesShowOnce(getPaginatedEntertainmentLogs(scope, "PENDING", 0, MaxTime),
                                  limit, sortBy, sortOrder)
      <3>1. PICK A, B : /\ A = getPaginatedDiscountLogs(scope, "PENDING", 0, MaxTime)
                        /\ B = getPaginatedEntertainmentLogs(scope, "PENDING", 0, MaxTime)
        OBVIOUS
      <3>2. A \in SUBSET Logged /\ B \in SUBSET Logged
        BY <2>1, <3>1, LogsAreLogged
           DEF getPaginatedDiscountLogs, getPaginatedEntertainmentLogs, WithStatus
      <3>3. PagesShowOnce(A, limit, sortBy, sortOrder)
        BY <3>2, PagesOfList
      <3>4. PagesShowOnce(B, limit, sortBy, sortOrder)
        BY <3>2, PagesOfList
      <3>. QED
        BY <3>1, <3>3, <3>4
    <2>4. ASSUME NEW scope
          PROVE  LogsAgree(scope) /\ ReportsAgree(scope) /\ InventoryAgrees(scope)
      BY <2>1, LogsHold, ReportsHold, InventoryHolds
    <2>5. \A scope \in {"all"} \cup Venues :
            /\ LogsAgree(scope) /\ ReportsAgree(scope) /\ InventoryAgrees(scope)
            /\ \A limit \in PageSizes, sortBy \in {"logDate", "amount"},
                  sortOrder \in {"asc", "desc"} :
                 /\ PagesShowOnce(getPaginatedDiscountLogs(scope, "PENDING", 0, MaxTime),
                                  limit, sortBy, sortOrder)
                 /\ PagesShowOnce(getPaginatedEntertainmentLogs(scope, "PENDING", 0, MaxTime),
                                  limit, sortBy, sortOrder)
      <3>. TAKE scope \in {"all"} \cup Venues
      <3>1. SUFFICES ASSUME NEW limit \in PageSizes, NEW sortBy \in {"logDate", "amount"},
                            NEW sortOrder
                     PROVE  /\ PagesShowOnce(getPaginatedDiscountLogs(scope, "PENDING", 0, MaxTime),
                                             limit, sortBy, sortOrder)
                            /\ PagesShowOnce(getPaginatedEntertainmentLogs(scope, "PENDING", 0, MaxTime),
                                             limit, sortBy, sortOrder)
        BY <2>4
      <3>2. sortBy \in SortColumns
        BY DEF SortColumns
      <3>. QED
        BY <2>3, <3>2
    <2>. QED
      BY <2>2, <2>5 DEF OperationsAgree
  <1>. QED
    BY <1>1, <1>2, PTL

-----------------------------------------------------------------------------
(* Figures of the feedback: what was given. *)

(* What there is of feedback is finite, typed, and asked for. *)

LEMMA FeedbackConstants ==
  ASSUME FeedbackAssumption
  PROVE  /\ DayLength \in Nat \ {0} /\ MonthLength \in Nat \ {0} /\ ExportLimit \in Nat
         /\ IsFiniteSet(Venues) /\ "all" \notin Venues
         /\ NULL \notin 1..5 /\ NULL \notin Venues
  BY DEF FeedbackAssumption

LEMMA FeedbackIsTyped ==
  ASSUME Typed
  PROVE  /\ DOMAIN feedback = 1 .. Len(feedback) /\ Len(feedback) \in Nat
         /\ IsFiniteSet(DOMAIN feedback)
         /\ \A i \in DOMAIN feedback :
              /\ feedback[i].submittedAt \in Nat /\ feedback[i].submittedAt <= now
              /\ feedback[i].branchId \in Venues
              /\ feedback[i].overallRating \in 1..5 \cup {NULL}
  <1>1. feedback \in Seq(FeedbackRows)
    BY DEF Typed
  <1>2. DOMAIN feedback = 1 .. Len(feedback) /\ Len(feedback) \in Nat
    BY <1>1
  <1>3. IsFiniteSet(DOMAIN feedback)
    BY <1>2, FS_Interval
  <1>4. ASSUME NEW i \in DOMAIN feedback
        PROVE  /\ feedback[i].submittedAt \in Nat
               /\ feedback[i].branchId \in Venues
               /\ feedback[i].overallRating \in 1..5 \cup {NULL}
    <2>1. feedback[i] \in FeedbackRows
      BY <1>1, <1>2
    <2>. QED
      BY <2>1 DEF FeedbackRows
  <1>. QED
    BY <1>2, <1>3, <1>4 DEF Typed

(* The day of an instant. *)
LEMMA DayOfInstant ==
  ASSUME FeedbackAssumption, NEW t \in Nat
  PROVE  /\ t \div DayLength \in Nat
         /\ DayLength * (t \div DayLength) <= t
         /\ t < DayLength * (t \div DayLength) + DayLength
  BY FeedbackConstants, QuotientBounds

LEMMA TodayIsNow ==
  ASSUME FeedbackAssumption, Typed
  PROVE  /\ Today \in Nat /\ now \in Nat
         /\ DayLength * Today <= now /\ now < DayLength * Today + DayLength
  <1>1. now \in Nat
    BY DEF Typed
  <1>. QED
    BY <1>1, DayOfInstant DEF Today

LEMMA AllIsGiven ==
  ASSUME FeedbackAssumption, Typed
  PROVE  Given = DOMAIN feedback
  <1>1. PICK D \in Nat, d \in Nat, n \in Nat :
          D = DayLength /\ d = Today /\ n = now /\ n < D * d + D
    BY TodayIsNow, FeedbackConstants
  <1>2. 0 * D = 0 /\ (d + 1) * D = D * d + D
    BY <1>1
  <1>3. ASSUME NEW i \in DOMAIN feedback
        PROVE  feedback[i].submittedAt \in 0 * D .. (d + 1) * D - 1
    <2>1. PICK t \in Nat : t = feedback[i].submittedAt /\ t <= n
      BY <1>1, FeedbackIsTyped
    <2>2. PICK p \in Int : p = D * d
      BY <1>1
    <2>3. t <= p + D - 1
      BY <1>1, <2>1, <2>2
    <2>. QED
      BY <1>1, <1>2, <2>1, <2>2, <2>3
  <1>. QED
    BY <1>1, <1>3 DEF Given, buildFeedbackWhere, Between

-----------------------------------------------------------------------------
(* Figures of the feedback: ratings. *)

Rating(S, k) == Rated(S, {k})

LEMMA CountOfRated ==
  ASSUME NEW S, IsFiniteSet(S), NEW A, NEW B, A \cap B = {}
  PROVE  /\ Cardinality(Rated(S, A)) \in Nat /\ Cardinality(Rated(S, B)) \in Nat
         /\ IsTotal(Cardinality(Rated(S, A \cup B)), Cardinality(Rated(S, A)), Cardinality(Rated(S, B)))
  <1>1. PICK P, Q : P = Rated(S, A) /\ Q = Rated(S, B)
    OBVIOUS
  <1>2. P \in SUBSET S /\ Q \in SUBSET S /\ P \cap Q = {} /\ P \cup Q = Rated(S, A \cup B)
    BY <1>1 DEF Rated
  <1>3. IsFiniteSet(P) /\ IsFiniteSet(Q)
    BY <1>2, FS_Subset
  <1>. QED
    BY <1>1, <1>2, <1>3, CountOfTwo

LEMMA DistributionAddsUp ==
  ASSUME FeedbackAssumption, Typed
  PROVE  Cardinality(Given) = SumFunction(getRatingStats(Given).distribution)
  <1>1. PICK S, K, P, n :
          /\ S = DOMAIN feedback /\ K = 1..5 \cup {NULL}
          /\ P = [k \in K |-> Rated(S, {k})]
          /\ n = getRatingStats(Given).distribution
    OBVIOUS
  <1>2. IsFiniteSet(S) /\ Given = S
    BY <1>1, FeedbackIsTyped, AllIsGiven
  <1>3. IsFiniteSet(K)
    <2>1. PICK A, B : A = 1..5 /\ B = {NULL}
      OBVIOUS
    <2>2. IsFiniteSet(A)
      <3>1. PICK a \in Int, b \in Int : a = 1 /\ b = 5
        OBVIOUS
      <3>2. IsFiniteSet(a .. b)
        BY FS_Interval
      <3>. QED
        BY <2>1, <3>1, <3>2
    <2>3. IsFiniteSet(B)
      BY <2>1, FS_Singleton
    <2>4. IsFiniteSet(A \cup B)
      BY <2>2, <2>3, FS_Union
    <2>. QED
      BY <1>1, <2>1, <2>4
  <1>4. Parts(P, K, S)
    <2>1. \A k \in K : P[k] \in SUBSET S
      BY <1>1 DEF Rated
    <2>2. \A x \in S : \E k \in K : x \in P[k]
      <3>1. ASSUME NEW x \in S
            PROVE  \E k \in K : x \in P[k]
        <4>1. feedback[x].overallRating \in K
          BY <1>1, FeedbackIsTyped
        <4>. QED
          BY <1>1, <4>1 DEF Rated
      <3>. QED
        BY <3>1
    <2>3. \A j, k \in K : j # k => P[j] \cap P[k] = {}
      BY <1>1 DEF Rated
    <2>. QED
      BY <2>1, <2>2, <2>3 DEF Parts
  <1>5. n = [k \in K |-> Cardinality(Rated(S, {k}))]
    BY <1>1, <1>2 DEF getRatingStats
  <1>6. DOMAIN n = K /\ n = [k \in K |-> n[k]] /\ \A k \in K : n[k] = Cardinality(P[k])
    BY <1>1, <1>5
  <1>7. SumFunction(n) = Cardinality(S)
    BY <1>2, <1>3, <1>4, <1>6, CountOfParts
  <1>. QED
    BY <1>1, <1>2, <1>7

LEMMA SentimentsAddUp ==
  ASSUME FeedbackAssumption, Typed, NEW c, NEW d, c = [k \in 1..5 \cup {NULL} |-> Cardinality(Rated(DOMAIN feedback, {k}))]
  PROVE  /\ Cardinality(Rated(DOMAIN feedback, 1..2)) = c[1] + c[2]
         /\ IsTotal(Cardinality(DOMAIN feedback), c[NULL], c[1] + c[2] + c[3] + c[4] + c[5])
  <1>1. PICK S : S = DOMAIN feedback /\ IsFiniteSet(S)
    BY FeedbackIsTyped
  <1>2. NULL \notin 1..5
    BY FeedbackConstants
  <1>3. PICK n1 \in Nat, n2 \in Nat, n3 \in Nat, n4 \in Nat, n5 \in Nat, n0 \in Nat :
          /\ n1 = c[1] /\ n2 = c[2] /\ n3 = c[3] /\ n4 = c[4] /\ n5 = c[5] /\ n0 = c[NULL]
    <2>1. \A k \in 1..5 \cup {NULL} : c[k] = Cardinality(Rated(S, {k}))
      BY <1>1
    <2>2. \A k \in 1..5 \cup {NULL} : c[k] \in Nat
      <3>1. ASSUME NEW k \in 1..5 \cup {NULL}
            PROVE  Cardinality(Rated(S, {k})) \in Nat
        <4>1. {k} \cap {} = {}
          OBVIOUS
        <4>. QED
          BY <1>1, <4>1, CountOfRated
      <3>. QED
        BY <2>1, <3>1
    <2>3. /\ c[1] \in Nat /\ c[2] \in Nat /\ c[3] \in Nat /\ c[4] \in Nat /\ c[5] \in Nat
          /\ c[NULL] \in Nat
      BY <2>2
    <2>. QED
      BY <2>3
  <1>4. /\ n1 = Cardinality(Rated(S, {1})) /\ n2 = Cardinality(Rated(S, {2}))
        /\ n3 = Cardinality(Rated(S, {3})) /\ n4 = Cardinality(Rated(S, {4}))
        /\ n5 = Cardinality(Rated(S, {5})) /\ n0 = Cardinality(Rated(S, {NULL}))
    BY <1>1, <1>3
  <1>5. PICK A2, A3, A4, A5, A0 :
          /\ A2 = {1} \cup {2} /\ A3 = A2 \cup {3} /\ A4 = A3 \cup {4} /\ A5 = A4 \cup {5}
          /\ A0 = {NULL} \cup A5
    OBVIOUS
  <1>6. /\ {1} \cap {2} = {} /\ A2 \cap {3} = {} /\ A3 \cap {4} = {} /\ A4 \cap {5} = {}
        /\ {NULL} \cap A5 = {}
    BY <1>2, <1>5
  <1>7. IsTotal(Cardinality(Rated(S, A2)), n1, n2)
    BY <1>1, <1>4, <1>5, <1>6, CountOfRated
  <1>8. IsTotal(Cardinality(Rated(S, A3)), Cardinality(Rated(S, A2)), n3)
    BY <1>1, <1>4, <1>5, <1>6, CountOfRated
  <1>9. IsTotal(Cardinality(Rated(S, A4)), Cardinality(Rated(S, A3)), n4)
    BY <1>1, <1>4, <1>5, <1>6, CountOfRated
  <1>10. IsTotal(Cardinality(Rated(S, A5)), Cardinality(Rated(S, A4)), n5)
    BY <1>1, <1>4, <1>5, <1>6, CountOfRated
  <1>11. IsTotal(Cardinality(Rated(S, A0)), n0, Cardinality(Rated(S, A5)))
    BY <1>1, <1>4, <1>5, <1>6, CountOfRated
  <1>12. 1..2 = A2
    BY <1>5
  <1>13. Rated(S, A0) = S
    <2>1. \A i \in S : feedback[i].overallRating \in A0
      <3>1. A0 = 1..5 \cup {NULL}
        BY <1>5
      <3>. QED
        BY <1>1, <3>1, FeedbackIsTyped
    <2>. QED
      BY <2>1 DEF Rated
  <1>14. Cardinality(Rated(S, 1..2)) = n1 + n2
    BY <1>7, <1>12 DEF IsTotal
  <1>15. IsTotal(Cardinality(S), n0, n1 + n2 + n3 + n4 + n5)
    BY <1>7, <1>8, <1>9, <1>10, <1>11, <1>13 DEF IsTotal
  <1>. QED
    BY <1>1, <1>3, <1>14, <1>15

LEMMA RatingsHold ==
  ASSUME FeedbackAssumption, Typed
  PROVE  RatingsAgree
  <1>1. PICK S, c : /\ S = DOMAIN feedback
                    /\ c = [k \in 1..5 \cup {NULL} |-> Cardinality(Rated(S, {k}))]
    OBVIOUS
  <1>2. Given = S /\ buildFeedbackWhere("all", 0, Today) = S
    BY <1>1, AllIsGiven DEF Given
  <1>3. getRatingStats(S).distribution = c /\ getRatingStats(S).totalFeedbacks = Cardinality(S)
    BY <1>1 DEF getRatingStats
  <1>4. /\ Cardinality(Rated(S, 1..2)) = c[1] + c[2]
        /\ IsTotal(Cardinality(S), c[NULL], c[1] + c[2] + c[3] + c[4] + c[5])
    BY <1>1, SentimentsAddUp
  <1>5. PICK s : s = getDashboardSummary("all", 0, Today).sentiment
    OBVIOUS
  <1>6. /\ s.positive = c[4] + c[5] /\ s.neutral = c[3] /\ s.negative = c[1] + c[2]
        /\ s.total = Cardinality(S)
    BY <1>2, <1>3, <1>5 DEF getDashboardSummary
  <1>7. getSummary(S).negativeFeedbackCount = c[1] + c[2]
    BY <1>3 DEF getSummary, getNegativeCount
  <1>8. getSatisfactionMetrics(S).negativeFeedbackCount = c[1] + c[2]
    BY <1>3 DEF getSatisfactionMetrics, getNegativeCount
  <1>9. getPeriodSummary(S).negativeCount = c[1] + c[2]
    BY <1>4 DEF getPeriodSummary
  <1>10. \A k \in 1..5 \cup {NULL} : c[k] \in Nat
    <2>1. IsFiniteSet(S)
      BY <1>1, FeedbackIsTyped
    <2>2. ASSUME NEW k \in 1..5 \cup {NULL}
          PROVE  Cardinality(Rated(S, {k})) \in Nat
      <3>1. {k} \cap {} = {}
        OBVIOUS
      <3>. QED
        BY <2>1, <3>1, CountOfRated
    <2>. QED
      BY <1>1, <2>2
  <1>11. PICK n1 \in Nat, n2 \in Nat, n3 \in Nat, n4 \in Nat, n5 \in Nat, n0 \in Nat :
           /\ n1 = c[1] /\ n2 = c[2] /\ n3 = c[3] /\ n4 = c[4] /\ n5 = c[5] /\ n0 = c[NULL]
    <2>1. /\ c[1] \in Nat /\ c[2] \in Nat /\ c[3] \in Nat /\ c[4] \in Nat /\ c[5] \in Nat
          /\ c[NULL] \in Nat
      BY <1>10
    <2>. QED
      BY <2>1
  <1>12. s.positive + s.neutral + s.negative = s.total - c[NULL]
    BY <1>4, <1>6, <1>11 DEF IsTotal
  <1>13. Cardinality(S) = SumFunction(c)
    BY <1>2, <1>3, DistributionAddsUp
  <1>14. {s.negative, getSummary(S).negativeFeedbackCount,
          getSatisfactionMetrics(S).negativeFeedbackCount} = {getPeriodSummary(S).negativeCount}
    BY <1>6, <1>7, <1>8, <1>9
  <1>. QED
    BY <1>1, <1>2, <1>3, <1>5, <1>12, <1>13, <1>14 DEF RatingsAgree

-----------------------------------------------------------------------------
(* Figures of the feedback: periods. *)

MonthSpan == DayLength * MonthLength

LEMMA MonthSpanIsPositive ==
  ASSUME FeedbackAssumption
  PROVE  MonthSpan \in Nat \ {0}
  BY FeedbackConstants DEF MonthSpan

(* How many of S have which key. *)
Tally(n, S, key) ==
  n = [k \in {key[i] : i \in S} |-> Cardinality({i \in S : key[i] = k})]

LEMMA CountByKey ==
  ASSUME NEW S, IsFiniteSet(S), NEW key, DOMAIN key = S,
         NEW n, Tally(n, S, key)
  PROVE  Cardinality(S) = SumFunction(n)
  <1>1. PICK K, P : K = {key[i] : i \in S} /\ P = [k \in K |-> {i \in S : key[i] = k}]
    OBVIOUS
  <1>2. PICK f : f = [i \in S |-> key[i]]
    OBVIOUS
  <1>3. f \in Surjection(S, K)
    BY <1>1, <1>2 DEF Surjection
  <1>4. IsFiniteSet(K)
    BY <1>3, FS_Surjection
  <1>5. Parts(P, K, S)
    BY <1>1 DEF Parts
  <1>6. DOMAIN n = K /\ n = [k \in K |-> n[k]] /\ \A k \in K : n[k] = Cardinality(P[k])
    BY <1>1 DEF Tally
  <1>. QED
    <2>1. DOMAIN n = K /\ n = [k \in K |-> n[k]] /\ \A k \in K : n[k] = Cardinality(P[k])
      BY <1>6
    <2>. QED
      BY <1>4, <1>5, <2>1, CountOfParts

LEMMA FeedbackDaysAddUp ==
  ASSUME FeedbackAssumption, Typed
  PROVE  Cardinality(Given) = SumFunction(getDashboardSummary("all", 0, Today).daily)
  <1>1. PICK S, key, n : /\ S = Given
                         /\ key = [i \in S |-> feedback[i].submittedAt \div DayLength]
                         /\ n = [k \in {key[i] : i \in S} |-> Cardinality({i \in S : key[i] = k})]
    OBVIOUS
  <1>2. IsFiniteSet(S)
    BY <1>1, AllIsGiven, FeedbackIsTyped
  <1>3. Cardinality(S) = SumFunction(n)
    BY <1>1, <1>2, CountByKey DEF Tally
  <1>4. getDashboardSummary("all", 0, Today).daily = n
    <2>1. getDashboardSummary("all", 0, Today).daily =
            [e \in {feedback[i].submittedAt \div DayLength : i \in S} |->
               Cardinality({i \in S : feedback[i].submittedAt \div DayLength = e})]
      BY <1>1 DEF getDashboardSummary, Given
    <2>2. {feedback[i].submittedAt \div DayLength : i \in S} = {key[i] : i \in S}
      BY <1>1
    <2>3. \A e : {i \in S : feedback[i].submittedAt \div DayLength = e} = {i \in S : key[i] = e}
      BY <1>1
    <2>. QED
      BY <1>1, <2>1, <2>2, <2>3
  <1>. QED
    BY <1>1, <1>3, <1>4

LEMMA TrendIs ==
  getDashboardSummary("all", 0, Today).trend = getMonthlyTrends(Given)
  BY DEF getDashboardSummary, Given

LEMMA FeedbackMonthsAddUp ==
  ASSUME FeedbackAssumption, Typed
  PROVE  Cardinality(Given) = SumFunction(getMonthlyTrends(Given))
  <1>1. PICK S, key, n : /\ S = Given
                         /\ key = [i \in S |-> feedback[i].submittedAt \div MonthSpan]
                         /\ n = [k \in {key[i] : i \in S} |-> Cardinality({i \in S : key[i] = k})]
    OBVIOUS
  <1>2. IsFiniteSet(S)
    BY <1>1, AllIsGiven, FeedbackIsTyped
  <1>3. Cardinality(S) = SumFunction(n)
    BY <1>1, <1>2, CountByKey DEF Tally
  <1>4. getMonthlyTrends(Given) = n
    <2>1. getMonthlyTrends(Given) =
            [m \in {feedback[i].submittedAt \div MonthSpan : i \in S} |->
               Cardinality({i \in S : feedback[i].submittedAt \div MonthSpan = m})]
      BY <1>1 DEF getMonthlyTrends, MonthSpan
    <2>2. {feedback[i].submittedAt \div MonthSpan : i \in S} = {key[i] : i \in S}
      BY <1>1
    <2>3. \A e : {i \in S : feedback[i].submittedAt \div MonthSpan = e} = {i \in S : key[i] = e}
      BY <1>1
    <2>. QED
      BY <1>1, <2>1, <2>2, <2>3
  <1>. QED
    BY <1>1, <1>3, <1>4

LEMMA QuotientAndRest ==
  ASSUME NEW a \in Nat, NEW b \in Nat \ {0}
  PROVE  /\ a % b \in Nat /\ a % b < b
         /\ a - (a % b) = b * (a \div b) /\ a = b * (a \div b) + (a % b)
  OBVIOUS

IsProduct(p, a, b) == p = a * b

IsQuotient(q, a, b) == b * q <= a /\ a < b * q + b

LEMMA OneQuotient ==
  ASSUME NEW a \in Nat, NEW b \in Nat \ {0}, NEW q \in Int, IsQuotient(q, a, b)
  PROVE  q = a \div b
  BY DEF IsQuotient

(* An instant of the month of today is one since its first day began.      *)
LEMMA SinceFirstOfMonth ==
  ASSUME NEW D \in Nat \ {0}, NEW M \in Nat \ {0}, NEW p \in Nat \ {0}, IsProduct(p, D, M),
         NEW n \in Nat, NEW d \in Nat, NEW m \in Nat, IsQuotient(d, n, D), IsQuotient(m, d, M),
         NEW k \in Nat, IsProduct(k, M, m), NEW first \in Int, IsProduct(first, D, k),
         NEW t \in Nat, t <= n
  PROVE  t \div p = m <=> first <= t
  <1>1. /\ k = M * m /\ first = D * k /\ p = D * M
        /\ n < D * d + D /\ d < M * m + M
    BY DEF IsProduct, IsQuotient
  <1>2. p * m = D * k /\ p * m + p = D * (k + M)
    BY <1>1
  <1>3. n < p * m + p
    <2>1. d + 1 <= k + M
      BY <1>1
    <2>2. D * (d + 1) <= D * (k + M)
      BY <2>1, ProductGrows
    <2>3. PICK u \in Int, v \in Int, w \in Int :
            u = D * (d + 1) /\ v = D * (k + M) /\ w = p * m + p
      OBVIOUS
    <2>4. u = D * d + D
      BY <2>3
    <2>5. v = w
      BY <1>2, <2>3
    <2>6. n < u
      BY <1>1, <2>4
    <2>. QED
      BY <2>2, <2>3, <2>5, <2>6
  <1>4. CASE D * k <= t
    <2>1. p * m <= t /\ t < p * m + p
      BY <1>2, <1>3, <1>4
    <2>2. IsQuotient(m, t, p)
      BY <2>1 DEF IsQuotient
    <2>3. m = t \div p
      BY <2>2, OneQuotient
    <2>. QED
      BY <1>1, <1>4, <2>3
  <1>5. CASE ~(D * k <= t)
    <2>1. p * (t \div p) <= t
      BY QuotientBounds
    <2>2. t \div p # m
      BY <1>2, <1>5, <2>1
    <2>. QED
      BY <1>1, <1>5, <2>2
  <1>. QED
    BY <1>4, <1>5

LEMMA InBetween ==
  ASSUME NEW from, NEW to
  PROVE  /\ Between("all", from, to) = {i \in DOMAIN feedback : feedback[i].submittedAt \in from .. to}
         /\ Between("all", from, to) \in SUBSET DOMAIN feedback
  BY DEF Between

LEMMA BetweenSplits ==
  ASSUME Typed, NEW a \in Int, NEW b \in Int, NEW c \in Int, a <= b, b <= c + 1
  PROVE  IsTotal(Cardinality(Between("all", a, c)), Cardinality(Between("all", b, c)),
                 Cardinality(Between("all", a, b - 1)))
         /\ Cardinality(Between("all", b, c)) \in Nat
         /\ Cardinality(Between("all", a, b - 1)) \in Nat
  <1>1. PICK A, B, C : /\ A = Between("all", b, c) /\ B = Between("all", a, b - 1)
                       /\ C = Between("all", a, c)
    OBVIOUS
  <1>2. A \cap B = {} /\ A \cup B = C
    BY <1>1, InBetween, FeedbackIsTyped
  <1>3. IsFiniteSet(A) /\ IsFiniteSet(B)
    BY <1>1, InBetween, FeedbackIsTyped, FS_Subset
  <1>. QED
    BY <1>1, <1>2, <1>3, CountOfTwo

LEMMA MonthIsOfTrend ==
  ASSUME FeedbackAssumption, Typed, NEW A, A = getDashboardSummary("all", 0, Today),
         NEW month, month = Today \div MonthLength
  PROVE  A.thisMonth = IF month \in DOMAIN A.trend THEN A.trend[month] ELSE 0
  <1>1. PICK D \in Nat \ {0}, M \in Nat \ {0}, p \in Nat \ {0}, n \in Nat, d \in Nat :
          /\ D = DayLength /\ M = MonthLength /\ p = MonthSpan /\ n = now /\ d = Today
    BY FeedbackConstants, MonthSpanIsPositive, TodayIsNow
  <1>2. D * d <= n /\ n < D * d + D
    BY <1>1, TodayIsNow
  <1>3. month \in Nat /\ M * month <= d /\ d < M * month + M
    BY <1>1, QuotientBounds
  <1>4. d - (d % M) = M * month
    BY <1>1, QuotientAndRest
  <1>5. PICK first \in Int : first = (d - (d % M)) * D /\ first = D * (M * month)
    <2>1. PICK k \in Int : k = M * month
      BY <1>3
    <2>. QED
      BY <1>4, <2>1
  <1>6. PICK T : T = {i \in DOMAIN feedback : feedback[i].submittedAt \div p = month}
    OBVIOUS
  <1>7. Between("all", first, n) = T
    <2>1. ASSUME NEW i \in DOMAIN feedback
          PROVE  feedback[i].submittedAt \in first .. n <=> feedback[i].submittedAt \div p = month
      <3>1. PICK t \in Nat : t = feedback[i].submittedAt /\ t <= n
        BY <1>1, FeedbackIsTyped
      <3>2. IsProduct(p, D, M) /\ IsQuotient(d, n, D) /\ IsQuotient(month, d, M)
        BY <1>1, <1>2, <1>3 DEF MonthSpan, IsProduct, IsQuotient
      <3>3. PICK k \in Nat : IsProduct(k, M, month)
        BY <1>3 DEF IsProduct
      <3>4. IsProduct(first, D, k)
        <4>1. k = M * month
          BY <3>3 DEF IsProduct
        <4>2. first = D * k
          BY <1>5, <4>1
        <4>. QED
          BY <4>2 DEF IsProduct
      <3>5. t \div p = month <=> first <= t
        BY <1>3, <3>1, <3>2, <3>3, <3>4, SinceFirstOfMonth
      <3>. QED
        BY <3>1, <3>5
    <2>. QED
      BY <1>6, <2>1, InBetween
  <1>8. A.thisMonth = Cardinality(T)
    BY <1>1, <1>5, <1>7 DEF getDashboardSummary, Today
  <1>9. A.trend = getMonthlyTrends(Given)
    BY TrendIs
  <1>10. /\ month \in DOMAIN A.trend <=> T # {}
         /\ month \in DOMAIN A.trend => A.trend[month] = Cardinality(T)
    <2>1. PICK S : S = DOMAIN feedback /\ S = Given
      BY AllIsGiven
    <2>2. A.trend = [m \in {feedback[i].submittedAt \div p : i \in S} |->
                       Cardinality({i \in S : feedback[i].submittedAt \div p = m})]
      BY <1>1, <1>9, <2>1 DEF getMonthlyTrends, MonthSpan
    <2>. QED
      BY <1>6, <2>1, <2>2
  <1>11. T = {} => Cardinality(T) = 0
    BY FS_EmptySet
  <1>. QED
    BY <1>8, <1>10, <1>11

LEMMA WeekLacksItsMorning ==
  ASSUME FeedbackAssumption, Typed, NEW sunday, sunday = (Today - (Today % 7)) * DayLength
  PROVE  IsTotal(Cardinality(Between("all", sunday, now)),
                 getDashboardSummary("all", 0, Today).thisWeek,
                 Cardinality(Between("all", sunday, sunday + (now % DayLength) - 1)))
  <1>1. PICK D \in Nat \ {0}, n \in Nat, d \in Nat, r \in Nat, w \in Nat :
          /\ D = DayLength /\ n = now /\ d = Today /\ r = n % D /\ w = d % 7
    <2>1. PICK D \in Nat \ {0}, n \in Nat, d \in Nat, k \in Nat \ {0} :
            D = DayLength /\ n = now /\ d = Today /\ k = 7
      BY FeedbackConstants, TodayIsNow
    <2>2. n % D \in Nat /\ d % k \in Nat
      BY QuotientAndRest
    <2>. QED
      BY <2>1, <2>2
  <1>2. n = D * d + r
    BY <1>1, QuotientAndRest DEF Today
  <1>3. PICK s \in Int : s = sunday /\ s = (d - w) * D /\ s <= D * d /\ n - w * D = s + r
    <2>1. PICK s \in Int : s = (d - w) * D
      BY <1>1
    <2>2. PICK u \in Int, v \in Int : u = D * d /\ v = w * D /\ v >= 0 /\ s = u - v
      BY <1>1, <2>1
    <2>. QED
      BY <1>1, <1>2, <2>1, <2>2
  <1>4. getDashboardSummary("all", 0, Today).thisWeek = Cardinality(Between("all", s + r, n))
    <2>1. getDashboardSummary("all", 0, Today).thisWeek = Cardinality(Between("all", n - w * D, n))
      BY <1>1 DEF getDashboardSummary, Today
    <2>. QED
      BY <1>3, <2>1
  <1>5. PICK b \in Int : b = s + r /\ s <= b /\ b <= n + 1
    BY <1>1, <1>2, <1>3
  <1>6. IsTotal(Cardinality(Between("all", s, n)), Cardinality(Between("all", b, n)),
                Cardinality(Between("all", s, b - 1)))
    BY <1>1, <1>5, BetweenSplits
  <1>. QED
    BY <1>1, <1>3, <1>4, <1>5, <1>6

LEMMA DayEndsAtMidnight ==
  ASSUME FeedbackAssumption, Typed, NEW d \in Int
  PROVE  getDailyFeedback("all", d) =
           buildFeedbackWhere("all", d, d) \cup Between("all", (d + 1) * DayLength, (d + 1) * DayLength)
  <1>1. PICK D \in Nat \ {0}, a \in Int, b \in Int :
          D = DayLength /\ a = d * D /\ b = (d + 1) * D /\ b = a + D
    BY FeedbackConstants
  <1>2. Between("all", a, b) = Between("all", a, b - 1) \cup Between("all", b, b)
    BY <1>1, InBetween, FeedbackIsTyped
  <1>. QED
    BY <1>1, <1>2 DEF getDailyFeedback, buildFeedbackWhere

LEMMA NotBefore ==
  ASSUME NEW D \in Nat \ {0}, NEW a \in Int, NEW q \in Int, NEW t \in Nat,
         D * a <= t, t < D * q + D
  PROVE  a <= q
  <1>1. PICK x \in Int, u \in Int : x = D * q /\ u = D * a /\ u <= t /\ t < x + D
    OBVIOUS
  <1>2. ASSUME q + 1 <= a
        PROVE  FALSE
    <2>1. D * (q + 1) <= D * a
      BY <1>2, ProductGrows
    <2>2. D * (q + 1) = x + D
      BY <1>1
    <2>3. x + D <= u
      BY <1>1, <2>1, <2>2
    <2>. QED
      BY <1>1, <2>3
  <1>. QED
    BY <1>2

LEMMA WeekIsOfDays ==
  ASSUME FeedbackAssumption, Typed, NEW d \in Int
  PROVE  getWeeklyFeedback("all", d) = UNION {getDailyFeedback("all", e) : e \in (d - 6)..d}
  <1>1. PICK D \in Nat \ {0} : D = DayLength
    BY FeedbackConstants
  <1>2. ASSUME NEW i \in getWeeklyFeedback("all", d)
        PROVE  \E e \in (d - 6)..d : i \in getDailyFeedback("all", e)
    <2>0. i \in Between("all", (d - 6) * D, (d + 1) * D)
      BY <1>1, <1>2 DEF getWeeklyFeedback
    <2>1. PICK t \in Nat : /\ i \in DOMAIN feedback /\ t = feedback[i].submittedAt
                           /\ t \in (d - 6) * D .. (d + 1) * D
      <3>1. i \in DOMAIN feedback /\ feedback[i].submittedAt \in (d - 6) * D .. (d + 1) * D
        BY <2>0, InBetween
      <3>. QED
        BY <3>1, FeedbackIsTyped
    <2>2. PICK q \in Nat : D * q <= t /\ t < D * q + D
      BY QuotientBounds
    <2>3. PICK u \in Int, v \in Int, x \in Int : u = (d - 6) * D /\ v = (d + 1) * D /\ x = D * q
      OBVIOUS
    <2>4. CASE q <= d
      <3>1. d - 6 <= q
        <4>1. PICK a \in Int : a = d - 6
          OBVIOUS
        <4>2. D * a <= t
          <5>1. D * a = u /\ u <= t
            BY <2>1, <2>3, <4>1
          <5>. QED
            BY <5>1
        <4>3. a <= q
          BY <2>2, <4>2, NotBefore
        <4>. QED
          BY <4>1, <4>3
      <3>2. q * D = x /\ (q + 1) * D = x + D
        BY <2>3
      <3>3. t \in q * D .. (q + 1) * D
        BY <2>2, <2>3, <3>2
      <3>4. i \in getDailyFeedback("all", q)
        BY <1>1, <2>1, <3>3, InBetween DEF getDailyFeedback
      <3>. QED
        BY <2>4, <3>1, <3>4
    <2>5. CASE d + 1 <= q
      <3>1. v <= x
        <4>1. D * (d + 1) <= D * q
          BY <2>5, ProductGrows
        <4>. QED
          BY <2>3, <4>1
      <3>2. d * D = v - D
        BY <2>3
      <3>3. t \in d * D .. (d + 1) * D
        BY <2>1, <2>2, <2>3, <3>1, <3>2
      <3>4. i \in getDailyFeedback("all", d)
        BY <1>1, <2>1, <3>3, InBetween DEF getDailyFeedback
      <3>. QED
        BY <3>4
    <2>. QED
      BY <2>4, <2>5
  <1>3. ASSUME NEW e \in (d - 6)..d, NEW i \in getDailyFeedback("all", e)
        PROVE  i \in getWeeklyFeedback("all", d)
    <2>1. PICK t \in Nat : /\ i \in DOMAIN feedback /\ t = feedback[i].submittedAt
                           /\ t \in e * D .. (e + 1) * D
      BY <1>1, FeedbackIsTyped, InBetween DEF getDailyFeedback
    <2>2. D * (d - 6) <= D * e /\ D * (e + 1) <= D * (d + 1)
      BY ProductGrows
    <2>3. /\ D * (d - 6) = (d - 6) * D /\ D * e = e * D
          /\ D * (e + 1) = (e + 1) * D /\ D * (d + 1) = (d + 1) * D
      OBVIOUS
    <2>4. t \in (d - 6) * D .. (d + 1) * D
      BY <2>1, <2>2, <2>3
    <2>. QED
      BY <1>1, <2>1, <2>4, InBetween DEF getWeeklyFeedback
  <1>. QED
    BY <1>2, <1>3

LEMMA PeriodsHold ==
  ASSUME FeedbackAssumption, Typed
  PROVE  PeriodsAgree
  <1>1. PICK A, month, sunday :
          /\ A = getDashboardSummary("all", 0, Today)
          /\ month = Today \div MonthLength
          /\ sunday = (Today - (Today % 7)) * DayLength
    OBVIOUS
  <1>2. Cardinality(Given) = SumFunction(A.daily)
    BY <1>1, FeedbackDaysAddUp
  <1>3. Cardinality(Given) = SumFunction(A.trend)
    BY <1>1, FeedbackMonthsAddUp, TrendIs
  <1>4. A.thisMonth = IF month \in DOMAIN A.trend THEN A.trend[month] ELSE 0
    BY <1>1, MonthIsOfTrend
  <1>5. A.thisWeek + Cardinality(Between("all", sunday, sunday + (now % DayLength) - 1))
          = Cardinality(Between("all", sunday, now))
    BY <1>1, WeekLacksItsMorning DEF IsTotal
  <1>6. ASSUME NEW d \in 0..Today
        PROVE  /\ getDailyFeedback("all", d) = buildFeedbackWhere("all", d, d)
                    \cup Between("all", (d + 1) * DayLength, (d + 1) * DayLength)
               /\ getWeeklyFeedback("all", d) = UNION {getDailyFeedback("all", e) : e \in (d - 6)..d}
    <2>1. d \in Int
      BY TodayIsNow
    <2>. QED
      BY <2>1, DayEndsAtMidnight, WeekIsOfDays
  <1>. QED
    BY <1>1, <1>2, <1>3, <1>4, <1>5, <1>6, Zenon DEF PeriodsAgree

-----------------------------------------------------------------------------
(* Figures of the feedback: branches and lists. *)

GivenAt(br) == {i \in DOMAIN feedback : feedback[i].branchId = br}

LEMMA GivenOfBranch ==
  ASSUME FeedbackAssumption, Typed, NEW br \in Venues
  PROVE  buildFeedbackWhere(br, 0, Today) = GivenAt(br)
  <1>1. br # "all"
    BY FeedbackConstants
  <1>2. PICK u, v : u = 0 * DayLength /\ v = (Today + 1) * DayLength - 1
    OBVIOUS
  <1>3. \A i \in DOMAIN feedback : feedback[i].submittedAt \in u .. v
    <2>1. Between("all", u, v) = DOMAIN feedback
      BY <1>2, AllIsGiven DEF Given, buildFeedbackWhere
    <2>. QED
      BY <2>1, InBetween
  <1>4. buildFeedbackWhere(br, 0, Today) = Between(br, u, v)
    BY <1>2 DEF buildFeedbackWhere
  <1>. QED
    BY <1>1, <1>3, <1>4 DEF Between, GivenAt

LEMMA PerformanceOfBranches ==
  ASSUME FeedbackAssumption, Typed, NEW t, t = getBranchPerformance(0, Today)
  PROVE  /\ DOMAIN t = {b \in Venues : venue[b] # "deleted"}
         /\ t = [b \in DOMAIN t |-> t[b]]
         /\ \A br \in DOMAIN t :
              /\ t[br].totalFeedbacks = Cardinality(GivenAt(br))
              /\ t[br].negativeFeedback = Cardinality(Rated(GivenAt(br), 1..2))
  <1>1. PICK V : V = {b \in Venues : venue[b] # "deleted"}
    OBVIOUS
  <1>2. \A br \in V : buildFeedbackWhere(br, 0, Today) = GivenAt(br)
    BY <1>1, GivenOfBranch
  <1>3. {1, 2} = 1..2
    OBVIOUS
  <1>4. /\ DOMAIN t = V /\ t = [b \in V |-> t[b]]
        /\ \A br \in V :
             /\ t[br].totalFeedbacks = Cardinality(buildFeedbackWhere(br, 0, Today))
             /\ t[br].negativeFeedback = Cardinality(Rated(buildFeedbackWhere(br, 0, Today), {1, 2}))
    BY <1>1 DEF getBranchPerformance
  <1>. QED
    BY <1>1, <1>2, <1>3, <1>4

LEMMA RankingOfBranches ==
  ASSUME FeedbackAssumption, Typed, NEW t, t = getBranchRanking(0, Today)
  PROVE  /\ DOMAIN t = {feedback[i].branchId : i \in DOMAIN feedback}
         /\ \A br \in DOMAIN t : /\ t[br].branch = NULL <=> venue[br] = "deleted"
                                 /\ t[br].totalFeedbacks = Cardinality(GivenAt(br))
  <1>1. PICK V : V = {feedback[i].branchId : i \in DOMAIN feedback}
    OBVIOUS
  <1>2. V \subseteq Venues
    BY <1>1, FeedbackIsTyped
  <1>3. buildFeedbackWhere("all", 0, Today) = DOMAIN feedback
    BY AllIsGiven DEF Given
  <1>4. /\ DOMAIN t = V
        /\ \A br \in V : /\ t[br].branch = IF venue[br] = "deleted" THEN NULL ELSE br
                         /\ t[br].totalFeedbacks = Cardinality(buildFeedbackWhere(br, 0, Today))
    BY <1>1, <1>3 DEF getBranchRanking
  <1>5. NULL \notin Venues
    BY FeedbackConstants
  <1>. QED
    BY <1>1, <1>2, <1>4, <1>5, GivenOfBranch

LEMMA BranchesMakeTheTotal ==
  ASSUME FeedbackAssumption, Typed, NEW A, NEW B,
         A = {b \in Venues : venue[b] # "deleted"},
         B = {b \in Venues : venue[b] = "deleted" /\ GivenAt(b) # {}}
  PROVE  IsTotal(Cardinality(DOMAIN feedback),
                 SumFunction([br \in A |-> Cardinality(GivenAt(br))]),
                 SumFunction([br \in B |-> Cardinality(GivenAt(br))]))
  <1>1. PICK S, K, P, c : /\ S = DOMAIN feedback /\ K = Venues
                          /\ P = [br \in K |-> GivenAt(br)]
                          /\ c = [br \in K |-> Cardinality(GivenAt(br))]
    OBVIOUS
  <1>2. IsFiniteSet(S) /\ IsFiniteSet(K)
    BY <1>1, FeedbackIsTyped, FeedbackConstants
  <1>3. Parts(P, K, S)
    <2>1. \A x \in S : feedback[x].branchId \in K
      BY <1>1, FeedbackIsTyped
    <2>. QED
      BY <1>1, <2>1 DEF Parts, GivenAt
  <1>4. DOMAIN c = K /\ c = [k \in K |-> c[k]] /\ \A k \in K : c[k] = Cardinality(P[k])
    BY <1>1
  <1>5. SumFunction(c) = Cardinality(S)
    BY <1>2, <1>3, <1>4, CountOfParts
  <1>6. c \in [K -> Int]
    <2>1. ASSUME NEW k \in K
          PROVE  Cardinality(GivenAt(k)) \in Int
      <3>1. GivenAt(k) \in SUBSET S
        BY <1>1 DEF GivenAt
      <3>. QED
        BY <1>2, <3>1, FS_Subset, FS_CardinalityType
    <2>. QED
      BY <1>1, <2>1
  <1>7. PICK g : SubsetSums(g, c, K)
    BY <1>2, <1>6, SumsOfSubsets
  <1>8. A \in SUBSET K /\ B \in SUBSET K /\ A \cap B = {} /\ A \cup B \in SUBSET K
    BY <1>1
  <1>9. SumsWithin(c, A \cup B)
    <2>1. \A x \in K : x \notin A \cup B => c[x] = 0
      <3>1. ASSUME NEW x \in K, x \notin A \cup B
            PROVE  c[x] = 0
        <4>1. GivenAt(x) = {}
          BY <1>1, <3>1
        <4>. QED
          BY <1>1, <4>1, FS_EmptySet
      <3>. QED
        BY <3>1
    <2>2. PICK T : T = A \cup B
      OBVIOUS
    <2>3. T \subseteq K /\ \A x \in K : x \notin T => c[x] = 0
      BY <1>8, <2>1, <2>2
    <2>4. SumsWithin(c, T)
      BY <1>2, <1>6, <2>3, SumWithoutZerosOutside
    <2>. QED
      BY <2>2, <2>4
  <1>10. /\ SumFunction([x \in A \cup B |-> c[x]]) = g[A \cup B]
         /\ SumFunction([x \in A |-> c[x]]) = g[A] /\ SumFunction([x \in B |-> c[x]]) = g[B]
    BY <1>7, <1>8 DEF SubsetSums
  <1>11. IsTotal(g[A \cup B], g[A], g[B])
    BY <1>2, <1>6, <1>7, <1>8, AddsUnion
  <1>12. SumFunction(c) = g[A \cup B]
    BY <1>9, <1>10 DEF SumsWithin
  <1>13. /\ [x \in A |-> c[x]] = [br \in A |-> Cardinality(GivenAt(br))]
         /\ [x \in B |-> c[x]] = [br \in B |-> Cardinality(GivenAt(br))]
    BY <1>1, <1>8
  <1>. QED
    BY <1>1, <1>5, <1>10, <1>11, <1>12, <1>13

LEMMA BranchesHold ==
  ASSUME FeedbackAssumption, Typed
  PROVE  BranchesAgree
  <1>1. PICK t, r, gone, A :
          /\ t = getBranchPerformance(0, Today) /\ r = getBranchRanking(0, Today)
          /\ gone = {br \in DOMAIN r : r[br].branch = NULL}
          /\ A = {b \in Venues : venue[b] # "deleted"}
    OBVIOUS
  <1>2. /\ DOMAIN t = A /\ t = [b \in DOMAIN t |-> t[b]]
        /\ \A br \in A : /\ t[br].totalFeedbacks = Cardinality(GivenAt(br))
                         /\ t[br].negativeFeedback = Cardinality(Rated(GivenAt(br), 1..2))
    BY <1>1, PerformanceOfBranches
  <1>3. getDashboardSummary("all", 0, Today).branchReports = t
    <2>1. getDashboardSummary("all", 0, Today).branchReports
            = [br \in {b \in DOMAIN t : "all" \in {"all", b}} |-> t[br]]
      BY <1>1 DEF getDashboardSummary
    <2>2. {b \in DOMAIN t : "all" \in {"all", b}} = DOMAIN t
      OBVIOUS
    <2>. QED
      BY <1>2, <2>1, <2>2
  <1>4. gone = {b \in Venues : venue[b] = "deleted" /\ GivenAt(b) # {}}
    <2>1. /\ DOMAIN r = {feedback[i].branchId : i \in DOMAIN feedback}
          /\ \A br \in DOMAIN r : r[br].branch = NULL <=> venue[br] = "deleted"
      BY <1>1, RankingOfBranches
    <2>2. \A b : b \in DOMAIN r <=> GivenAt(b) # {}
      BY <2>1 DEF GivenAt
    <2>3. DOMAIN r \subseteq Venues
      BY <2>1, FeedbackIsTyped
    <2>. QED
      BY <1>1, <2>1, <2>2, <2>3
  <1>5. IsTotal(Cardinality(DOMAIN feedback),
                SumFunction([br \in A |-> Cardinality(GivenAt(br))]),
                SumFunction([br \in gone |-> Cardinality(GivenAt(br))]))
    BY <1>1, <1>4, BranchesMakeTheTotal
  <1>6. [br \in DOMAIN t |-> t[br].totalFeedbacks] = [br \in A |-> Cardinality(GivenAt(br))]
    BY <1>2
  <1>7. [br \in gone |-> r[br].totalFeedbacks] = [br \in gone |-> Cardinality(GivenAt(br))]
    BY <1>1, RankingOfBranches
  <1>8. Cardinality(Given) = SumFunction([br \in DOMAIN t |-> t[br].totalFeedbacks])
                            + SumFunction([br \in gone |-> r[br].totalFeedbacks])
    BY <1>5, <1>6, <1>7, AllIsGiven DEF IsTotal
  <1>9. ASSUME NEW br \in DOMAIN t
        PROVE  /\ getBranchReport(br).total = t[br].totalFeedbacks
               /\ getBranchReport(br).negativeCount = t[br].negativeFeedback
    <2>1. br \in A /\ venue[br] # "deleted"
      BY <1>1, <1>2
    <2>2. getBranchReport(br) = getPeriodSummary(GivenAt(br))
      BY <2>1 DEF getBranchReport, GivenAt
    <2>. QED
      BY <1>2, <2>1, <2>2 DEF getPeriodSummary
  <1>. QED
    BY <1>1, <1>3, <1>8, <1>9, Zenon DEF BranchesAgree

(* The latest n of some. *)
LEMMA LatestAreTheLast ==
  ASSUME NEW m \in Nat, NEW S \in SUBSET (1 .. m), NEW n \in Nat
  PROVE  /\ Cardinality(Latest(S, n)) = Min({Cardinality(S), n})
         /\ Cardinality(S) <= n => Latest(S, n) = S
  <1>1. IsFiniteSet(S) /\ Cardinality(S) \in Nat
    <2>1. IsFiniteSet(1 .. m)
      BY FS_Interval
    <2>. QED
      BY <2>1, FS_Subset, FS_CardinalityType
  <1>2. PICK k \in Nat : k = Least(Cardinality(S), n) /\ k <= Cardinality(S) /\ k <= n
                         /\ (k = Cardinality(S) \/ k = n)
    BY <1>1 DEF Least
  <1>3. PICK key \in [S -> Nat] : \A x \in S : key[x] = m - x
    <2>1. PICK key : key = [x \in S |-> m - x]
      OBVIOUS
    <2>2. \A x \in S : m - x \in Nat
      OBVIOUS
    <2>. QED
      BY <2>1, <2>2
  <1>4. PICK K \in SUBSET S : FirstOf(K, S, key, k)
    BY <1>1, <1>2, <1>3, FirstExist
  <1>5. ASSUME NEW i \in K
        PROVE  Cardinality({j \in S : j >= i}) <= n
    <2>1. PICK T : T = {j \in S : j >= i}
      OBVIOUS
    <2>2. T \in SUBSET K
      <3>1. ASSUME NEW j \in T, j \notin K
            PROVE  FALSE
        <4>1. j \in S \ K /\ j \in 1 .. m /\ i \in 1 .. m /\ j >= i /\ j # i
          BY <2>1, <3>1
        <4>2. key[i] <= key[j]
          BY <1>4, <4>1 DEF FirstOf
        <4>3. m - i <= m - j
          BY <1>3, <4>1, <4>2
        <4>. QED
          BY <4>1, <4>3
      <3>. QED
        BY <3>1
    <2>3. Cardinality(K) = k /\ IsFiniteSet(K)
      BY <1>1, <1>4, FS_Subset DEF FirstOf
    <2>4. Cardinality(T) <= k
      BY <2>2, <2>3, FS_Subset
    <2>5. Cardinality(T) \in Nat
      BY <2>2, <2>3, FS_Subset, FS_CardinalityType
    <2>. QED
      BY <1>2, <2>1, <2>4, <2>5
  <1>6. ASSUME NEW i \in S \ K
        PROVE  ~(Cardinality({j \in S : j >= i}) <= n)
    <2>1. PICK T : T = {j \in S : j >= i}
      OBVIOUS
    <2>2. PICK L : L = K \cup {i}
      OBVIOUS
    <2>3. L \in SUBSET T
      <3>1. ASSUME NEW j \in K
            PROVE  j \in T
        <4>1. key[j] <= key[i] /\ j \in S /\ j \in 1 .. m /\ i \in 1 .. m
          BY <1>4 DEF FirstOf
        <4>2. m - j <= m - i
          BY <1>3, <4>1
        <4>. QED
          BY <2>1, <4>1, <4>2
      <3>2. i \in T
        BY <2>1
      <3>. QED
        BY <2>2, <3>1, <3>2
    <2>4. Cardinality(K) = k /\ IsFiniteSet(K)
      BY <1>1, <1>4, FS_Subset DEF FirstOf
    <2>5. Cardinality(L) = k + 1
      BY <2>2, <2>4, FS_AddElement
    <2>6. IsFiniteSet(T) /\ Cardinality(T) \in Nat
      <3>1. T \in SUBSET S
        BY <2>1
      <3>. QED
        BY <1>1, <3>1, FS_Subset, FS_CardinalityType
    <2>7. Cardinality(L) <= Cardinality(T)
      BY <2>3, <2>6, FS_Subset
    <2>8. k = n
      <3>1. CASE k = Cardinality(S)
        <4>1. K = S
          BY <1>1, <2>4, <3>1, FS_Subset
        <4>. QED
          BY <4>1
      <3>. QED
        BY <1>2, <3>1
    <2>. QED
      BY <2>1, <2>5, <2>6, <2>7, <2>8
  <1>7. Latest(S, n) = K
    BY <1>5, <1>6 DEF Latest
  <1>8. Cardinality(K) = Min({Cardinality(S), n})
    <2>1. Min({Cardinality(S), n}) = Least(Cardinality(S), n)
      BY <1>1, MinOfTwo
    <2>. QED
      BY <1>2, <1>4, <2>1 DEF FirstOf
  <1>9. Cardinality(S) <= n => K = S
    <2>1. Cardinality(S) <= n => Cardinality(K) = Cardinality(S)
      BY <1>1, <1>2, <1>4 DEF FirstOf
    <2>. QED
      BY <1>1, <2>1, FS_Subset
  <1>. QED
    BY <1>7, <1>8, <1>9

LEMMA LatestNest ==
  ASSUME NEW S, NEW m \in Nat, NEW n \in Nat, IsFiniteSet(S)
  PROVE  Latest(S, m) \subseteq Latest(S, n) \/ Latest(S, n) \subseteq Latest(S, m)
  <1>1. \A i \in S : Cardinality({j \in S : j >= i}) \in Nat
    <2>1. ASSUME NEW i \in S
          PROVE  Cardinality({j \in S : j >= i}) \in Nat
      <3>1. PICK T : T = {j \in S : j >= i} /\ T \in SUBSET S
        OBVIOUS
      <3>. QED
        BY <3>1, FS_Subset, FS_CardinalityType
    <2>. QED
      BY <2>1
  <1>. QED
    BY <1>1 DEF Latest

LEMMA ListsHold ==
  ASSUME FeedbackAssumption, Typed
  PROVE  ListsAgree
  <1>1. PICK S, R, m : S = Given /\ R = Rated(S, 1..2) /\ m = Len(feedback)
    OBVIOUS
  <1>2. m \in Nat /\ S \in SUBSET (1 .. m) /\ R \in SUBSET (1 .. m) /\ IsFiniteSet(S)
    BY <1>1, AllIsGiven, FeedbackIsTyped DEF Rated
  <1>3. S = buildFeedbackWhere("all", 0, Today)
    BY <1>1 DEF Given
  <1>4. getPeriodSummary(S).negativeCount = Cardinality(R)
    BY <1>1 DEF getPeriodSummary
  <1>5. getNegativeFeedback("all", 0, Today) = Latest(R, 50)
    BY <1>1, <1>3 DEF getNegativeFeedback
  <1>6. /\ exportExcel("all", 0, Today) = Latest(S, ExportLimit)
        /\ getRecentFeedback("all", 0, Today) = Latest(S, 20)
    BY <1>3 DEF exportExcel, getRecentFeedback
  <1>7. UNION {getPaginatedFeedbacks("all", n, 0, Today) : n \in 1..2} = R
    BY <1>1, <1>3 DEF getPaginatedFeedbacks, Rated
  <1>8. ExportLimit \in Nat /\ 50 \in Nat /\ 20 \in Nat
    BY FeedbackConstants
  <1>9. /\ Cardinality(Latest(R, 50)) = Min({Cardinality(R), 50})
        /\ Cardinality(R) <= 50 => Latest(R, 50) = R
    BY <1>2, <1>8, LatestAreTheLast
  <1>10. Cardinality(Latest(S, ExportLimit)) = Min({Cardinality(S), ExportLimit})
    BY <1>2, <1>8, LatestAreTheLast
  <1>11. Latest(S, ExportLimit) \subseteq Latest(S, 20) \/ Latest(S, 20) \subseteq Latest(S, ExportLimit)
    BY <1>2, <1>8, LatestNest
  <1>. QED
    BY <1>1, <1>4, <1>5, <1>6, <1>7, <1>9, <1>10, <1>11 DEF ListsAgree

-----------------------------------------------------------------------------
(* Figures of the feedback: percentages. *)

(* The percentage p of c among T, or k such together, is off by no more    *)
(* than one half for each.                                                 *)
IsNear(T, p, c, k) == 2 * (T * p) - 200 * c <= T * k /\ 200 * c - 2 * (T * p) <= T * k

LEMMA RoundedIsNear ==
  ASSUME NEW T \in Nat \ {0}, NEW c \in Nat
  PROVE  Percent(c, T) \in Nat /\ IsNear(T, Percent(c, T), c, 1)
  <1>1. PICK a \in Nat, b \in Nat \ {0} : a = 200 * c + T /\ b = 2 * T
    OBVIOUS
  <1>2. PICK q : q = a \div b /\ q = Percent(c, T)
    BY <1>1 DEF Percent
  <1>3. q \in Nat /\ b * q <= a /\ a < b * q + b
    BY <1>2, QuotientBounds
  <1>4. PICK u \in Int : u = T * q
    BY <1>3
  <1>5. b * q = 2 * u
    BY <1>1, <1>3, <1>4
  <1>6. 2 * u <= 200 * c + T /\ 200 * c + T < 2 * u + 2 * T
    BY <1>1, <1>3, <1>4, <1>5
  <1>7. 2 * u - 200 * c <= T * 1 /\ 200 * c - 2 * u <= T * 1
    BY <1>4, <1>6
  <1>. QED
    BY <1>2, <1>3, <1>4, <1>7 DEF IsNear

LEMMA NearAdds ==
  ASSUME NEW T \in Nat \ {0}, NEW p \in Int, NEW c \in Int, NEW k \in Int,
         NEW q \in Int, NEW d \in Int, IsNear(T, p, c, k), IsNear(T, q, d, 1)
  PROVE  IsNear(T, q + p, d + c, k + 1)
  <1>1. PICK u \in Int, v \in Int, w \in Int : u = T * p /\ v = T * q /\ w = T * k
    OBVIOUS
  <1>2. T * (q + p) = v + u /\ T * (k + 1) = w + T /\ T * 1 = T
    BY <1>1
  <1>3. /\ 2 * u - 200 * c <= w /\ 200 * c - 2 * u <= w
        /\ 2 * v - 200 * d <= T /\ 200 * d - 2 * v <= T
    BY <1>1, <1>2 DEF IsNear
  <1>4. 2 * (v + u) - 200 * (d + c) <= w + T /\ 200 * (d + c) - 2 * (v + u) <= w + T
    BY <1>1, <1>3
  <1>. QED
    BY <1>2, <1>4 DEF IsNear

LEMMA NearNone ==
  ASSUME NEW T \in Nat \ {0}
  PROVE  IsNear(T, 0, 0, 0)
  BY DEF IsNear

AllNear(T, p, c, S) == \A x \in S : IsNear(T, p[x], c[x], 1)

LEMMA SumsAreNear ==
  ASSUME NEW T \in Nat \ {0}, NEW S, IsFiniteSet(S), NEW p \in [S -> Int], NEW c \in [S -> Int],
         AllNear(T, p, c, S)
  PROVE  IsNear(T, SumFunction(p), SumFunction(c), Cardinality(S))
  <1>1. PICK g, h : /\ Adds(g, p, 0, S) /\ SumFunction(p) = g[S]
                    /\ Adds(h, c, 0, S) /\ SumFunction(c) = h[S]
    BY SumOfFunction
  <1>. DEFINE F == {R \in SUBSET S : IsNear(T, g[R], h[R], Cardinality(R))}
  <1>2. ASSUME NEW R \in SUBSET S, \A x \in R : R \ {x} \in F
        PROVE  R \in F
    <2>1. CASE R = {}
      <3>1. g[R] = 0 /\ h[R] = 0 /\ Cardinality(R) = 0
        BY <1>1, <2>1, FS_EmptySet DEF Adds
      <3>. QED
        BY <3>1, NearNone
    <2>2. ASSUME NEW x \in R
          PROVE  R \in F
      <3>1. PICK Q : Q = R \ {x}
        OBVIOUS
      <3>2. IsFiniteSet(R) /\ IsFiniteSet(Q) /\ Cardinality(R) \in Nat /\ Cardinality(Q) = Cardinality(R) - 1
        BY <3>1, FS_Subset, FS_CardinalityType, FS_RemoveElement
      <3>3. PICK k \in Int : k = Cardinality(Q) /\ Cardinality(R) = k + 1
        BY <3>2
      <3>4. /\ g[R] = p[x] + g[Q] /\ h[R] = c[x] + h[Q]
            /\ g[Q] \in Int /\ h[Q] \in Int /\ p[x] \in Int /\ c[x] \in Int
        BY <1>1, <3>1 DEF Adds
      <3>5. IsNear(T, g[Q], h[Q], k)
        BY <1>2, <3>1, <3>3
      <3>6. IsNear(T, p[x], c[x], 1)
        BY DEF AllNear
      <3>7. IsNear(T, p[x] + g[Q], c[x] + h[Q], k + 1)
        BY <3>4, <3>5, <3>6, NearAdds
      <3>. QED
        BY <3>3, <3>4, <3>7
    <2>. QED
      BY <2>1, <2>2
  <1>. HIDE DEF F
  <1>3. SUBSET S \subseteq F
    BY <1>2, SubsetsByInduction
  <1>4. S \in F
    BY <1>3
  <1>. QED
    BY <1>1, <1>4 DEF F

LEMMA NearHundred ==
  ASSUME NEW T \in Nat \ {0}, NEW p \in Int, NEW k \in Int, IsNear(T, p, T, k)
  PROVE  2 * (p - 100) <= k /\ -2 * (p - 100) <= k
  <1>1. PICK u \in Int, w \in Int : u = T * p /\ w = T * k
    OBVIOUS
  <1>2. 2 * u - 200 * T <= w /\ 200 * T - 2 * u <= w
    BY <1>1 DEF IsNear
  <1>3. ASSUME NEW m \in Int, k + 1 <= m
        PROVE  w + T <= T * m
    <2>1. T * (k + 1) <= T * m
      BY <1>3, ProductGrows
    <2>2. T * (k + 1) = w + T
      BY <1>1
    <2>. QED
      BY <2>1, <2>2
  <1>4. ASSUME k + 1 <= 2 * (p - 100)
        PROVE  FALSE
    <2>1. PICK m \in Int : m = 2 * (p - 100)
      OBVIOUS
    <2>2. w + T <= T * m
      BY <1>3, <1>4, <2>1
    <2>3. T * m = 2 * u - 200 * T
      BY <1>1, <2>1
    <2>. QED
      BY <1>1, <1>2, <2>2, <2>3
  <1>5. ASSUME k + 1 <= -2 * (p - 100)
        PROVE  FALSE
    <2>1. PICK m \in Int : m = -2 * (p - 100)
      OBVIOUS
    <2>2. w + T <= T * m
      BY <1>3, <1>5, <2>1
    <2>3. T * m = 200 * T - 2 * u
      BY <1>1, <2>1
    <2>. QED
      BY <1>1, <1>2, <2>2, <2>3
  <1>. QED
    BY <1>4, <1>5

LEMMA PercentagesHold ==
  ASSUME FeedbackAssumption, Typed
  PROVE  PercentagesAgree
  <1>0. SUFFICES ASSUME Given # {}
                 PROVE  /\ 2 * (SumFunction(getRatingAnalytics(Given)) - 100)
                             <= Cardinality(DOMAIN getRatingAnalytics(Given))
                        /\ -2 * (SumFunction(getRatingAnalytics(Given)) - 100)
                             <= Cardinality(DOMAIN getRatingAnalytics(Given))
    BY DEF PercentagesAgree
  <1>1. PICK S, K, c, D, p :
          /\ S = Given /\ K = 1..5 \cup {NULL}
          /\ c = getRatingStats(S).distribution
          /\ D = {k \in K : c[k] > 0}
          /\ p = getRatingAnalytics(S)
    OBVIOUS
  <1>2. IsFiniteSet(S) /\ S # {}
    BY <1>0, <1>1, FeedbackIsTyped, AllIsGiven
  <1>3. PICK T \in Nat \ {0} : T = Cardinality(S)
    BY <1>2, FS_CardinalityType, FS_EmptySet
  <1>4. c = [k \in K |-> Cardinality(Rated(S, {k}))] /\ getRatingStats(S).totalFeedbacks = T
    BY <1>1, <1>3 DEF getRatingStats
  <1>5. c \in [K -> Nat]
    <2>1. ASSUME NEW k \in K
          PROVE  Cardinality(Rated(S, {k})) \in Nat
      <3>1. {k} \cap {} = {}
        OBVIOUS
      <3>. QED
        BY <1>2, <3>1, CountOfRated
    <2>. QED
      BY <1>4, <2>1
  <1>6. D = {k \in DOMAIN c : c[k] > 0}
    BY <1>1, <1>5
  <1>7. p = [k \in D |-> Percent(c[k], T)]
    BY <1>1, <1>4, <1>6, Zenon DEF getRatingAnalytics
  <1>8. IsFiniteSet(K)
    <2>1. PICK a \in Int, b \in Int : a = 1 /\ b = 5
      OBVIOUS
    <2>2. IsFiniteSet(a .. b)
      BY FS_Interval
    <2>3. PICK A, B : A = 1..5 /\ B = {NULL} /\ IsFiniteSet(A)
      BY <2>1, <2>2
    <2>4. IsFiniteSet(B)
      BY <2>3, FS_Singleton
    <2>5. IsFiniteSet(A \cup B)
      BY <2>3, <2>4, FS_Union
    <2>. QED
      BY <1>1, <2>3, <2>5
  <1>9. D \subseteq K /\ IsFiniteSet(D)
    BY <1>1, <1>8, FS_Subset
  <1>10. PICK e : e = [k \in D |-> c[k]]
    OBVIOUS
  <1>11. e \in [D -> Int] /\ p \in [D -> Int] /\ AllNear(T, p, e, D)
    <2>1. ASSUME NEW k \in D
          PROVE  c[k] \in Nat /\ Percent(c[k], T) \in Nat /\ IsNear(T, Percent(c[k], T), c[k], 1)
      <3>1. c[k] \in Nat
        BY <1>5, <1>9
      <3>. QED
        BY <3>1, RoundedIsNear
    <2>. QED
      BY <1>7, <1>10, <2>1 DEF AllNear
  <1>12. SumFunction(e) = T
    <2>1. c \in [K -> Int] /\ \A x \in K : x \notin D => c[x] = 0
      BY <1>1, <1>5
    <2>2. SumsWithin(c, D)
      BY <1>8, <1>9, <2>1, SumWithoutZerosOutside
    <2>3. SumFunction(c) = T
      BY <1>1, <1>3, DistributionAddsUp
    <2>. QED
      BY <1>10, <2>2, <2>3 DEF SumsWithin
  <1>13. PICK P \in Int : P = SumFunction(p)
    BY <1>9, <1>11, SumStep
  <1>14. PICK k \in Int : k = Cardinality(D)
    BY <1>9, FS_CardinalityType
  <1>15. IsNear(T, P, T, k)
    BY <1>9, <1>11, <1>12, <1>13, <1>14, SumsAreNear
  <1>16. 2 * (P - 100) <= k /\ -2 * (P - 100) <= k
    BY <1>15, NearHundred
  <1>17. DOMAIN p = D
    BY <1>7
  <1>. QED
    BY <1>1, <1>13, <1>14, <1>16, <1>17

-----------------------------------------------------------------------------
(* Figures of the feedback: the overall rating. *)

Rates(form) == {c \in Categories : form[c] # NULL}

Scores(form) == [c \in Rates(form) |-> toScore(form[c])]

LEMMA FewCategories == IsFiniteSet(Categories)
  <1>1. Categories = {"food"} \cup ({"service"} \cup ({"environment"} \cup {"event"}))
    BY DEF Categories
  <1>. QED
    BY <1>1, FS_Singleton, FS_Union

LEMMA ScoresAre ==
  ASSUME NULL \notin 1..5, NEW form \in [Categories -> 1..5 \cup {NULL}]
  PROVE  /\ IsFiniteSet(Rates(form)) /\ Cardinality(Rates(form)) \in Nat
         /\ Scores(form) \in [Rates(form) -> 1..4]
         /\ \A c \in Rates(form) : form[c] \in 1..5
  <1>1. Rates(form) \subseteq Categories /\ \A c \in Rates(form) : form[c] \in 1..5
    BY DEF Rates
  <1>2. IsFiniteSet(Rates(form)) /\ Cardinality(Rates(form)) \in Nat
    BY <1>1, FewCategories, FS_Subset, FS_CardinalityType
  <1>3. \A k \in 1..5 : toScore(k) \in 1..4
    BY DEF toScore
  <1>4. Scores(form) \in [Rates(form) -> 1..4]
    BY <1>1, <1>3 DEF Scores
  <1>. QED
    BY <1>1, <1>2, <1>4

LEMMA OverallIsLabel ==
  ASSUME NEW form, Rates(form) # {}
  PROVE  calculateOverallRating(form) = Label(SumFunction(Scores(form)), Cardinality(Rates(form)))
  BY DEF calculateOverallRating, Rates, Scores

Threefold(n, k) == n >= 3 * k

LEMMA SumOfHighScores ==
  ASSUME NEW S, IsFiniteSet(S), NEW f \in [S -> Int], \A x \in S : f[x] >= 3
  PROVE  Threefold(SumFunction(f), Cardinality(S))
  <1>1. PICK g : Adds(g, f, 0, S) /\ SumFunction(f) = g[S]
    BY SumOfFunction
  <1>. DEFINE F == {R \in SUBSET S : g[R] >= 3 * Cardinality(R)}
  <1>2. ASSUME NEW R \in SUBSET S, \A x \in R : R \ {x} \in F
        PROVE  R \in F
    <2>1. CASE R = {}
      <3>1. g[R] = 0 /\ Cardinality(R) = 0
        BY <1>1, <2>1, FS_EmptySet DEF Adds
      <3>. QED
        BY <3>1
    <2>2. ASSUME NEW x \in R
          PROVE  R \in F
      <3>1. PICK Q : Q = R \ {x}
        OBVIOUS
      <3>2. IsFiniteSet(R) /\ Cardinality(R) \in Nat /\ Cardinality(Q) = Cardinality(R) - 1
        BY <3>1, FS_Subset, FS_CardinalityType, FS_RemoveElement
      <3>3. g[R] = f[x] + g[Q] /\ g[Q] \in Int /\ f[x] \in Int /\ f[x] >= 3
        BY <1>1, <3>1 DEF Adds
      <3>4. g[Q] >= 3 * Cardinality(Q)
        BY <1>2, <3>1
      <3>5. g[R] >= 3 * Cardinality(R)
        BY <3>2, <3>3, <3>4
      <3>. QED
        BY <3>5
    <2>. QED
      BY <2>1, <2>2
  <1>. HIDE DEF F
  <1>3. SUBSET S \subseteq F
    BY <1>2, SubsetsByInduction
  <1>4. S \in F
    BY <1>3
  <1>. QED
    BY <1>1, <1>4 DEF F, Threefold

LEMMA LabelGrows ==
  ASSUME NEW s \in Int, NEW t \in Int, NEW n \in Nat, s <= t
  PROVE  Label(s, n) <= Label(t, n)
  BY DEF Label

LEMMA BetterRating ==
  ASSUME NULL \notin 1..5, NEW form \in [Categories -> 1..5 \cup {NULL}],
         NEW c \in Categories, form[c] \in 1..4
  PROVE  calculateOverallRating(form) <= calculateOverallRating([form EXCEPT ![c] = @ + 1])
  <1>1. PICK better, R, f, e :
          /\ better = [form EXCEPT ![c] = @ + 1] /\ R = Rates(form)
          /\ f = Scores(form) /\ e = Scores(better)
    OBVIOUS
  <1>2. form[c] + 1 \in 1..5 /\ form[c] \in 1..5
    OBVIOUS
  <1>3. /\ better[c] = form[c] + 1
        /\ better \in [Categories -> 1..5 \cup {NULL}]
        /\ \A d \in Categories : d # c => better[d] = form[d]
    BY <1>1, <1>2
  <1>4. Rates(better) = R /\ c \in R
    BY <1>1, <1>2, <1>3 DEF Rates
  <1>5. /\ IsFiniteSet(R) /\ Cardinality(R) \in Nat
        /\ f \in [R -> Int] /\ e \in [R -> Int]
    <2>1. f \in [R -> 1..4] /\ e \in [R -> 1..4] /\ IsFiniteSet(R) /\ Cardinality(R) \in Nat
      BY <1>1, <1>3, <1>4, ScoresAre
    <2>. QED
      BY <2>1
  <1>6. f[c] <= e[c]
    <2>1. \A k \in 1..4 : toScore(k) <= toScore(k + 1)
      BY DEF toScore
    <2>2. f[c] = toScore(form[c]) /\ e[c] = toScore(form[c] + 1)
      BY <1>1, <1>3, <1>4 DEF Scores
    <2>. QED
      BY <2>1, <2>2
  <1>7. [y \in R \ {c} |-> f[y]] = [y \in R \ {c} |-> e[y]]
    <2>1. ASSUME NEW y \in R \ {c}
          PROVE  f[y] = e[y]
      <3>1. y \in Categories /\ y # c
        BY <1>1 DEF Rates
      <3>. QED
        BY <1>1, <1>3, <1>4, <3>1 DEF Scores
    <2>. QED
      BY <2>1
  <1>8. PICK g : g = [y \in R \ {c} |-> f[y]] /\ g = [y \in R \ {c} |-> e[y]]
    BY <1>7
  <1>9. SumFunction(f) = f[c] + SumFunction(g) /\ SumFunction(e) = e[c] + SumFunction(g)
    BY <1>4, <1>5, <1>8, SumStep
  <1>10. SumFunction(f) \in Int /\ SumFunction(e) \in Int /\ SumFunction(g) \in Int
    <2>1. IsFiniteSet(R \ {c}) /\ g \in [R \ {c} -> Int]
      BY <1>5, <1>8, FS_Subset
    <2>2. PICK Q : Q = R \ {c}
      OBVIOUS
    <2>3. SumFunction(g) \in Int
      BY <2>1, <2>2, SumStep
    <2>. QED
      BY <1>5, <2>3, SumStep
  <1>11. PICK s \in Int, t \in Int : s = SumFunction(f) /\ t = SumFunction(e) /\ s <= t
    <2>1. f[c] \in Int /\ e[c] \in Int
      BY <1>4, <1>5
    <2>. QED
      BY <1>6, <1>9, <1>10, <2>1
  <1>12. Label(s, Cardinality(R)) <= Label(t, Cardinality(R))
    BY <1>5, <1>11, LabelGrows
  <1>13. /\ calculateOverallRating(form) = Label(s, Cardinality(R))
         /\ calculateOverallRating(better) = Label(t, Cardinality(R))
    BY <1>1, <1>4, <1>11, OverallIsLabel
  <1>. QED
    BY <1>1, <1>12, <1>13

LEMMA RatingsAreFair ==
  ASSUME NULL \notin 1..5, NEW form \in [Categories -> 1..5 \cup {NULL}]
  PROVE  RatingIsFair(form)
  <1>1. PICK R, f, n, rated :
          /\ R = Rates(form) /\ f = Scores(form) /\ n = Cardinality(R)
          /\ rated = {form[c] : c \in Categories} \ {NULL}
    OBVIOUS
  <1>2. SUFFICES ASSUME rated # {}
                 PROVE  /\ rated \subseteq {4, 5} => calculateOverallRating(form) \in {4, 5}
                        /\ rated \subseteq {1, 2} => calculateOverallRating(form) = 2
    BY <1>1, BetterRating, Zenon DEF RatingIsFair
  <1>3. R # {} /\ \A c \in R : form[c] \in rated
    BY <1>1, <1>2 DEF Rates
  <1>4. IsFiniteSet(R) /\ f \in [R -> Int]
    <2>1. IsFiniteSet(R) /\ f \in [R -> 1..4]
      BY <1>1, ScoresAre
    <2>. QED
      BY <2>1
  <1>5. n \in Nat \ {0}
    BY <1>1, <1>3, <1>4, FS_CardinalityType, FS_EmptySet
  <1>6. PICK s \in Int : s = SumFunction(f)
    BY <1>4, SumStep
  <1>7. calculateOverallRating(form) = Label(s, n)
    BY <1>1, <1>3, <1>6, OverallIsLabel
  <1>8. ASSUME rated \subseteq {4, 5}
        PROVE  calculateOverallRating(form) \in {4, 5}
    <2>1. ASSUME NEW c \in R
          PROVE  f[c] >= 3
      <3>1. f[c] = toScore(form[c]) /\ form[c] \in {4, 5}
        BY <1>1, <1>3, <1>8 DEF Scores
      <3>. QED
        BY <3>1 DEF toScore
    <2>2. Threefold(s, n)
      BY <1>1, <1>4, <1>6, <2>1, SumOfHighScores
    <2>. QED
      BY <1>5, <1>7, <2>2 DEF Threefold, Label
  <1>9. ASSUME rated \subseteq {1, 2}
        PROVE  calculateOverallRating(form) = 2
    <2>1. \A c \in R : f[c] = 1
      <3>1. ASSUME NEW c \in R
            PROVE  f[c] = 1
        <4>1. f[c] = toScore(form[c]) /\ form[c] \in {1, 2}
          BY <1>1, <1>3, <1>9 DEF Scores
        <4>. QED
          BY <4>1 DEF toScore
      <3>. QED
        BY <3>1
    <2>2. f = [c \in R |-> 1]
      BY <1>4, <2>1
    <2>3. s = n
      BY <1>1, <1>4, <1>6, <2>2, CountIsSum
    <2>. QED
      BY <1>5, <1>7, <2>3 DEF Label
  <1>. QED
    BY <1>8, <1>9

-----------------------------------------------------------------------------
(* All figures of the feedback. *)

(* Whatever feedback was given, of however many branches and over however  *)
(* long a time, what analytics.service.ts, dashboard.service.ts,           *)
(* reports.service.ts and feedback.service.ts make of it agrees, and       *)
(* feedback.rating.ts is fair to every form.                               *)
THEOREM FiguresOfFeedbackAgree == FeedbackSpec => []FeedbackFiguresAgree
  <1>1. Typed => FeedbackFiguresAgree
    <2>1. \A form \in [Categories -> 1..5 \cup {NULL}] : RatingIsFair(form)
      BY FeedbackAssumption, FeedbackConstants, RatingsAreFair
    <2>2. Typed => /\ RatingsAgree /\ PeriodsAgree /\ BranchesAgree /\ ListsAgree
                   /\ PercentagesAgree
      BY FeedbackAssumption, RatingsHold, PeriodsHold, BranchesHold, ListsHold, PercentagesHold
    <2>. QED
      BY <2>1, <2>2, Zenon DEF FeedbackFiguresAgree
  <1>. QED
    BY <1>1, AlwaysTyped, PTL

=============================================================================
