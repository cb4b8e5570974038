---------------------------- MODULE MCReporting ----------------------------
(* Values of the constants for the run on the reports.  Bookings, feedback *)
(* and operations share no rows, so that a behaviour exercises one of them *)
(* and leaves the others as they begin.                                    *)
EXTENDS BookingReports, OperationsReports, TLC

CONSTANTS k1, k2, k3, dhanmondi, gulshan

Seats == (dhanmondi :> 3) @@ (gulshan :> NULL)

Numbers == (dhanmondi :> 1) @@ (gulshan :> 2)

Booked(br, day, type, status, pax, actual) ==
  [branchId |-> br, partyDate |-> day, partyType |-> type, status |-> status,
   initialPax |-> 2, adjustments |-> IF pax = 2 THEN <<>> ELSE <<[delta |-> pax - 2]>>,
   expectedPax |-> pax, actualPax |-> actual, isDeleted |-> FALSE]

(* No bookings, or two of the month: today's lunch, and another one. *)
FewTables ==
  {[b \in Bookings |-> NULL]} \cup
  {(k1 :> Booked(dhanmondi, 8, "LUNCH", s, 2, NULL)) @@ (k2 :> row) @@ (k3 :> NULL) :
     s \in {"TENTATIVE", "CONFIRMED"},
     row \in {NULL,
              Booked(dhanmondi, 8, "DINNER", "CANCELLED", 4, NULL),
              Booked(gulshan, 9, "DINNER", "CONFIRMED", 4, 2),
              Booked(gulshan, 21, "LUNCH", "COMPLETED", 2, 4)}}

(* A guest of each branch: one displeased, and one who rated only the whole. *)
FewSheets ==
  <<[branchId |-> dhanmondi, overallRating |-> 5,
     form |-> [c \in Categories |-> IF c = "food" THEN 1 ELSE IF c = "event" THEN NULL ELSE 2]],
    [branchId |-> gulshan, overallRating |-> 5, form |-> [c \in Categories |-> NULL]]>>

Log(kind, br, day, status, amount) ==
  [kind |-> kind, branchId |-> br, logDate |-> day, approvalStatus |-> status,
   amount |-> amount, isDeleted |-> FALSE]

(* No logs, or two that tie on the day, to be followed by a third. *)
FewLogs ==
  {[x \in LogIds |-> NULL],
   <<Log("discount", dhanmondi, 0, "PENDING", 1), Log("discount", gulshan, 0, "PENDING", 2), NULL>>}

(* Two days of a branch, and one of another. *)
FewReports ==
  {[x \in ReportIds |->
      [branchId |-> IF x = 3 THEN gulshan ELSE dhanmondi, reportDate |-> x % 2,
       approvalStatus |-> "PENDING", isDeleted |-> gone]] : gone \in BOOLEAN}

TwoComplaints == [c \in {"soup", "bill"} |-> 1]

(* The month before, of a branch or two. *)
FewStatements ==
  {[br \in Venues |-> [m \in Months |->
      IF m = ThisMonth \/ br \notin S THEN NULL
      ELSE [status |-> "LOCKED", lines |-> [i \in DOMAIN GroupOf |-> 2]]]] :
     S \in {{}, {dhanmondi}}}

TwoGroups == <<"plates", "glasses">>

(* The days of the reports there are; the side of operations ends there. *)
SecondDay == DayLength

VARIABLE side

MCInit ==
  /\ BookingInit /\ FeedbackInit /\ OperationsInit
  /\ side \in {"bookings", "feedback", "operations"}
  /\ side # "bookings" <=> booking = [b \in Bookings |-> NULL]
  /\ side # "bookings" => today = 8
  /\ side # "operations" =>
       /\ log = [x \in LogIds |-> NULL]
       /\ \A x \in ReportIds : ~report[x].isDeleted
       /\ \A br \in Venues, m \in Months : statement[br][m] = NULL

MCNext ==
  \/ side = "bookings" /\ BookingNext /\ UNCHANGED <<side, feedbackVars, operationsVars>>
  \/ side = "feedback" /\ FeedbackNext /\ UNCHANGED <<side, bookingVars, operationsVars>>
  \/ /\ side = "operations" /\ OperationsNext /\ UNCHANGED <<side, bookingVars>>
     /\ now' <= SecondDay

=============================================================================
