---------------------------- MODULE BookingLogic ----------------------------
(***************************************************************************)
(* The pure rules of the booking module (booking.logic.ts): the status     *)
(* table and the arithmetic of the pax ledger.  Nothing here has state.    *)
(***************************************************************************)
EXTENDS Integers, Sequences, SequencesExt

Statuses == {"TENTATIVE", "CONFIRMED", "CANCELLED", "COMPLETED"}

(* The statuses the service refuses to edit, delete or adjust. *)
Closed == {"CANCELLED", "COMPLETED"}

AllowedTransitions ==
  [s \in Statuses |->
     CASE s = "TENTATIVE" -> {"CONFIRMED", "CANCELLED"}
       [] s = "CONFIRMED" -> {"CANCELLED", "COMPLETED"}
       [] OTHER           -> {}]

isValidStatusTransition(from, to) == to \in AllowedTransitions[from]

(* A ledger entry carries its signed quantity as delta: quantity for an    *)
(* INCREASE, -quantity for a DECREASE.                                     *)
computeExpectedPax(initialPax, adjustments) ==
  FoldLeft(LAMBDA sum, adj : sum + adj.delta, initialPax, adjustments)

(* none stands for an actual pax that was not entered. *)
computePaxSummary(initialPax, adjustments, actualPax, none) ==
  LET up == FoldLeft(LAMBDA sum, adj : IF adj.delta > 0 THEN sum + adj.delta ELSE sum,
                     0, adjustments)
      down == FoldLeft(LAMBDA sum, adj : IF adj.delta < 0 THEN sum - adj.delta ELSE sum,
                       0, adjustments)
      expected == initialPax + up - down
  IN  [expectedPax |-> expected, totalIncrease |-> up, totalDecrease |-> down,
       variance |-> IF actualPax = none THEN none ELSE actualPax - expected]

(* buildWarningsForBooking: the codes it warns with; dayDiff counts from   *)
(* today to the party, none stands for what is not known.                  *)
buildWarningsForBooking(b, dayDiff, branchCapacity, none) ==
  {code \in {"TENTATIVE_TOMORROW", "PAX_INCREASED_SIGNIFICANTLY", "EXCEEDS_CAPACITY",
             "ACTUAL_PAX_MISSING", "ACTUAL_PAX_HIGHER"} :
     CASE code = "TENTATIVE_TOMORROW" -> b.status = "TENTATIVE" /\ dayDiff = 1
       [] code = "PAX_INCREASED_SIGNIFICANTLY" ->
            b.initialPax > 0 /\ 2 * b.expectedPax >= 3 * b.initialPax /\ b.status # "CANCELLED"
       [] code = "EXCEEDS_CAPACITY" ->
            /\ branchCapacity # none /\ b.status # "CANCELLED"
            /\ b.expectedPax > branchCapacity
       [] code = "ACTUAL_PAX_MISSING" ->
            b.actualPax = none /\ dayDiff < 0 /\ b.status \in {"CONFIRMED", "COMPLETED"}
       [] code = "ACTUAL_PAX_HIGHER" ->
            b.actualPax # none /\ b.expectedPax > 0 /\ 5 * b.actualPax >= 6 * b.expectedPax}

=============================================================================
