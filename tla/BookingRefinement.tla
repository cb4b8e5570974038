-------------------------- MODULE BookingRefinement --------------------------
(***************************************************************************)
(* Booking implements PaxCounter under every interleaving, and             *)
(* BookingRules when at most one request is in flight.                     *)
(***************************************************************************)
EXTENDS Booking

counterView == [b \in Bookings |-> IF Stored(b) THEN row[b].expectedPax ELSE NULL]

(* What the rules are about. *)
RuleRow == [status : Statuses, partyDate : Days, expectedPax : Int,
            actualPax : Nat \cup {NULL}, isDeleted : BOOLEAN]

ASSUME RuleRowAssumption == NULL \notin RuleRow

ruleView ==
  [b \in Bookings |->
     IF Stored(b)
     THEN [status |-> row[b].status, partyDate |-> row[b].partyDate,
           expectedPax |-> row[b].expectedPax, actualPax |-> row[b].actualPax,
           isDeleted |-> row[b].isDeleted]
     ELSE NULL]

Counter == INSTANCE PaxCounter WITH counter <- counterView

Rules == INSTANCE BookingRules WITH booking <- ruleView

(* addPaxAdjustment is linearizable: seen through expectedPax, the         *)
(* read / compare-and-set / insert steps of racing adjustments are single  *)
(* steps of a counter, and no other handler moves it.                      *)
ImplementsPaxCounter == Counter!Spec

(* One request at a time, every handler follows the stated rules: closed   *)
(* bookings stay closed, unadjusted and undeleted, none completes before   *)
(* its day or without its actual pax.                                      *)
ImplementsBookingRules == Rules!Spec

=============================================================================
