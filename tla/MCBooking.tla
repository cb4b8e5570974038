------------------------------ MODULE MCBooking ------------------------------
(* Values of the constants for the runs on Booking. *)
EXTENDS BookingRefinement, TLC

CONSTANTS b1, b2, r1, r2, admin, mgr, dhanmondi, gulshan

TwoUsers == {admin, mgr}
OneBranch == {dhanmondi}
TwoBranches == {dhanmondi, gulshan}
ManagerHome == [m \in Managers |-> dhanmondi]

AllOperations == {"create", "update", "delete", "adjust", "actual", "status"}
PaxAndCloseOperations == {"create", "adjust", "status"}
LifecycleOperations == {"create", "update", "delete", "actual", "status"}

UpAndDown == {-1, 2}
Down == {-1}

(* Request slots are interchangeable; sound in the runs without liveness   *)
(* properties.                                                             *)
SlotSymmetry == Permutations(Requests)

=============================================================================
