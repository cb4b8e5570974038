---------------------------- MODULE MCGuestOffers ----------------------------
(* Values of the constants for the runs on GuestOffers. *)
EXTENDS GuestOffers, TLC

CONSTANTS x1, r1, r2, super, coo, mgr, dhanmondi, gulshan

ManagerHome == [m \in Managers |-> dhanmondi]

(* Slots are interchangeable; a run uses it only where it checks no        *)
(* liveness.                                                               *)
SlotSymmetry == Permutations(Requests)

=============================================================================
