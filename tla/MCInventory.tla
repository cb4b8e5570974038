----------------------------- MODULE MCInventory -----------------------------
(* Values of the constants for the runs on Inventory. *)
EXTENDS InventoryRefinement, TLC

CONSTANTS i1, i2, r1, r2, admin, mgr, dhanmondi, gulshan

TwoUsers == {admin, mgr}
OneBranch == {dhanmondi}
TwoBranches == {dhanmondi, gulshan}
ManagerHome == [m \in Managers |-> dhanmondi]

AllOperations == {"item", "create", "lines", "status"}
StatementOperations == {"create", "lines", "status"}

Silent == [openingStock |-> NULL, added |-> NULL, brokenLost |-> NULL,
           reject |-> NULL]

(* An initial physical count, a loss of one piece. *)
Opened == [Silent EXCEPT !.openingStock = 1]
Broken == [Silent EXCEPT !.brokenLost = 1]

OpenAndBreak == {Opened, Broken}

(* Request slots are interchangeable; sound in the runs without liveness   *)
(* properties.                                                             *)
SlotSymmetry == Permutations(Requests)

=============================================================================
