--------------------------- MODULE MCManagerReports ---------------------------
(* Values of the constants for the run on ManagerReports. *)
EXTENDS ManagerReports, TLC

CONSTANTS x1, x2, r1, r2, super, coo, mgr, dhanmondi, gulshan

ManagerHome == [m \in Managers |-> dhanmondi]

(* Request slots are interchangeable, and so are row ids: no code compares  *)
(* two of them.                                                            *)
Symmetry == Permutations(Requests) \cup Permutations(Reports)

=============================================================================
