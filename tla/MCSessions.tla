----------------------------- MODULE MCSessions -----------------------------
(* Values of the constants for the run on Sessions. *)
EXTENDS Sessions, TLC

CONSTANTS ana, bob, r1, r2

Account(role) == [role |-> role, isActive |-> TRUE, isDeleted |-> FALSE,
                  tokenVersion |-> 0, password |-> 1]

(* ana was seeded; bob is another super admin or not there yet. *)
SeededUsers ==
  {[u \in Users |-> IF u = ana THEN Account("SUPER_ADMIN") ELSE other] :
     other \in {Account("SUPER_ADMIN"), NoRow}}

FewWants ==
  {[kind |-> "create", change |-> [role |-> "ADMIN"]],
   [kind |-> "update", change |-> [role |-> "ADMIN"]],
   [kind |-> "update", change |-> [password |-> 2]],
   [kind |-> "status", change |-> [isActive |-> FALSE]],
   [kind |-> "delete", change |-> [isDeleted |-> TRUE]]}

=============================================================================
