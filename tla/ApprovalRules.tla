---------------------------- MODULE ApprovalRules ----------------------------
(***************************************************************************)
(* What the approval workflow promises for a record (a daily report, a     *)
(* discount or an entertainment log), each operation one atomic step.      *)
(***************************************************************************)
CONSTANTS
  Records,
  Renewable  \* TRUE: a rejected record can be resubmitted, a deleted one revived

VARIABLES status, removed

Statuses == {"PENDING", "APPROVED", "REJECTED"}

Init ==
  /\ status = [x \in Records |-> "NONE"]
  /\ removed = [x \in Records |-> FALSE]

Submit(x) ==
  /\ status[x] = "NONE"
  /\ status' = [status EXCEPT ![x] = "PENDING"]
  /\ UNCHANGED removed

(* A rejection can be revised, an approval is final. *)
Decide(x) ==
  \E verdict \in {"APPROVED", "REJECTED"} :
    /\ status[x] \in {"PENDING", "REJECTED"}
    /\ ~removed[x]
    /\ status' = [status EXCEPT ![x] = verdict]
    /\ UNCHANGED removed

Resubmit(x) ==
  /\ Renewable
  /\ status[x] = "REJECTED"
  /\ ~removed[x]
  /\ status' = [status EXCEPT ![x] = "PENDING"]
  /\ UNCHANGED removed

Remove(x) ==
  /\ status[x] # "NONE"
  /\ ~removed[x]
  /\ removed' = [removed EXCEPT ![x] = TRUE]
  /\ UNCHANGED status

Revive(x) ==
  /\ Renewable
  /\ removed[x]
  /\ status' = [status EXCEPT ![x] = "PENDING"]
  /\ removed' = [removed EXCEPT ![x] = FALSE]

Next ==
  \E x \in Records :
    Submit(x) \/ Decide(x) \/ Resubmit(x) \/ Remove(x) \/ Revive(x)

Spec == Init /\ [][Next]_<<status, removed>>

=============================================================================
