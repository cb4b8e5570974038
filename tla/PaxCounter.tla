----------------------------- MODULE PaxCounter -----------------------------
(***************************************************************************)
(* What addPaxAdjustment promises of expectedPax: each adjustment takes    *)
(* effect once, in a single step, on the current value, and never below    *)
(* zero; nothing else moves the value.                                     *)
(***************************************************************************)
EXTENDS Integers

CONSTANTS Bookings, InitialPaxes, Deltas, NULL

VARIABLE counter

Init == counter = [b \in Bookings |-> NULL]

Create(b) ==
  /\ counter[b] = NULL
  /\ \E n \in InitialPaxes : counter' = [counter EXCEPT ![b] = n]

Adjust(b) ==
  /\ counter[b] # NULL
  /\ \E delta \in Deltas :
       /\ counter[b] + delta >= 0
       /\ counter' = [counter EXCEPT ![b] = @ + delta]

Next == \E b \in Bookings : Create(b) \/ Adjust(b)

Spec == Init /\ [][Next]_counter

=============================================================================
