---------------------------- MODULE BookingRules ----------------------------
(***************************************************************************)
(* The rules of a booking as the handlers state them, each operation one   *)
(* atomic step on the current row: what a caller may rely on when requests *)
(* for a booking are handled one at a time.                                *)
(***************************************************************************)
EXTENDS Integers

CONSTANTS Bookings, InitialPaxes, Deltas, ActualPaxes, MaxDay, NULL

VARIABLES
  booking,  \* booking[b]: what the rules are about, or NULL before creation
  today

vars == <<booking, today>>

Days == 0 .. MaxDay

Live(b) == booking[b] # NULL /\ ~booking[b].isDeleted

Open(b) == Live(b) /\ booking[b].status \in {"TENTATIVE", "CONFIRMED"}

Init ==
  /\ booking = [b \in Bookings |-> NULL]
  /\ today = 0

Create(b) ==
  \E n \in InitialPaxes, d \in Days, s \in {"TENTATIVE", "CONFIRMED"} :
    /\ booking[b] = NULL
    /\ booking' = [booking EXCEPT ![b] =
         [status |-> s, partyDate |-> d, expectedPax |-> n,
          actualPax |-> NULL, isDeleted |-> FALSE]]
    /\ UNCHANGED today

Reschedule(b) ==
  \E d \in Days :
    /\ Open(b)
    /\ booking' = [booking EXCEPT ![b].partyDate = d]
    /\ UNCHANGED today

Delete(b) ==
  /\ Open(b)
  /\ booking' = [booking EXCEPT ![b].isDeleted = TRUE]
  /\ UNCHANGED today

AdjustPax(b) ==
  \E delta \in Deltas :
    /\ Open(b)
    /\ booking[b].expectedPax + delta >= 0
    /\ booking' = [booking EXCEPT ![b].expectedPax = @ + delta]
    /\ UNCHANGED today

RecordActualPax(b) ==
  \E n \in ActualPaxes :
    /\ Live(b)
    /\ booking[b].status \in {"CONFIRMED", "COMPLETED"}
    /\ booking' = [booking EXCEPT ![b].actualPax = n]
    /\ UNCHANGED today

Become(b, status) ==
  /\ booking' = [booking EXCEPT ![b].status = status]
  /\ UNCHANGED today

Confirm(b) ==
  /\ Live(b)
  /\ booking[b].status = "TENTATIVE"
  /\ Become(b, "CONFIRMED")

Cancel(b) == Open(b) /\ Become(b, "CANCELLED")

Complete(b) ==
  /\ Live(b)
  /\ booking[b].status = "CONFIRMED"
  /\ booking[b].actualPax # NULL
  /\ booking[b].partyDate <= today
  /\ Become(b, "COMPLETED")

DayPasses ==
  /\ today' = today + 1
  /\ today' \in Days
  /\ UNCHANGED booking

Next ==
  \/ \E b \in Bookings :
       \/ Create(b) \/ Reschedule(b) \/ Delete(b)
       \/ AdjustPax(b) \/ RecordActualPax(b)
       \/ Confirm(b) \/ Cancel(b) \/ Complete(b)
  \/ DayPasses

Spec == Init /\ [][Next]_vars

=============================================================================
