---------------------------- MODULE MCLiveViews ----------------------------
(* Values of the constants for the run on LiveViews. *)
EXTENDS LiveViews, TLC

CONSTANTS p1, b1, b2, ana

(* The feed of the admins and the count on a manager's bell. *)
TwoKeys == {[kind |-> "list", scope |-> "all"], [kind |-> "unread", scope |-> b1]}

ManagerOfB1 == [c \in Clients |-> b1]
OneHub == [c \in Clients |-> p1]

=============================================================================
