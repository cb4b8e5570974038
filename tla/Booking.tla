------------------------------- MODULE Booking -------------------------------
(***************************************************************************)
(* The write side of the booking module (booking.service.ts).              *)
(*                                                                         *)
(* A handler is an async function: it reads the booking, checks its rules  *)
(* in JavaScript and then issues a write.  Other handlers run between the  *)
(* two database calls.  Every handler is therefore split at its awaits:    *)
(* a "Begin" action is the guard read with every early return of the       *)
(* handler (a request that a guard rejects changes nothing, so it is no    *)
(* step), and the later actions are the writes, which test only what the   *)
(* code's WHERE clause tests.  task[r] is the local state of the handler   *)
(* running in slot r.                                                      *)
(***************************************************************************)
EXTENDS BookingLogic

CONSTANTS
  Bookings,        \* booking ids the table can hand out
  Users,           \* users whose role may write bookings
  Managers,        \* the users whose role is BRANCH_MANAGER
  Branches,        \* branch ids
  ActiveBranches,  \* branches that exist, are active and not deleted
  Home,            \* Home[m]: the branch manager m is assigned to
  Requests,        \* slots for handlers in flight at the same time
  Operations,      \* the operations clients call
  NumberSuffixes,  \* values of the random part of a booking number
  InitialPaxes,    \* initialPax values clients send
  Deltas,          \* signed adjustment quantities clients send
  ActualPaxes,     \* actualPax values clients send
  MaxDay,          \* bound: the last day of the behaviour
  MaxAdjustments,  \* bound: ledger length beyond which no adjustment begins
  MaxFailures,     \* bound: requests that die before their last write
  NULL             \* SQL NULL

ASSUME BookingAssumption ==
  /\ Managers \subseteq Users
  /\ Home \in [Managers -> Branches]
  /\ ActiveBranches \subseteq Branches
  /\ InitialPaxes \subseteq Nat \ {0}
  /\ Deltas \subseteq Int \ {0}
  /\ ActualPaxes \subseteq Nat
  /\ MaxDay \in Nat
  /\ MaxAdjustments \in Nat
  /\ MaxFailures \in Nat
  /\ NULL \notin Users
  /\ NULL \notin Nat

VARIABLES
  row,       \* row[b]: the row of table bookings with id b
  ledger,    \* ledger[b]: its rows of booking_pax_adjustments, oldest first
  history,   \* history[b]: its rows of booking_status_history, oldest first
  task,      \* task[r]: the handler running in slot r
  today,     \* the current day in Dhaka
  failures   \* requests that have died so far

vars == <<row, ledger, history, task, today, failures>>

Days == 0 .. MaxDay

(* generateBookingNumber: the party date and a random suffix. *)
Numbers == Days \X NumberSuffixes

CreateAttempts == 5
AdjustAttempts == 3

NoRow == [id |-> NULL]

Row == [number : Numbers, branch : Branches, partyDate : Days,
        initialPax : Nat, expectedPax : Int, actualPax : Nat \cup {NULL},
        status : Statuses, isDeleted : BOOLEAN,
        confirmedBy : Users \cup {NULL}, cancelledBy : Users \cup {NULL},
        completedBy : Users \cup {NULL}]

Entry == [delta : Int, previous : Int, new : Int]

Change == [from : Statuses \cup {NULL}, to : Statuses, by : Users]

Idle == [op |-> "idle"]

(* The local state of a handler after its guard read, one shape per handler. *)
InsertTask == [op : {"insert"}, user : Users, branch : Branches, partyDate : Days,
               pax : InitialPaxes, direct : BOOLEAN, attempt : 1 .. CreateAttempts]

UpdateTask == [op : {"update"}, booking : Bookings, partyDate : Days]

DeleteTask == [op : {"delete"}, booking : Bookings]

AdjustTask == [op : {"adjust", "reread", "record"}, booking : Bookings,
               user : Users, delta : Deltas, seen : Int,
               attempt : 1 .. AdjustAttempts]

ActualTask == [op : {"actual"}, booking : Bookings, actualPax : ActualPaxes]

StatusTask == [op : {"status"}, booking : Bookings, user : Users,
               from : Statuses, to : Statuses]

Task == {Idle} \cup InsertTask \cup UpdateTask \cup DeleteTask
          \cup AdjustTask \cup ActualTask \cup StatusTask

TypeOK ==
  /\ row \in [Bookings -> Row \cup {NoRow}]
  /\ ledger \in [Bookings -> Seq(Entry)]
  /\ history \in [Bookings -> Seq(Change)]
  /\ task \in [Requests -> Task]
  /\ today \in Days
  /\ failures \in 0 .. MaxFailures

Init ==
  /\ row = [b \in Bookings |-> NoRow]
  /\ ledger = [b \in Bookings |-> << >>]
  /\ history = [b \in Bookings |-> << >>]
  /\ task = [r \in Requests |-> Idle]
  /\ today = 0
  /\ failures = 0

-----------------------------------------------------------------------------
(* What the guard reads share. *)

Stored(b) == row[b] # NoRow

(* Mutant: the branch check is missing. *)
ReachableAnywhere(u, b) == Stored(b) /\ ~row[b].isDeleted

(* The 404 and the 403 every handler starts with: the booking exists, is   *)
(* not soft-deleted, and a branch manager only reaches their own branch.   *)
Reachable(u, b) ==
  /\ Stored(b)
  /\ ~row[b].isDeleted
  /\ u \in Managers => row[b].branch = Home[u]

resolveBranchScope(u, branch) == u \in Managers => branch = Home[u]

Accept(r, t) ==
  /\ task[r] = Idle
  /\ task' = [task EXCEPT ![r] = t]

Answer(r) == task' = [task EXCEPT ![r] = Idle]

-----------------------------------------------------------------------------
(* createBooking *)

NumberTaken(number) == \E b \in Bookings : Stored(b) /\ row[b].number = number

(* Mutant: a direct confirmation is not stamped. *)
NewRowUnstamped(t, suffix) ==
  [number |-> <<t.partyDate, suffix>>, branch |-> t.branch,
   partyDate |-> t.partyDate, initialPax |-> t.pax, expectedPax |-> t.pax,
   actualPax |-> NULL, status |-> IF t.direct THEN "CONFIRMED" ELSE "TENTATIVE",
   isDeleted |-> FALSE, confirmedBy |-> NULL, cancelledBy |-> NULL,
   completedBy |-> NULL]

NewRow(t, suffix) ==
  [number      |-> <<t.partyDate, suffix>>,
   branch      |-> t.branch,
   partyDate   |-> t.partyDate,
   initialPax  |-> t.pax,
   expectedPax |-> t.pax,
   actualPax   |-> NULL,
   status      |-> IF t.direct THEN "CONFIRMED" ELSE "TENTATIVE",
   isDeleted   |-> FALSE,
   confirmedBy |-> IF t.direct THEN t.user ELSE NULL,
   cancelledBy |-> NULL,
   completedBy |-> NULL]

(* Mutant: a direct confirmation is one history row. *)
NewHistoryInOneRow(t) ==
  <<[from |-> NULL, to |-> IF t.direct THEN "CONFIRMED" ELSE "TENTATIVE",
     by |-> t.user]>>

NewHistory(t) ==
  LET created == [from |-> NULL, to |-> "TENTATIVE", by |-> t.user]
      confirmed == [from |-> "TENTATIVE", to |-> "CONFIRMED", by |-> t.user]
  IN  IF t.direct THEN <<created, confirmed>> ELSE <<created>>

(* Bound: every insert in flight finds one of the finitely many ids free. *)
IdLeft ==
  Cardinality({r \in Requests : task[r].op = "insert"})
    < Cardinality({b \in Bookings : ~Stored(b)})

BeginCreate(r) ==
  \E u \in Users, branch \in ActiveBranches, d \in Days, n \in InitialPaxes,
     direct \in BOOLEAN :
    /\ "create" \in Operations
    /\ IdLeft
    /\ resolveBranchScope(u, branch)
    /\ d >= today
    /\ Accept(r, [op |-> "insert", user |-> u, branch |-> branch,
                  partyDate |-> d, pax |-> n, direct |-> direct, attempt |-> 1])
    /\ UNCHANGED <<row, ledger, history, today, failures>>

InsertBooking(r) ==
  \E b \in Bookings, suffix \in NumberSuffixes :
    /\ task[r].op = "insert"
    /\ ~Stored(b)
    /\ ~NumberTaken(<<task[r].partyDate, suffix>>)
    /\ row' = [row EXCEPT ![b] = NewRow(task[r], suffix)]
    /\ history' = [history EXCEPT ![b] = NewHistory(task[r])]
    /\ Answer(r)
    /\ UNCHANGED <<ledger, today, failures>>

(* Mutant: the attempts are not counted. *)
CollideForever(r) ==
  \E suffix \in NumberSuffixes :
    /\ task[r].op = "insert"
    /\ NumberTaken(<<task[r].partyDate, suffix>>)
    /\ task' = task
    /\ UNCHANGED <<row, ledger, history, today, failures>>

(* The unique index refuses the number (P2002): draw another one, at most  *)
(* CreateAttempts times in all, then answer with the error.                *)
BookingNumberCollides(r) ==
  \E suffix \in NumberSuffixes :
    /\ task[r].op = "insert"
    /\ NumberTaken(<<task[r].partyDate, suffix>>)
    /\ \/ /\ task[r].attempt < CreateAttempts
          /\ task' = [task EXCEPT ![r].attempt = @ + 1]
       \/ /\ task[r].attempt = CreateAttempts
          /\ Answer(r)
    /\ UNCHANGED <<row, ledger, history, today, failures>>

-----------------------------------------------------------------------------
(* updateBooking: of the editable columns only the party date is read by   *)
(* another rule, so it stands for them all.                                *)

BeginUpdate(r) ==
  \E u \in Users, b \in Bookings, d \in Days :
    /\ "update" \in Operations
    /\ Reachable(u, b)
    /\ row[b].status \notin Closed
    /\ d >= today
    /\ Accept(r, [op |-> "update", booking |-> b, partyDate |-> d])
    /\ UNCHANGED <<row, ledger, history, today, failures>>

WriteUpdate(r) ==
  /\ task[r].op = "update"
  /\ row' = [row EXCEPT ![task[r].booking].partyDate = task[r].partyDate]
  /\ Answer(r)
  /\ UNCHANGED <<ledger, history, today, failures>>

-----------------------------------------------------------------------------
(* deleteBooking: a soft delete. *)

BeginDelete(r) ==
  \E u \in Users, b \in Bookings :
    /\ "delete" \in Operations
    /\ Reachable(u, b)
    /\ row[b].status \notin Closed
    /\ Accept(r, [op |-> "delete", booking |-> b])
    /\ UNCHANGED <<row, ledger, history, today, failures>>

WriteDelete(r) ==
  /\ task[r].op = "delete"
  /\ row' = [row EXCEPT ![task[r].booking].isDeleted = TRUE]
  /\ Answer(r)
  /\ UNCHANGED <<ledger, history, today, failures>>

-----------------------------------------------------------------------------
(* addPaxAdjustment: read, compare-and-set on expectedPax, insert the      *)
(* ledger row; a lost compare-and-set reads again, AdjustAttempts times in *)
(* all.  The compare-and-set tests expectedPax only.                       *)

MayAdjust(u, b, delta) ==
  /\ Reachable(u, b)
  /\ row[b].status \notin Closed
  /\ row[b].expectedPax + delta >= 0

BeginAdjust(r) ==
  \E u \in Users, b \in Bookings, delta \in Deltas :
    /\ "adjust" \in Operations
    /\ Len(ledger[b]) < MaxAdjustments
    /\ MayAdjust(u, b, delta)
    /\ Accept(r, [op |-> "adjust", booking |-> b, user |-> u, delta |-> delta,
                  seen |-> row[b].expectedPax, attempt |-> 1])
    /\ UNCHANGED <<row, ledger, history, today, failures>>

(* Mutant: the write does not test expectedPax. *)
BlindSetPax(r) ==
  /\ task[r].op = "adjust"
  /\ row' = [row EXCEPT ![task[r].booking].expectedPax =
               task[r].seen + task[r].delta]
  /\ task' = [task EXCEPT ![r].op = "record"]
  /\ UNCHANGED <<ledger, history, today, failures>>

CompareAndSetPax(r) ==
  /\ task[r].op = "adjust"
  /\ row[task[r].booking].expectedPax = task[r].seen
  /\ row' = [row EXCEPT ![task[r].booking].expectedPax =
               task[r].seen + task[r].delta]
  /\ task' = [task EXCEPT ![r].op = "record"]
  /\ UNCHANGED <<ledger, history, today, failures>>

(* Mutant: one attempt too many. *)
LoseCompareAndSetOnceMore(r) ==
  /\ task[r].op = "adjust"
  /\ row[task[r].booking].expectedPax # task[r].seen
  /\ \/ /\ task[r].attempt <= AdjustAttempts
        /\ task' = [task EXCEPT ![r].op = "reread", ![r].attempt = @ + 1]
     \/ /\ task[r].attempt > AdjustAttempts
        /\ Answer(r)
  /\ UNCHANGED <<row, ledger, history, today, failures>>

LoseCompareAndSet(r) ==
  /\ task[r].op = "adjust"
  /\ row[task[r].booking].expectedPax # task[r].seen
  /\ \/ /\ task[r].attempt < AdjustAttempts
        /\ task' = [task EXCEPT ![r].op = "reread", ![r].attempt = @ + 1]
     \/ /\ task[r].attempt = AdjustAttempts
        /\ Answer(r)
  /\ UNCHANGED <<row, ledger, history, today, failures>>

(* Mutant: a rule that fails on a later read makes the loop read again. *)
RereadPaxForever(r) ==
  /\ task[r].op = "reread"
  /\ MayAdjust(task[r].user, task[r].booking, task[r].delta)
  /\ task' = [task EXCEPT ![r].op = "adjust",
                          ![r].seen = row[task[r].booking].expectedPax]
  /\ UNCHANGED <<row, ledger, history, today, failures>>

RereadPax(r) ==
  /\ task[r].op = "reread"
  /\ \/ /\ MayAdjust(task[r].user, task[r].booking, task[r].delta)
        /\ task' = [task EXCEPT ![r].op = "adjust",
                                ![r].seen = row[task[r].booking].expectedPax]
     \/ /\ ~MayAdjust(task[r].user, task[r].booking, task[r].delta)
        /\ Answer(r)
  /\ UNCHANGED <<row, ledger, history, today, failures>>

RecordAdjustment(r) ==
  LET entry == [delta |-> task[r].delta, previous |-> task[r].seen,
                new |-> task[r].seen + task[r].delta]
  IN  /\ task[r].op = "record"
      /\ ledger' = [ledger EXCEPT ![task[r].booking] = Append(@, entry)]
      /\ Answer(r)
      /\ UNCHANGED <<row, history, today, failures>>

-----------------------------------------------------------------------------
(* setActualPax *)

BeginActualPax(r) ==
  \E u \in Users, b \in Bookings, n \in ActualPaxes :
    /\ "actual" \in Operations
    /\ Reachable(u, b)
    /\ row[b].status \notin {"CANCELLED", "TENTATIVE"}
    /\ Accept(r, [op |-> "actual", booking |-> b, actualPax |-> n])
    /\ UNCHANGED <<row, ledger, history, today, failures>>

WriteActualPax(r) ==
  /\ task[r].op = "actual"
  /\ row' = [row EXCEPT ![task[r].booking].actualPax = task[r].actualPax]
  /\ Answer(r)
  /\ UNCHANGED <<ledger, history, today, failures>>

-----------------------------------------------------------------------------
(* setBookingStatus: the status, its stamp and the history row are one     *)
(* transaction; the history row says what the guard read, not what the     *)
(* write overwrites.                                                       *)

(* Mutant: the completion rule forgets the actual pax. *)
MayCompleteUncounted(b) == row[b].partyDate <= today

(* Mutant: the completion rule forgets the day. *)
MayCompleteEarly(b) == row[b].actualPax # NULL

MayComplete(b) == row[b].actualPax # NULL /\ row[b].partyDate <= today

BeginStatus(r) ==
  \E u \in Users, b \in Bookings, to \in Statuses \ {"TENTATIVE"} :
    /\ "status" \in Operations
    /\ Reachable(u, b)
    /\ isValidStatusTransition(row[b].status, to)
    /\ to = "COMPLETED" => MayComplete(b)
    /\ Accept(r, [op |-> "status", booking |-> b, user |-> u,
                  from |-> row[b].status, to |-> to])
    /\ UNCHANGED <<row, ledger, history, today, failures>>

Stamped(t, old) ==
  CASE t.to = "CONFIRMED" -> [old EXCEPT !.status = t.to, !.confirmedBy = t.user]
    [] t.to = "CANCELLED" -> [old EXCEPT !.status = t.to, !.cancelledBy = t.user]
    [] OTHER              -> [old EXCEPT !.status = t.to, !.completedBy = t.user]

WriteStatus(r) ==
  LET t == task[r]
      change == [from |-> t.from, to |-> t.to, by |-> t.user]
  IN  /\ t.op = "status"
      /\ row' = [row EXCEPT ![t.booking] = Stamped(t, @)]
      /\ history' = [history EXCEPT ![t.booking] = Append(@, change)]
      /\ Answer(r)
      /\ UNCHANGED <<ledger, today, failures>>

-----------------------------------------------------------------------------
(* The world around the handlers. *)

(* A database error or the end of the process while a handler waits for    *)
(* its next call: the rest of the handler never runs.                      *)
RequestDies(r) ==
  /\ task[r] # Idle
  /\ failures < MaxFailures
  /\ failures' = failures + 1
  /\ Answer(r)
  /\ UNCHANGED <<row, ledger, history, today>>

DayPasses ==
  /\ today < MaxDay
  /\ today' = today + 1
  /\ UNCHANGED <<row, ledger, history, task, failures>>

Begin(r) ==
  \/ BeginCreate(r)
  \/ BeginUpdate(r)
  \/ BeginDelete(r)
  \/ BeginAdjust(r)
  \/ BeginActualPax(r)
  \/ BeginStatus(r)

Continue(r) ==
  \/ InsertBooking(r)
  \/ BookingNumberCollides(r)
  \/ WriteUpdate(r)
  \/ WriteDelete(r)
  \/ CompareAndSetPax(r)
  \/ LoseCompareAndSet(r)
  \/ RereadPax(r)
  \/ RecordAdjustment(r)
  \/ WriteActualPax(r)
  \/ WriteStatus(r)

Next ==
  \/ \E r \in Requests : Begin(r) \/ Continue(r) \/ RequestDies(r)
  \/ DayPasses

Spec == Init /\ [][Next]_vars

(* Clients owe nothing; a handler that has begun is driven to its end by   *)
(* the event loop, since every database call settles.                      *)
FairSpec == Spec /\ \A r \in Requests : WF_vars(Continue(r))

-----------------------------------------------------------------------------
(* Safety, under any interleaving of handlers. *)

(* The adjustments whose compare-and-set has succeeded and whose ledger    *)
(* row is not inserted yet.                                                *)
Unrecorded(b) == {r \in Requests : task[r].op = "record" /\ task[r].booking = b}

(* No lost and no doubled adjustment: as long as no handler has died,      *)
(* expectedPax is the initial pax plus every adjustment that won its       *)
(* compare-and-set, recorded or about to be, however adjustments race.     *)
LedgerBalanced ==
  failures = 0 =>
    \A b \in Bookings : Stored(b) =>
      row[b].expectedPax =
        computeExpectedPax(row[b].initialPax, ledger[b])
          + SumFunction([r \in Unrecorded(b) |-> task[r].delta])

(* "Expected pax cannot go below zero" holds of the stored value although  *)
(* the check runs on a value read earlier.                                 *)
PaxNeverNegative ==
  \A b \in Bookings : Stored(b) =>
    /\ row[b].expectedPax >= 0
    /\ \A i \in DOMAIN ledger[b] : ledger[b][i].new >= 0

(* "Enter actual pax before completing the booking" holds of every         *)
(* completed booking, although the check and the write are two calls.      *)
CompletedHasActualPax ==
  \A b \in Bookings :
    Stored(b) /\ row[b].status = "COMPLETED" => row[b].actualPax # NULL

Explains(h, status) ==
  /\ Len(h) > 0
  /\ h[Len(h)].to = status
  /\ h[1].from = NULL /\ h[1].to = "TENTATIVE"
  /\ \A i \in 2 .. Len(h) :
       /\ isValidStatusTransition(h[i].from, h[i].to)
       /\ \E j \in 1 .. i - 1 : h[j].to = h[i].from

(* The status history explains the status: its last row leads to the       *)
(* current status, every row is the creation or an allowed transition, and *)
(* every row starts from a status that an earlier row had reached.         *)
HistoryExplainsStatus ==
  \A b \in Bookings : Stored(b) => Explains(history[b], row[b].status)

Stamp(b, s) ==
  CASE s = "CONFIRMED" -> row[b].confirmedBy
    [] s = "CANCELLED" -> row[b].cancelledBy
    [] OTHER           -> row[b].completedBy

(* confirmedBy, cancelledBy and completedBy name the author of the last    *)
(* history row that reaches that status, and are empty if there is none:   *)
(* the two records of who did what never disagree.                         *)
StampsMatchHistory ==
  \A b \in Bookings : Stored(b) =>
    \A s \in Statuses \ {"TENTATIVE"} :
      LET reached == {i \in DOMAIN history[b] : history[b][i].to = s}
      IN  Stamp(b, s) = IF reached = {} THEN NULL
                        ELSE history[b][Max(reached)].by

(* A branch manager never authors a status change of a booking of another  *)
(* branch, although the branch is checked on an earlier read.              *)
ManagersKeepToTheirBranch ==
  \A b \in Bookings : Stored(b) =>
    \A i \in DOMAIN history[b] :
      history[b][i].by \in Managers => row[b].branch = Home[history[b][i].by]

-----------------------------------------------------------------------------
(* Liveness: every request that begins is answered; the retry loops of     *)
(* createBooking and addPaxAdjustment end.                                 *)
EveryRequestAnswered ==
  \A r \in Requests : task[r] # Idle ~> task[r] = Idle

-----------------------------------------------------------------------------
(* Rules the source states of the program as a whole.                      *)

(* booking.logic.ts: CANCELLED and COMPLETED are terminal.                 *)
ClosedIsTerminal ==
  [][\A b \in Bookings :
       Stored(b) /\ row[b].status \in Closed => row'[b].status = row[b].status]_vars

(* computeExpectedPax: expected pax is the initial pax plus the sum of the *)
(* signed adjustments, whenever nothing is in flight.                      *)
ExpectedPaxIsLedgerSum ==
  (\A r \in Requests : task[r] = Idle) =>
    \A b \in Bookings : Stored(b) =>
      row[b].expectedPax = computeExpectedPax(row[b].initialPax, ledger[b])

=============================================================================
