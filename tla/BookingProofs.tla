---------------------------- MODULE BookingProofs ----------------------------
(***************************************************************************)
(* Theorems about Booking, for every value of its constants.               *)
(***************************************************************************)
EXTENDS BookingRefinement, BookingLogicProofs, TLAPS

(* A handler that has passed its guard read holds the id of a stored row.  *)
HoldsRow(t) == t.op \notin {"idle", "insert"} => Stored(t.booking)

(* The inductive form of the type invariant: rows are never removed, so    *)
(* the row a handler writes is still there.                                *)
Typed == TypeOK /\ \A r \in Requests : HoldsRow(task[r])

-----------------------------------------------------------------------------
(* Lemmas about the pieces of the state. *)

LEMMA PaxesAreNumbers ==
  /\ \A n \in InitialPaxes : n \in Nat /\ n \in Int
  /\ \A d \in Deltas : d \in Int
  BY BookingAssumption

LEMMA TaskShape ==
  ASSUME NEW t \in Task
  PROVE  /\ t.op = "insert" => t \in InsertTask
         /\ t.op = "update" => t \in UpdateTask
         /\ t.op = "delete" => t \in DeleteTask
         /\ t.op \in {"adjust", "reread", "record"} => t \in AdjustTask
         /\ t.op = "actual" => t \in ActualTask
         /\ t.op = "status" => t \in StatusTask
  BY DEF Task, Idle, InsertTask, UpdateTask, DeleteTask, AdjustTask,
         ActualTask, StatusTask

LEMMA TaskBooking ==
  ASSUME NEW t \in Task, t.op \notin {"idle", "insert"}
  PROVE  t.booking \in Bookings
  BY DEF Task, Idle, InsertTask, UpdateTask, DeleteTask, AdjustTask,
         ActualTask, StatusTask

LEMMA RowShape ==
  ASSUME TypeOK, NEW b \in Bookings
  PROVE  Stored(b) <=> row[b] \in Row
  BY DEF TypeOK, Stored, Row, NoRow

(* One handler moves to another local state, the table is not touched. *)
LEMMA TaskStep ==
  ASSUME Typed, NEW r \in Requests, NEW t \in Task, HoldsRow(t),
         task' = [task EXCEPT ![r] = t],
         UNCHANGED <<row, ledger, history, today, failures>>
  PROVE  Typed'
  BY DEF Typed, TypeOK, HoldsRow, Stored

LEMMA IdleIsTask == Idle \in Task /\ HoldsRow(Idle)
  BY DEF Task, Idle, HoldsRow

(* A handler writes one row and answers or goes on, still about that row. *)
LEMMA RowStep ==
  ASSUME Typed, NEW r \in Requests, NEW t \in Task, HoldsRow(t),
         NEW b \in Bookings, NEW v \in Row,
         row' = [row EXCEPT ![b] = v],
         task' = [task EXCEPT ![r] = t]
  PROVE  /\ row' \in [Bookings -> Row \cup {NoRow}]
         /\ task' \in [Requests -> Task]
         /\ \A s \in Requests : HoldsRow(task[s])'
  <1>1. /\ row' \in [Bookings -> Row \cup {NoRow}]
        /\ task' \in [Requests -> Task]
    BY DEF Typed, TypeOK
  <1>2. \A c \in Bookings : Stored(c) => Stored(c)'
    <2>1. NoRow \notin Row
      BY DEF Row, NoRow
    <2>. QED
      BY <2>1 DEF Typed, TypeOK, Stored
  <1>3. ASSUME NEW s \in Requests
        PROVE  HoldsRow(task[s])'
    <2>1. task'[s].op \notin {"idle", "insert"} =>
            task'[s].booking \in Bookings /\ Stored(task'[s].booking)
      BY TaskBooking DEF Typed, TypeOK, HoldsRow
    <2>. QED
      BY <1>2, <2>1 DEF HoldsRow, Stored
  <1>. QED
    BY <1>1, <1>3

-----------------------------------------------------------------------------
(* Every guard read starts a task that holds a stored row. *)

LEMMA BeginTyped ==
  ASSUME Typed, NEW r \in Requests, Begin(r)
  PROVE  Typed'
  <1>. USE DEF Accept, HoldsRow
  <1>1. CASE BeginCreate(r)
    <2>1. PICK u \in Users, branch \in ActiveBranches, d \in Days,
               n \in InitialPaxes, direct \in BOOLEAN :
            /\ Accept(r, [op |-> "insert", user |-> u, branch |-> branch,
                          partyDate |-> d, pax |-> n, direct |-> direct,
                          attempt |-> 1])
            /\ UNCHANGED <<row, ledger, history, today, failures>>
      BY <1>1 DEF BeginCreate
    <2>2. [op |-> "insert", user |-> u, branch |-> branch, partyDate |-> d,
           pax |-> n, direct |-> direct, attempt |-> 1] \in InsertTask
      BY BookingAssumption DEF InsertTask, CreateAttempts
    <2>. QED
      BY <2>1, <2>2, TaskStep DEF Task
  <1>2. CASE BeginUpdate(r)
    BY <1>2, TaskStep DEF BeginUpdate, Reachable, Task, UpdateTask
  <1>3. CASE BeginDelete(r)
    BY <1>3, TaskStep DEF BeginDelete, Reachable, Task, DeleteTask
  <1>4. CASE BeginAdjust(r)
    <2>1. PICK u \in Users, b \in Bookings, delta \in Deltas :
            /\ MayAdjust(u, b, delta)
            /\ Accept(r, [op |-> "adjust", booking |-> b, user |-> u,
                          delta |-> delta, seen |-> row[b].expectedPax,
                          attempt |-> 1])
            /\ UNCHANGED <<row, ledger, history, today, failures>>
      BY <1>4 DEF BeginAdjust
    <2>2. Stored(b) /\ row[b] \in Row
      BY <2>1, RowShape DEF MayAdjust, Reachable, Typed
    <2>3. [op |-> "adjust", booking |-> b, user |-> u, delta |-> delta,
           seen |-> row[b].expectedPax, attempt |-> 1] \in AdjustTask
      BY <2>2, BookingAssumption DEF AdjustTask, AdjustAttempts, Row
    <2>. QED
      BY <2>1, <2>2, <2>3, TaskStep DEF Task
  <1>5. CASE BeginActualPax(r)
    BY <1>5, BookingAssumption, TaskStep
    DEF BeginActualPax, Reachable, Task, ActualTask
  <1>6. CASE BeginStatus(r)
    <2>1. PICK u \in Users, b \in Bookings, to \in Statuses :
            /\ Reachable(u, b)
            /\ Accept(r, [op |-> "status", booking |-> b, user |-> u,
                          from |-> row[b].status, to |-> to])
            /\ UNCHANGED <<row, ledger, history, today, failures>>
      BY <1>6 DEF BeginStatus
    <2>2. Stored(b) /\ row[b] \in Row
      BY <2>1, RowShape DEF Reachable, Typed
    <2>3. [op |-> "status", booking |-> b, user |-> u,
           from |-> row[b].status, to |-> to] \in StatusTask
      BY <2>2 DEF StatusTask, Row
    <2>. QED
      BY <2>1, <2>2, <2>3, TaskStep DEF Task
  <1>. QED
    BY <1>1, <1>2, <1>3, <1>4, <1>5, <1>6 DEF Begin

-----------------------------------------------------------------------------
(* Every later step of a handler. *)

LEMMA InsertTyped ==
  ASSUME Typed, NEW r \in Requests, InsertBooking(r)
  PROVE  Typed'
  <1>1. PICK b \in Bookings, suffix \in NumberSuffixes :
          /\ task[r].op = "insert"
          /\ row' = [row EXCEPT ![b] = NewRow(task[r], suffix)]
          /\ history' = [history EXCEPT ![b] = NewHistory(task[r])]
          /\ task' = [task EXCEPT ![r] = Idle]
          /\ UNCHANGED <<ledger, today, failures>>
    BY DEF InsertBooking, Answer
  <1>2. task[r] \in InsertTask
    BY <1>1, TaskShape DEF Typed, TypeOK
  <1>3. NewRow(task[r], suffix) \in Row
    <2>1. task[r].pax \in Nat /\ task[r].pax \in Int
      <3>1. task[r].pax \in InitialPaxes
        BY <1>2 DEF InsertTask
      <3>. QED
        BY <3>1, PaxesAreNumbers
    <2>2. /\ task[r].user \in Users
          /\ task[r].branch \in Branches
          /\ task[r].partyDate \in Days
      BY <1>2 DEF InsertTask
    <2>. QED
      BY <2>1, <2>2 DEF NewRow, Row, Numbers, Statuses
  <1>4. NewHistory(task[r]) \in Seq(Change)
    <2>1. /\ [from |-> NULL, to |-> "TENTATIVE", by |-> task[r].user] \in Change
          /\ [from |-> "TENTATIVE", to |-> "CONFIRMED", by |-> task[r].user]
                \in Change
      BY <1>2 DEF InsertTask, Change, Statuses
    <2>. QED
      BY <2>1 DEF NewHistory
  <1>. QED
    BY <1>1, <1>3, <1>4, RowStep, IdleIsTask DEF Typed, TypeOK

LEMMA CollideTyped ==
  ASSUME Typed, NEW r \in Requests, BookingNumberCollides(r)
  PROVE  Typed'
  <1>1. task[r] \in InsertTask
    BY TaskShape DEF Typed, TypeOK, BookingNumberCollides
  <1>2. CASE /\ task[r].attempt < CreateAttempts
             /\ task' = [task EXCEPT ![r].attempt = @ + 1]
    <2>1. [task[r] EXCEPT !.attempt = @ + 1] \in InsertTask
      BY <1>1, <1>2 DEF InsertTask, CreateAttempts
    <2>2. HoldsRow([task[r] EXCEPT !.attempt = @ + 1])
      BY <2>1 DEF HoldsRow, InsertTask
    <2>. QED
      BY <1>2, <2>1, <2>2, TaskStep DEF Task, BookingNumberCollides
  <1>3. CASE Answer(r)
    BY <1>3, TaskStep, IdleIsTask DEF BookingNumberCollides, Answer
  <1>. QED
    BY <1>2, <1>3 DEF BookingNumberCollides

LEMMA UpdateTyped ==
  ASSUME Typed, NEW r \in Requests, WriteUpdate(r)
  PROVE  Typed'
  <1>1. task[r] \in UpdateTask /\ Stored(task[r].booking)
    BY TaskShape DEF Typed, TypeOK, HoldsRow, WriteUpdate
  <1>2. [row[task[r].booking] EXCEPT !.partyDate = task[r].partyDate] \in Row
    <2>1. /\ row[task[r].booking] \in Row
          /\ task[r].partyDate \in Days
      BY <1>1, RowShape DEF Typed, UpdateTask
    <2>. QED
      BY <2>1 DEF Row
  <1>. QED
    BY <1>1, <1>2, RowStep, IdleIsTask
    DEF WriteUpdate, Answer, UpdateTask, Typed, TypeOK

LEMMA DeleteTyped ==
  ASSUME Typed, NEW r \in Requests, WriteDelete(r)
  PROVE  Typed'
  <1>1. task[r] \in DeleteTask /\ Stored(task[r].booking)
    BY TaskShape DEF Typed, TypeOK, HoldsRow, WriteDelete
  <1>2. [row[task[r].booking] EXCEPT !.isDeleted = TRUE] \in Row
    <2>1. row[task[r].booking] \in Row
      BY <1>1, RowShape DEF Typed, DeleteTask
    <2>. QED
      BY <2>1 DEF Row
  <1>. QED
    BY <1>1, <1>2, RowStep, IdleIsTask
    DEF WriteDelete, Answer, DeleteTask, Typed, TypeOK

LEMMA SetPaxTyped ==
  ASSUME Typed, NEW r \in Requests, CompareAndSetPax(r)
  PROVE  Typed'
  <1>1. task[r] \in AdjustTask /\ Stored(task[r].booking)
    BY TaskShape DEF Typed, TypeOK, HoldsRow, CompareAndSetPax
  <1>2. [row[task[r].booking] EXCEPT !.expectedPax = task[r].seen + task[r].delta]
          \in Row
    BY <1>1, RowShape, BookingAssumption DEF Typed, AdjustTask, Row
  <1>3. /\ [task[r] EXCEPT !.op = "record"] \in Task
        /\ HoldsRow([task[r] EXCEPT !.op = "record"])
    BY <1>1 DEF AdjustTask, HoldsRow, Task
  <1>. QED
    BY <1>1, <1>2, <1>3, RowStep
    DEF CompareAndSetPax, AdjustTask, Typed, TypeOK

LEMMA LosePaxTyped ==
  ASSUME Typed, NEW r \in Requests, LoseCompareAndSet(r)
  PROVE  Typed'
  <1>1. task[r] \in AdjustTask /\ Stored(task[r].booking)
    BY TaskShape DEF Typed, TypeOK, HoldsRow, LoseCompareAndSet
  <1>2. CASE /\ task[r].attempt < AdjustAttempts
             /\ task' = [task EXCEPT ![r].op = "reread", ![r].attempt = @ + 1]
    <2>. DEFINE t == [task[r] EXCEPT !.op = "reread", !.attempt = @ + 1]
    <2>1. t \in AdjustTask /\ HoldsRow(t)
      <3>1. task[r].attempt + 1 \in 1 .. AdjustAttempts
        BY <1>1, <1>2 DEF AdjustTask, AdjustAttempts
      <3>. QED
        BY <1>1, <3>1 DEF AdjustTask, HoldsRow
    <2>2. task' = [task EXCEPT ![r] = t]
      BY <1>1, <1>2 DEF Typed, TypeOK
    <2>. QED
      BY <2>1, <2>2, TaskStep DEF Task, LoseCompareAndSet
  <1>3. CASE Answer(r)
    BY <1>3, TaskStep, IdleIsTask DEF LoseCompareAndSet, Answer
  <1>. QED
    BY <1>2, <1>3 DEF LoseCompareAndSet

LEMMA RereadTyped ==
  ASSUME Typed, NEW r \in Requests, RereadPax(r)
  PROVE  Typed'
  <1>1. task[r] \in AdjustTask /\ Stored(task[r].booking)
    BY TaskShape DEF Typed, TypeOK, HoldsRow, RereadPax
  <1>2. CASE task' = [task EXCEPT ![r].op = "adjust",
                                  ![r].seen = row[task[r].booking].expectedPax]
    <2>. DEFINE t == [task[r] EXCEPT !.op = "adjust",
                                     !.seen = row[task[r].booking].expectedPax]
    <2>1. row[task[r].booking].expectedPax \in Int
      BY <1>1, RowShape DEF Typed, AdjustTask, Row
    <2>2. t \in AdjustTask /\ HoldsRow(t)
      BY <1>1, <2>1 DEF AdjustTask, HoldsRow
    <2>3. task' = [task EXCEPT ![r] = t]
      BY <1>1, <1>2 DEF Typed, TypeOK
    <2>. QED
      BY <2>2, <2>3, TaskStep DEF Task, RereadPax
  <1>3. CASE Answer(r)
    BY <1>3, TaskStep, IdleIsTask DEF RereadPax, Answer
  <1>. QED
    BY <1>2, <1>3 DEF RereadPax

LEMMA RecordTyped ==
  ASSUME Typed, NEW r \in Requests, RecordAdjustment(r)
  PROVE  Typed'
  <1>1. task[r] \in AdjustTask
    BY TaskShape DEF Typed, TypeOK, RecordAdjustment
  <1>2. [delta |-> task[r].delta, previous |-> task[r].seen,
         new |-> task[r].seen + task[r].delta] \in Entry
    <2>1. task[r].delta \in Int /\ task[r].seen \in Int
      BY <1>1, BookingAssumption DEF AdjustTask
    <2>. QED
      BY <2>1 DEF Entry
  <1>3. ledger' \in [Bookings -> Seq(Entry)]
    BY <1>1, <1>2 DEF RecordAdjustment, AdjustTask, Typed, TypeOK
  <1>. QED
    BY <1>3, IdleIsTask
    DEF RecordAdjustment, Answer, Typed, TypeOK, HoldsRow, Stored

LEMMA ActualTyped ==
  ASSUME Typed, NEW r \in Requests, WriteActualPax(r)
  PROVE  Typed'
  <1>1. task[r] \in ActualTask /\ Stored(task[r].booking)
    BY TaskShape DEF Typed, TypeOK, HoldsRow, WriteActualPax
  <1>2. [row[task[r].booking] EXCEPT !.actualPax = task[r].actualPax] \in Row
    BY <1>1, RowShape, BookingAssumption DEF Typed, ActualTask, Row
  <1>. QED
    BY <1>1, <1>2, RowStep, IdleIsTask
    DEF WriteActualPax, Answer, ActualTask, Typed, TypeOK

LEMMA StatusTyped ==
  ASSUME Typed, NEW r \in Requests, WriteStatus(r)
  PROVE  Typed'
  <1>1. task[r] \in StatusTask /\ Stored(task[r].booking)
    BY TaskShape DEF Typed, TypeOK, HoldsRow, WriteStatus
  <1>2. row[task[r].booking] \in Row
    BY <1>1, RowShape DEF Typed, StatusTask
  <1>3. Stamped(task[r], row[task[r].booking]) \in Row
    BY <1>1, <1>2 DEF Stamped, StatusTask, Row
  <1>4. [from |-> task[r].from, to |-> task[r].to, by |-> task[r].user] \in Change
    BY <1>1 DEF StatusTask, Change
  <1>5. history' \in [Bookings -> Seq(Change)]
    BY <1>1, <1>4 DEF WriteStatus, StatusTask, Typed, TypeOK
  <1>. QED
    BY <1>1, <1>3, <1>5, RowStep, IdleIsTask
    DEF WriteStatus, Answer, StatusTask, Typed, TypeOK

LEMMA ContinueTyped ==
  ASSUME Typed, NEW r \in Requests, Continue(r)
  PROVE  Typed'
  BY InsertTyped, CollideTyped, UpdateTyped, DeleteTyped, SetPaxTyped,
     LosePaxTyped, RereadTyped, RecordTyped, ActualTyped, StatusTyped
  DEF Continue

LEMMA DiesTyped ==
  ASSUME Typed, NEW r \in Requests, RequestDies(r)
  PROVE  Typed'
  BY IdleIsTask, BookingAssumption
  DEF RequestDies, Answer, Typed, TypeOK, HoldsRow, Stored

LEMMA NextTyped == Typed /\ [Next]_vars => Typed'
  <1>. SUFFICES ASSUME Typed, [Next]_vars
                PROVE  Typed'
    OBVIOUS
  <1>1. CASE DayPasses
    BY <1>1, BookingAssumption
    DEF DayPasses, Typed, TypeOK, HoldsRow, Stored, Days
  <1>2. CASE UNCHANGED vars
    BY <1>2 DEF vars, Typed, TypeOK, HoldsRow, Stored
  <1>. QED
    BY <1>1, <1>2, BeginTyped, ContinueTyped, DiesTyped DEF Next

LEMMA InitTyped == Init => Typed
  BY BookingAssumption
  DEF Init, Typed, TypeOK, Task, Idle, HoldsRow, NoRow, Days

LEMMA AlwaysTyped == Spec => []Typed
  BY InitTyped, NextTyped, PTL DEF Spec

(***************************************************************************)
(* Every row, ledger row, history row and handler state keeps its type,    *)
(* whatever the interleaving of the handlers of booking.service.ts.        *)
(***************************************************************************)
THEOREM TypeCorrect == Spec => []TypeOK
  <1>1. Typed => TypeOK
    BY DEF Typed
  <1>. QED
    BY AlwaysTyped, <1>1, PTL

-----------------------------------------------------------------------------
(* Frames: which handler may change which part of a stored booking. *)

(* A booking's identity is settled by its creation. *)
LEMMA InsertFrame ==
  ASSUME Typed, NEW r \in Requests, InsertBooking(r)
  PROVE  \E b \in Bookings, suffix \in NumberSuffixes :
           /\ task[r] \in InsertTask
           /\ ~Stored(b)
           /\ ~NumberTaken(<<task[r].partyDate, suffix>>)
           /\ row' = [row EXCEPT ![b] = NewRow(task[r], suffix)]
           /\ history' = [history EXCEPT ![b] = NewHistory(task[r])]
           /\ task' = [task EXCEPT ![r] = Idle]
           /\ ledger' = ledger
  BY TaskShape DEF InsertBooking, Answer, Typed, TypeOK

(* The later steps that write a row write one field of it, or the status   *)
(* together with its stamp.                                                *)
LEMMA WriteFrame ==
  ASSUME Typed, NEW r \in Requests, NEW b \in Bookings,
         Stored(b), Continue(r), row'[b] # row[b]
  PROVE  /\ b = task[r].booking
         /\ \/ WriteUpdate(r) /\ row'[b] = [row[b] EXCEPT !.partyDate = task[r].partyDate]
            \/ WriteDelete(r) /\ row'[b] = [row[b] EXCEPT !.isDeleted = TRUE]
            \/ /\ CompareAndSetPax(r)
               /\ row'[b] = [row[b] EXCEPT !.expectedPax = task[r].seen + task[r].delta]
            \/ /\ WriteActualPax(r)
               /\ row'[b] = [row[b] EXCEPT !.actualPax = task[r].actualPax]
            \/ WriteStatus(r) /\ row'[b] = Stamped(task[r], row[b])
  <1>1. CASE InsertBooking(r)
    BY <1>1, InsertFrame DEF Typed, TypeOK
  <1>2. CASE BookingNumberCollides(r)
    BY <1>2 DEF BookingNumberCollides
  <1>3. CASE WriteUpdate(r)
    BY <1>3 DEF WriteUpdate, Typed, TypeOK
  <1>4. CASE WriteDelete(r)
    BY <1>4 DEF WriteDelete, Typed, TypeOK
  <1>5. CASE CompareAndSetPax(r)
    BY <1>5 DEF CompareAndSetPax, Typed, TypeOK
  <1>6. CASE LoseCompareAndSet(r) \/ RereadPax(r) \/ RecordAdjustment(r)
    BY <1>6 DEF LoseCompareAndSet, RereadPax, RecordAdjustment
  <1>7. CASE WriteActualPax(r)
    BY <1>7 DEF WriteActualPax, Typed, TypeOK
  <1>8. CASE WriteStatus(r)
    BY <1>8 DEF WriteStatus, Typed, TypeOK
  <1>. QED
    BY <1>1, <1>2, <1>3, <1>4, <1>5, <1>6, <1>7, <1>8 DEF Continue

(* Steps other than a handler's later steps touch no table. *)
LEMMA QuietFrame ==
  ASSUME [Next]_vars, ~ \E r \in Requests : Continue(r)
  PROVE  UNCHANGED <<row, ledger, history>>
  BY DEF Next, vars, Begin, BeginCreate, BeginUpdate, BeginDelete, BeginAdjust,
         BeginActualPax, BeginStatus, RequestDies, DayPasses

(* A handler's state changes by its own steps only. *)
LEMMA TaskFrame ==
  ASSUME Typed, [Next]_vars, NEW s \in Requests, task'[s] # task[s]
  PROVE  Begin(s) \/ Continue(s) \/ (RequestDies(s) /\ task'[s] = Idle)
  <1>1. PICK r \in Requests : Begin(r) \/ Continue(r) \/ RequestDies(r)
    BY DEF Next, DayPasses, vars
  <1>2. \E t : task' = [task EXCEPT ![r] = t]
    BY <1>1
    DEF Begin, BeginCreate, BeginUpdate, BeginDelete, BeginAdjust,
        BeginActualPax, BeginStatus, Accept, Continue, InsertBooking,
        BookingNumberCollides, WriteUpdate, WriteDelete, CompareAndSetPax,
        LoseCompareAndSet, RereadPax, RecordAdjustment, WriteActualPax,
        WriteStatus, RequestDies, Answer
  <1>3. r = s
    BY <1>2 DEF Typed, TypeOK
  <1>. QED
    BY <1>1, <1>3 DEF RequestDies, Answer, Typed, TypeOK

(* A row appears by an insert only, and starts as createBooking writes it. *)
LEMMA CreateFrame ==
  ASSUME Typed, [Next]_vars, NEW b \in Bookings, ~Stored(b), row'[b] # row[b]
  PROVE  \E r \in Requests, suffix \in NumberSuffixes :
           /\ InsertBooking(r)
           /\ task[r] \in InsertTask
           /\ ~NumberTaken(<<task[r].partyDate, suffix>>)
           /\ row' = [row EXCEPT ![b] = NewRow(task[r], suffix)]
           /\ history' = [history EXCEPT ![b] = NewHistory(task[r])]
           /\ ledger' = ledger
  <1>1. PICK r \in Requests : Continue(r)
    BY QuietFrame
  <1>2. CASE InsertBooking(r)
    BY <1>2, InsertFrame DEF Typed, TypeOK
  <1>3. CASE ~InsertBooking(r)
    <2>1. CASE BookingNumberCollides(r) \/ LoseCompareAndSet(r) \/ RereadPax(r)
               \/ RecordAdjustment(r)
      BY <2>1 DEF BookingNumberCollides, LoseCompareAndSet, RereadPax,
                  RecordAdjustment
    <2>2. CASE WriteUpdate(r) \/ WriteDelete(r) \/ CompareAndSetPax(r)
               \/ WriteActualPax(r) \/ WriteStatus(r)
      <3>1. Stored(task[r].booking)
        BY <2>2 DEF Typed, HoldsRow, WriteUpdate, WriteDelete, CompareAndSetPax,
                    WriteActualPax, WriteStatus
      <3>2. row'[b] = row[b]
        BY <2>2, <3>1 DEF Typed, TypeOK, WriteUpdate, WriteDelete,
                          CompareAndSetPax, WriteActualPax, WriteStatus
      <3>. QED
        BY <3>2
    <2>. QED
      BY <1>1, <1>3, <2>1, <2>2 DEF Continue
  <1>. QED
    BY <1>2, <1>3

(* What kind of task a handler's own step leaves behind. *)
LEMMA BeginOp ==
  ASSUME Typed, NEW s \in Requests, Begin(s)
  PROVE  /\ task'[s].op = "status" => BeginStatus(s)
         /\ task'[s].op \in {"adjust", "record"} => BeginAdjust(s)
  BY DEF Begin, BeginCreate, BeginUpdate, BeginDelete, BeginAdjust,
         BeginActualPax, BeginStatus, Accept, Typed, TypeOK

LEMMA ContinueOp ==
  ASSUME Typed, NEW s \in Requests, Continue(s)
  PROVE  /\ task'[s].op # "status"
         /\ task'[s].op = "adjust" => RereadPax(s)
         /\ task'[s].op = "record" => CompareAndSetPax(s)
         /\ task'[s].op = "insert" => BookingNumberCollides(s)
  <1>1. CASE CompareAndSetPax(s)
    BY <1>1, TaskShape
    DEF CompareAndSetPax, Typed, TypeOK, AdjustTask
  <1>2. CASE LoseCompareAndSet(s)
    BY <1>2, TaskShape
    DEF LoseCompareAndSet, Answer, Idle, Typed, TypeOK, AdjustTask
  <1>3. CASE RereadPax(s)
    <2>1. task[s] \in AdjustTask
      BY <1>3, TaskShape DEF RereadPax, Typed, TypeOK
    <2>2. CASE Answer(s)
      BY <2>2 DEF Answer, Idle, Typed, TypeOK
    <2>3. CASE task' = [task EXCEPT ![s].op = "adjust",
                                    ![s].seen = row[task[s].booking].expectedPax]
      BY <1>3, <2>1, <2>3 DEF Typed, TypeOK, AdjustTask
    <2>. QED
      BY <1>3, <2>2, <2>3 DEF RereadPax
  <1>4. CASE BookingNumberCollides(s)
    <2>1. task'[s].op \in {"insert", "idle"}
      BY <1>4, TaskShape
      DEF BookingNumberCollides, Answer, Idle, Typed, TypeOK, InsertTask
    <2>. QED
      BY <1>4, <2>1
  <1>5. CASE ~(CompareAndSetPax(s) \/ LoseCompareAndSet(s) \/ RereadPax(s)
               \/ BookingNumberCollides(s))
    <2>1. Answer(s)
      BY <1>5 DEF Continue, InsertBooking, WriteUpdate, WriteDelete,
                  RecordAdjustment, WriteActualPax, WriteStatus
    <2>. QED
      BY <2>1 DEF Answer, Idle, Typed, TypeOK
  <1>. QED
    BY <1>1, <1>2, <1>3, <1>4, <1>5

-----------------------------------------------------------------------------
(* CompletedHasActualPax: the check made at the guard read still holds at  *)
(* the write, because actualPax never goes back to NULL.                   *)

CompletionPending(t) == t.op = "status" /\ t.to = "COMPLETED"

Counted ==
  /\ Typed
  /\ CompletedHasActualPax
  /\ \A r \in Requests :
       CompletionPending(task[r]) => row[task[r].booking].actualPax # NULL

LEMMA ActualPaxKept ==
  ASSUME Typed, [Next]_vars, NEW b \in Bookings, Stored(b),
         row[b].actualPax # NULL
  PROVE  row'[b].actualPax # NULL
  <1>1. CASE row'[b] = row[b]
    BY <1>1
  <1>2. CASE row'[b] # row[b]
    <2>1. PICK r \in Requests : Continue(r)
      BY <1>2, QuietFrame
    <2>2. row[b] \in Row
      BY RowShape DEF Typed
    <2>3. Stamped(task[r], row[b]).actualPax = row[b].actualPax
      BY <2>2 DEF Stamped, Row
    <2>4. CASE WriteActualPax(r) /\ row'[b] = [row[b] EXCEPT !.actualPax = task[r].actualPax]
      BY <2>2, <2>4, TaskShape, BookingAssumption
      DEF WriteActualPax, Typed, TypeOK, ActualTask, Row
    <2>. QED
      BY <1>2, <2>1, <2>2, <2>3, <2>4, WriteFrame DEF Row
  <1>. QED
    BY <1>1, <1>2

LEMMA CountedNext == Counted /\ [Next]_vars => Counted'
  <1>. SUFFICES ASSUME Counted, [Next]_vars
                PROVE  Counted'
    OBVIOUS
  <1>1. Typed'
    BY NextTyped DEF Counted
  <1>2. ASSUME NEW b \in Bookings, Stored(b)', row'[b].status = "COMPLETED"
        PROVE  row'[b].actualPax # NULL
    <2>1. CASE row'[b] = row[b]
      BY <1>2, <2>1 DEF Counted, CompletedHasActualPax, Stored
    <2>2. CASE ~Stored(b) /\ row'[b] # row[b]
      <3>1. PICK r \in Requests, suffix \in NumberSuffixes :
              row' = [row EXCEPT ![b] = NewRow(task[r], suffix)]
        BY <2>2, CreateFrame DEF Counted
      <3>2. row'[b] = NewRow(task[r], suffix)
        BY <3>1 DEF Counted, Typed, TypeOK
      <3>. QED
        BY <1>2, <3>2 DEF NewRow
    <2>3. CASE Stored(b) /\ row'[b] # row[b]
      <3>1. PICK r \in Requests : Continue(r)
        BY <2>3, QuietFrame
      <3>2. row[b] \in Row
        BY <2>3, RowShape DEF Counted, Typed
      <3>3. CASE row[b].status = "COMPLETED"
        BY <2>3, <3>3, ActualPaxKept DEF Counted, CompletedHasActualPax
      <3>4. CASE row[b].status # "COMPLETED"
        <4>1. WriteStatus(r) /\ b = task[r].booking
              /\ row'[b] = Stamped(task[r], row[b])
          BY <1>2, <2>3, <3>1, <3>2, <3>4, WriteFrame DEF Counted, Row
        <4>2. CompletionPending(task[r])
          BY <1>2, <3>2, <4>1, TaskShape
          DEF CompletionPending, WriteStatus, Stamped, Row, Counted, Typed,
              TypeOK, StatusTask
        <4>. QED
          BY <2>3, <4>1, <4>2, ActualPaxKept DEF Counted
      <3>. QED
        BY <3>3, <3>4
    <2>. QED
      BY <2>1, <2>2, <2>3
  <1>3. ASSUME NEW s \in Requests, CompletionPending(task'[s])
        PROVE  row'[task'[s].booking].actualPax # NULL
    <2>1. CASE task'[s] = task[s]
      <3>1. Stored(task[s].booking) /\ task[s].booking \in Bookings
        BY <1>3, <2>1, TaskBooking DEF CompletionPending, Counted, Typed, TypeOK, HoldsRow
      <3>. QED
        BY <1>3, <2>1, <3>1, ActualPaxKept DEF Counted
    <2>2. CASE task'[s] # task[s]
      <3>1. BeginStatus(s)
        BY <1>3, <2>2, TaskFrame, BeginOp, ContinueOp
        DEF CompletionPending, Idle, Counted
      <3>. QED
        BY <1>3, <3>1
        DEF BeginStatus, MayComplete, Accept, CompletionPending, Counted,
            Typed, TypeOK
    <2>. QED
      BY <2>1, <2>2
  <1>. QED
    BY <1>1, <1>2, <1>3 DEF Counted, CompletedHasActualPax, CompletionPending

(***************************************************************************)
(* "Enter actual pax before completing the booking": no interleaving       *)
(* leaves a completed booking without its actual pax.                      *)
(***************************************************************************)
THEOREM CompletedIsCounted == Spec => []CompletedHasActualPax
  <1>1. Init => Counted
    BY InitTyped
    DEF Init, Counted, CompletedHasActualPax, CompletionPending, Stored, Idle
  <1>2. Counted => CompletedHasActualPax
    BY DEF Counted
  <1>. QED
    BY <1>1, CountedNext, <1>2, PTL DEF Spec

-----------------------------------------------------------------------------
(* PaxNeverNegative: a compare-and-set that succeeds writes exactly what   *)
(* the guard read approved.                                                *)

PaxSafe ==
  /\ Typed
  /\ \A b \in Bookings : Stored(b) => row[b].expectedPax >= 0
  /\ \A b \in Bookings : \A i \in DOMAIN ledger[b] : ledger[b][i].new >= 0
  /\ \A r \in Requests : task[r].op \in {"adjust", "record"} =>
       task[r].seen + task[r].delta >= 0

LEMMA PaxSafeRow ==
  ASSUME PaxSafe, [Next]_vars, NEW b \in Bookings, Stored(b)'
  PROVE  row'[b].expectedPax >= 0
  <1>1. CASE row'[b] = row[b]
    BY <1>1 DEF PaxSafe, Stored
  <1>2. CASE ~Stored(b) /\ row'[b] # row[b]
    <2>1. PICK r \in Requests, suffix \in NumberSuffixes :
            /\ task[r] \in InsertTask
            /\ row' = [row EXCEPT ![b] = NewRow(task[r], suffix)]
      BY <1>2, CreateFrame DEF PaxSafe
    <2>2. row'[b] = NewRow(task[r], suffix)
      BY <2>1 DEF PaxSafe, Typed, TypeOK
    <2>3. task[r].pax \in Nat
      BY <2>1, BookingAssumption DEF InsertTask
    <2>. QED
      BY <2>2, <2>3 DEF NewRow
  <1>3. CASE Stored(b) /\ row'[b] # row[b]
    <2>1. PICK r \in Requests : Continue(r)
      BY <1>3, QuietFrame
    <2>2. row[b] \in Row
      BY <1>3, RowShape DEF PaxSafe, Typed
    <2>3. Stamped(task[r], row[b]).expectedPax = row[b].expectedPax
      BY <2>2 DEF Stamped, Row
    <2>4. CASE /\ CompareAndSetPax(r)
               /\ row'[b] = [row[b] EXCEPT !.expectedPax = task[r].seen + task[r].delta]
      BY <2>2, <2>4 DEF CompareAndSetPax, PaxSafe, Row
    <2>. QED
      BY <1>3, <2>1, <2>2, <2>3, <2>4, WriteFrame DEF PaxSafe, Row
  <1>. QED
    BY <1>1, <1>2, <1>3

LEMMA PaxSafeLedger ==
  ASSUME PaxSafe, [Next]_vars, NEW b \in Bookings, NEW i \in DOMAIN ledger'[b]
  PROVE  ledger'[b][i].new >= 0
  <1>1. CASE ledger' = ledger
    BY <1>1 DEF PaxSafe
  <1>2. CASE ledger' # ledger
    <2>1. PICK r \in Requests : RecordAdjustment(r)
      BY <1>2, QuietFrame
      DEF Continue, InsertBooking, BookingNumberCollides, WriteUpdate,
          WriteDelete, CompareAndSetPax, LoseCompareAndSet, RereadPax,
          WriteActualPax, WriteStatus
    <2>. DEFINE e == [delta |-> task[r].delta, previous |-> task[r].seen,
                      new |-> task[r].seen + task[r].delta]
    <2>2. ledger' = [ledger EXCEPT ![task[r].booking] = Append(@, e)]
      BY <2>1 DEF RecordAdjustment
    <2>3. e.new >= 0
      BY <2>1 DEF RecordAdjustment, PaxSafe
    <2>4. ledger[b] \in Seq(Entry) /\ e \in Entry
      BY <2>1, TaskShape, BookingAssumption
      DEF RecordAdjustment, PaxSafe, Typed, TypeOK, AdjustTask, Entry
    <2>5. CASE b # task[r].booking
      BY <2>2, <2>5 DEF PaxSafe, Typed, TypeOK
    <2>6. CASE b = task[r].booking
      <3>1. ledger'[b] = Append(ledger[b], e)
        BY <2>2, <2>6 DEF PaxSafe, Typed, TypeOK
      <3>. HIDE DEF e
      <3>2. i \in 1 .. Len(ledger[b]) \/ i = Len(ledger[b]) + 1
        BY <2>4, <3>1
      <3>3. CASE i \in 1 .. Len(ledger[b])
        BY <2>4, <3>1, <3>3 DEF PaxSafe
      <3>4. CASE i = Len(ledger[b]) + 1
        BY <2>3, <2>4, <3>1, <3>4
      <3>. QED
        BY <3>2, <3>3, <3>4
    <2>. QED
      BY <2>5, <2>6
  <1>. QED
    BY <1>1, <1>2

LEMMA PaxSafeTask ==
  ASSUME PaxSafe, [Next]_vars, NEW s \in Requests,
         task'[s].op \in {"adjust", "record"}
  PROVE  task'[s].seen + task'[s].delta >= 0
  <1>1. CASE task'[s] = task[s]
    BY <1>1 DEF PaxSafe
  <1>2. CASE task'[s] # task[s]
    <2>1. BeginAdjust(s) \/ RereadPax(s) \/ CompareAndSetPax(s)
      BY <1>2, TaskFrame, BeginOp, ContinueOp DEF Idle, PaxSafe
    <2>2. CASE BeginAdjust(s)
      BY <2>2 DEF BeginAdjust, MayAdjust, Accept, PaxSafe, Typed, TypeOK
    <2>3. CASE RereadPax(s)
      <3>1. task[s] \in AdjustTask
        BY <2>3, TaskShape DEF RereadPax, PaxSafe, Typed, TypeOK
      <3>2. task'[s] # Idle
        BY DEF Idle
      <3>3. /\ MayAdjust(task[s].user, task[s].booking, task[s].delta)
            /\ task' = [task EXCEPT ![s].op = "adjust",
                                    ![s].seen = row[task[s].booking].expectedPax]
        BY <2>3, <3>2 DEF RereadPax, Answer, PaxSafe, Typed, TypeOK
      <3>. QED
        BY <3>1, <3>3 DEF MayAdjust, AdjustTask, PaxSafe, Typed, TypeOK
    <2>4. CASE CompareAndSetPax(s)
      <3>1. task[s] \in AdjustTask
        BY <2>4, TaskShape DEF CompareAndSetPax, PaxSafe, Typed, TypeOK
      <3>. QED
        BY <2>4, <3>1 DEF CompareAndSetPax, AdjustTask, PaxSafe, Typed, TypeOK
    <2>. QED
      BY <2>1, <2>2, <2>3, <2>4
  <1>. QED
    BY <1>1, <1>2

LEMMA PaxSafeInit == Init => PaxSafe
  BY InitTyped DEF Init, PaxSafe, Stored, Idle

LEMMA PaxSafeNext == PaxSafe /\ [Next]_vars => PaxSafe'
  <1>. SUFFICES ASSUME PaxSafe, [Next]_vars
                PROVE  PaxSafe'
    OBVIOUS
  <1>1. Typed'
    BY NextTyped DEF PaxSafe
  <1>. QED
    BY <1>1, PaxSafeRow, PaxSafeLedger, PaxSafeTask DEF PaxSafe

(***************************************************************************)
(* "Expected pax cannot go below zero": neither the stored value nor any   *)
(* value in the ledger does, however adjustments race.                     *)
(***************************************************************************)
THEOREM PaxStaysNonNegative == Spec => []PaxNeverNegative
  <1>1. PaxSafe => PaxNeverNegative
    BY DEF PaxSafe, PaxNeverNegative
  <1>. QED
    BY PaxSafeInit, PaxSafeNext, <1>1, PTL DEF Spec

-----------------------------------------------------------------------------
(* ImplementsPaxCounter: every step leaves expectedPax alone, or is an     *)
(* insert (Create), or a successful compare-and-set (Adjust): the value it *)
(* tested is the value it replaces.                                        *)

LEMMA CounterInit == Init => Counter!Init
  BY DEF Init, Counter!Init, counterView, Stored

LEMMA CounterStep ==
  ASSUME PaxSafe, [Next]_vars
  PROVE  [Counter!Next]_counterView
  <1>1. CASE \A b \in Bookings : row'[b] = row[b]
    BY <1>1 DEF counterView, Stored
  <1>2. CASE \E b \in Bookings : ~Stored(b) /\ row'[b] # row[b]
    <2>1. PICK b \in Bookings : ~Stored(b) /\ row'[b] # row[b]
      BY <1>2
    <2>2. PICK r \in Requests, suffix \in NumberSuffixes :
            /\ task[r] \in InsertTask
            /\ row' = [row EXCEPT ![b] = NewRow(task[r], suffix)]
      BY <2>1, CreateFrame DEF PaxSafe
    <2>3. NewRow(task[r], suffix) # NoRow
      BY DEF NewRow, NoRow
    <2>4. NewRow(task[r], suffix).expectedPax = task[r].pax
      BY DEF NewRow
    <2>5. counterView' = [counterView EXCEPT ![b] = task[r].pax]
      BY <2>2, <2>3, <2>4 DEF counterView, Stored, PaxSafe, Typed, TypeOK
    <2>6. counterView[b] = NULL
      BY <2>1 DEF counterView
    <2>7. task[r].pax \in InitialPaxes
      BY <2>2 DEF InsertTask
    <2>. QED
      BY <2>5, <2>6, <2>7 DEF Counter!Next, Counter!Create
  <1>3. CASE \E b \in Bookings : Stored(b) /\ row'[b] # row[b]
    <2>1. PICK b \in Bookings : Stored(b) /\ row'[b] # row[b]
      BY <1>3
    <2>2. PICK r \in Requests : Continue(r)
      BY <2>1, QuietFrame
    <2>3. row[b] \in Row /\ b = task[r].booking
      BY <2>1, <2>2, RowShape, WriteFrame DEF PaxSafe, Typed
    <2>4. CASE CompareAndSetPax(r)
      <3>1. task[r] \in AdjustTask
        BY <2>4, TaskShape DEF CompareAndSetPax, PaxSafe, Typed, TypeOK
      <3>2. /\ row[b].expectedPax = task[r].seen
            /\ row' = [row EXCEPT ![b].expectedPax = task[r].seen + task[r].delta]
            /\ task[r].seen + task[r].delta >= 0
        BY <2>3, <2>4 DEF CompareAndSetPax, PaxSafe
      <3>3. row'[b] # NoRow /\ row'[b].expectedPax = task[r].seen + task[r].delta
        BY <2>3, <3>2 DEF PaxSafe, Typed, TypeOK, Row, NoRow
      <3>4. counterView' = [counterView EXCEPT ![b] = @ + task[r].delta]
        BY <2>1, <3>2, <3>3 DEF counterView, Stored, PaxSafe, Typed, TypeOK
      <3>5. /\ counterView[b] = task[r].seen
            /\ counterView[b] # NULL
            /\ task[r].delta \in Deltas
        BY <2>1, <3>1, <3>2, BookingAssumption
        DEF counterView, AdjustTask, PaxSafe
      <3>. QED
        BY <3>2, <3>4, <3>5 DEF Counter!Next, Counter!Adjust
    <2>5. CASE ~CompareAndSetPax(r)
      <3>1. row'[b].expectedPax = row[b].expectedPax /\ row'[b] # NoRow
        <4>1. /\ Stamped(task[r], row[b]).expectedPax = row[b].expectedPax
              /\ Stamped(task[r], row[b]) # NoRow
          BY <2>3 DEF Stamped, Row, NoRow
        <4>. QED
          BY <2>1, <2>2, <2>3, <2>5, <4>1, WriteFrame DEF PaxSafe, Row, NoRow
      <3>2. \A c \in Bookings \ {b} : row'[c] = row[c]
        <4>1. ASSUME NEW c \in Bookings, c # b, row'[c] # row[c]
              PROVE  FALSE
          <5>1. CASE Stored(c)
            BY <2>2, <2>3, <4>1, <5>1, WriteFrame DEF PaxSafe
          <5>2. CASE ~Stored(c)
            BY <2>1, <4>1, <5>2, CreateFrame DEF PaxSafe, Typed, TypeOK
          <5>. QED
            BY <5>1, <5>2
        <4>. QED
          BY <4>1
      <3>. QED
        BY <2>1, <3>1, <3>2 DEF counterView, Stored
    <2>. QED
      BY <2>4, <2>5
  <1>. QED
    BY <1>1, <1>2, <1>3

(***************************************************************************)
(* addPaxAdjustment is linearizable: read through expectedPax, racing      *)
(* adjustments, failed ones included, are single steps of PaxCounter, and  *)
(* no other handler of the module moves the value.                         *)
(***************************************************************************)
THEOREM PaxIsACounter == Spec => ImplementsPaxCounter
  <1>1. PaxSafe /\ [Next]_vars => [Counter!Next]_counterView
    BY CounterStep
  <1>. QED
    BY CounterInit, PaxSafeInit, PaxSafeNext, <1>1, PTL
    DEF Spec, ImplementsPaxCounter, Counter!Spec

-----------------------------------------------------------------------------
(* HistoryExplainsStatus: a status change that overwrites another one is   *)
(* still an allowed change from a status the booking had.                  *)

Traceable(t, h) ==
  t.op = "status" =>
    /\ isValidStatusTransition(t.from, t.to)
    /\ \E j \in 1 .. Len(h) : h[j].to = t.from

Traced ==
  /\ Typed
  /\ HistoryExplainsStatus
  /\ \A r \in Requests : Traceable(task[r], history[task[r].booking])

LEMMA ExplainsAppend ==
  ASSUME NEW h \in Seq(Change), NEW s, Explains(h, s), NEW c \in Change,
         isValidStatusTransition(c.from, c.to),
         \E j \in 1 .. Len(h) : h[j].to = c.from
  PROVE  Explains(Append(h, c), c.to)
  <1>. DEFINE g == Append(h, c)
  <1>1. /\ g \in Seq(Change) /\ Len(g) = Len(h) + 1 /\ g[Len(g)] = c
        /\ \A i \in 1 .. Len(h) : g[i] = h[i]
    OBVIOUS
  <1>. HIDE DEF g
  <1>2. /\ Len(h) \in Nat /\ Len(h) > 0
        /\ h[1].from = NULL /\ h[1].to = "TENTATIVE"
        /\ \A i \in 2 .. Len(h) :
             /\ isValidStatusTransition(h[i].from, h[i].to)
             /\ \E j \in 1 .. i - 1 : h[j].to = h[i].from
    BY DEF Explains
  <1>3. ASSUME NEW i \in 2 .. Len(g)
        PROVE  /\ isValidStatusTransition(g[i].from, g[i].to)
               /\ \E j \in 1 .. i - 1 : g[j].to = g[i].from
    <2>1. CASE i \in 2 .. Len(h)
      <3>1. PICK j \in 1 .. i - 1 : h[j].to = h[i].from
        BY <1>2, <2>1
      <3>2. g[i] = h[i] /\ g[j] = h[j]
        BY <1>1, <1>2, <2>1, <3>1
      <3>. QED
        BY <1>2, <2>1, <3>1, <3>2
    <2>2. CASE i = Len(h) + 1
      <3>1. PICK j \in 1 .. Len(h) : h[j].to = c.from
        OBVIOUS
      <3>2. g[i] = c /\ g[j] = h[j] /\ j \in 1 .. i - 1
        BY <1>1, <1>2, <2>2, <3>1
      <3>. QED
        BY <3>1, <3>2
    <2>. QED
      BY <1>1, <1>2, <2>1, <2>2
  <1>4. g[1].from = NULL /\ g[1].to = "TENTATIVE"
    BY <1>1, <1>2
  <1>5. Len(g) > 0 /\ g[Len(g)].to = c.to
    BY <1>1, <1>2
  <1>6. Explains(g, c.to)
    BY <1>3, <1>4, <1>5 DEF Explains
  <1>. QED
    BY <1>6 DEF g

LEMMA ExplainsNew ==
  ASSUME NEW t \in InsertTask
  PROVE  Explains(NewHistory(t), IF t.direct THEN "CONFIRMED" ELSE "TENTATIVE")
  BY DEF Explains, NewHistory, InsertTask, isValidStatusTransition,
         AllowedTransitions, Statuses

(* A stored booking's status and history change together, by WriteStatus.  *)
LEMMA StatusFrame ==
  ASSUME Typed, [Next]_vars, NEW b \in Bookings, Stored(b)
  PROVE  \/ history'[b] = history[b] /\ row'[b].status = row[b].status
         \/ \E r \in Requests :
              /\ WriteStatus(r)
              /\ task[r] \in StatusTask
              /\ b = task[r].booking
              /\ row'[b] = Stamped(task[r], row[b])
              /\ history'[b] = Append(history[b], [from |-> task[r].from,
                                                  to |-> task[r].to,
                                                  by |-> task[r].user])
  <1>1. row[b] \in Row
    BY RowShape DEF Typed
  <1>2. CASE \E r \in Requests : Continue(r)
    <2>1. PICK r \in Requests : Continue(r)
      BY <1>2
    <2>2. CASE WriteStatus(r)
      <3>1. task[r] \in StatusTask
        BY <2>2, TaskShape DEF WriteStatus, Typed, TypeOK
      <3>2. CASE b = task[r].booking
        BY <2>2, <3>1, <3>2 DEF WriteStatus, Typed, TypeOK
      <3>3. CASE b # task[r].booking
        BY <2>2, <3>1, <3>3 DEF WriteStatus, Typed, TypeOK
      <3>. QED
        BY <3>2, <3>3
    <2>3. CASE ~WriteStatus(r)
      <3>1. row'[b].status = row[b].status
        BY <1>1, <2>1, <2>3, WriteFrame DEF Row
      <3>2. history'[b] = history[b]
        <4>1. CASE InsertBooking(r)
          BY <4>1, InsertFrame DEF Typed, TypeOK
        <4>. QED
          BY <2>1, <2>3, <4>1
          DEF Continue, BookingNumberCollides, WriteUpdate, WriteDelete,
              CompareAndSetPax, LoseCompareAndSet, RereadPax,
              RecordAdjustment, WriteActualPax
      <3>. QED
        BY <3>1, <3>2
    <2>. QED
      BY <2>2, <2>3
  <1>. QED
    BY <1>2, QuietFrame

LEMMA StampedStatus ==
  ASSUME NEW t \in StatusTask, NEW v \in Row
  PROVE  Stamped(t, v).status = t.to
  BY DEF Stamped, StatusTask, Row

LEMMA HistoryExplainsNext ==
  ASSUME Traced, [Next]_vars, NEW b \in Bookings, Stored(b)'
  PROVE  Explains(history'[b], row'[b].status)
  <1>1. CASE Stored(b)
    <2>1. Explains(history[b], row[b].status) /\ history[b] \in Seq(Change)
      BY <1>1 DEF Traced, HistoryExplainsStatus, Typed, TypeOK
    <2>2. CASE history'[b] = history[b] /\ row'[b].status = row[b].status
      BY <2>1, <2>2
    <2>3. CASE ~(history'[b] = history[b] /\ row'[b].status = row[b].status)
      <3>. DEFINE change(r) == [from |-> task[r].from, to |-> task[r].to,
                                by |-> task[r].user]
      <3>1. PICK r \in Requests :
              /\ WriteStatus(r)
              /\ task[r] \in StatusTask
              /\ b = task[r].booking
              /\ row'[b] = Stamped(task[r], row[b])
              /\ history'[b] = Append(history[b], change(r))
        BY <1>1, <2>3, StatusFrame DEF Traced
      <3>2. /\ isValidStatusTransition(task[r].from, task[r].to)
            /\ \E j \in 1 .. Len(history[b]) : history[b][j].to = task[r].from
        BY <3>1 DEF Traced, Traceable, WriteStatus
      <3>3. change(r) \in Change /\ change(r).from = task[r].from
            /\ change(r).to = task[r].to
        BY <3>1 DEF StatusTask, Change
      <3>4. Explains(Append(history[b], change(r)), change(r).to)
        <4>. HIDE DEF change
        <4>. QED
          BY <2>1, <3>2, <3>3, ExplainsAppend
      <3>5. row'[b].status = task[r].to
        BY <1>1, <3>1, RowShape, StampedStatus DEF Traced, Typed
      <3>. QED
        BY <3>1, <3>3, <3>4, <3>5
    <2>. QED
      BY <2>2, <2>3
  <1>2. CASE ~Stored(b)
    <2>1. PICK r \in Requests, suffix \in NumberSuffixes :
            /\ task[r] \in InsertTask
            /\ row' = [row EXCEPT ![b] = NewRow(task[r], suffix)]
            /\ history' = [history EXCEPT ![b] = NewHistory(task[r])]
      BY <1>2, CreateFrame DEF Traced, Stored
    <2>2. /\ row'[b] = NewRow(task[r], suffix)
          /\ history'[b] = NewHistory(task[r])
      BY <2>1 DEF Traced, Typed, TypeOK
    <2>. QED
      BY <2>1, <2>2, ExplainsNew DEF NewRow
  <1>. QED
    BY <1>1, <1>2

LEMMA TraceableNext ==
  ASSUME Traced, [Next]_vars, NEW s \in Requests
  PROVE  Traceable(task'[s], history'[task'[s].booking])
  <1>. SUFFICES ASSUME task'[s].op = "status"
                PROVE  Traceable(task'[s], history'[task'[s].booking])
    BY DEF Traceable
  <1>1. CASE task'[s] = task[s]
    <2>. DEFINE b == task[s].booking
    <2>1. Stored(b) /\ b \in Bookings
      BY <1>1, TaskBooking DEF Traced, Typed, TypeOK, HoldsRow
    <2>2. Traceable(task[s], history[b])
      BY DEF Traced
    <2>3. CASE history'[b] = history[b]
      BY <1>1, <2>2, <2>3
    <2>4. CASE history'[b] # history[b]
      <3>1. PICK r \in Requests :
              history'[b] = Append(history[b], [from |-> task[r].from,
                                               to |-> task[r].to,
                                               by |-> task[r].user])
        BY <2>1, <2>4, StatusFrame DEF Traced
      <3>2. history[b] \in Seq(Change)
        BY <2>1 DEF Traced, Typed, TypeOK
      <3>3. PICK j \in 1 .. Len(history[b]) : history[b][j].to = task[s].from
        BY <1>1, <2>2 DEF Traceable
      <3>4. j \in 1 .. Len(history'[b]) /\ history'[b][j] = history[b][j]
        BY <3>1, <3>2, <3>3
      <3>. QED
        BY <1>1, <2>2, <3>3, <3>4 DEF Traceable
    <2>. QED
      BY <2>3, <2>4
  <1>2. CASE task'[s] # task[s]
    <2>1. BeginStatus(s)
      BY <1>2, TaskFrame, BeginOp, ContinueOp DEF Idle, Traced
    <2>2. PICK u \in Users, b \in Bookings, to \in Statuses \ {"TENTATIVE"} :
            /\ Stored(b)
            /\ isValidStatusTransition(row[b].status, to)
            /\ task'[s] = [op |-> "status", booking |-> b, user |-> u,
                           from |-> row[b].status, to |-> to]
            /\ history' = history
      BY <2>1 DEF BeginStatus, Reachable, Accept, Traced, Typed, TypeOK
    <2>3. Explains(history[b], row[b].status) /\ history[b] \in Seq(Change)
      BY <2>2 DEF Traced, HistoryExplainsStatus, Typed, TypeOK
    <2>4. /\ Len(history[b]) \in 1 .. Len(history[b])
          /\ history[b][Len(history[b])].to = row[b].status
      BY <2>3 DEF Explains
    <2>. QED
      BY <2>2, <2>4 DEF Traceable
  <1>. QED
    BY <1>1, <1>2

(***************************************************************************)
(* The status history explains the status: although the guard of           *)
(* setBookingStatus and its transaction are two calls, every recorded      *)
(* change is an allowed one from a status the booking had, and the last    *)
(* one leads to the current status.                                        *)
(***************************************************************************)
THEOREM HistoryIsTraceable == Spec => []HistoryExplainsStatus
  <1>1. Init => Traced
    BY InitTyped
    DEF Init, Traced, HistoryExplainsStatus, Traceable, Stored, Idle
  <1>2. Traced /\ [Next]_vars => Traced'
    <2>. SUFFICES ASSUME Traced, [Next]_vars
                  PROVE  Traced'
      OBVIOUS
    <2>1. Typed'
      BY NextTyped DEF Traced
    <2>. QED
      BY <2>1, HistoryExplainsNext, TraceableNext
      DEF Traced, HistoryExplainsStatus
  <1>3. Traced => HistoryExplainsStatus
    BY DEF Traced
  <1>. QED
    BY <1>1, <1>2, <1>3, PTL DEF Spec

-----------------------------------------------------------------------------
(* ManagersKeepToTheirBranch: the branch of a booking is settled by its    *)
(* creation.                                                               *)

LEMMA BranchKept ==
  ASSUME Typed, [Next]_vars, NEW b \in Bookings, Stored(b)
  PROVE  /\ Stored(b)'
         /\ row'[b].branch = row[b].branch
  <1>1. row[b] \in Row
    BY RowShape DEF Typed
  <1>2. CASE row'[b] = row[b]
    BY <1>2 DEF Stored
  <1>3. CASE row'[b] # row[b]
    <2>1. PICK r \in Requests : Continue(r)
      BY <1>3, QuietFrame
    <2>2. /\ Stamped(task[r], row[b]) # NoRow
          /\ Stamped(task[r], row[b]).branch = row[b].branch
      BY <1>1 DEF Stamped, Row, NoRow
    <2>. QED
      BY <1>1, <1>3, <2>1, <2>2, WriteFrame DEF Row, Stored, NoRow
  <1>. QED
    BY <1>2, <1>3

InScope(u, b) == u \in Managers => row[b].branch = Home[u]

Scoped ==
  /\ Typed
  /\ ManagersKeepToTheirBranch
  /\ \A r \in Requests :
       /\ task[r].op = "status" => InScope(task[r].user, task[r].booking)
       /\ task[r].op = "insert" => resolveBranchScope(task[r].user, task[r].branch)

LEMMA ScopedHistory ==
  ASSUME Scoped, [Next]_vars, NEW b \in Bookings, Stored(b)',
         NEW i \in DOMAIN history'[b], history'[b][i].by \in Managers
  PROVE  row'[b].branch = Home[history'[b][i].by]
  <1>1. CASE Stored(b)
    <2>1. row'[b].branch = row[b].branch
      BY <1>1, BranchKept DEF Scoped
    <2>2. CASE history'[b] = history[b]
      BY <1>1, <2>1, <2>2 DEF Scoped, ManagersKeepToTheirBranch
    <2>3. CASE history'[b] # history[b]
      <3>. DEFINE change(r) == [from |-> task[r].from, to |-> task[r].to,
                                by |-> task[r].user]
      <3>1. PICK r \in Requests :
              /\ WriteStatus(r)
              /\ task[r] \in StatusTask
              /\ b = task[r].booking
              /\ history'[b] = Append(history[b], change(r))
        BY <1>1, <2>3, StatusFrame DEF Scoped
      <3>2. change(r) \in Change /\ change(r).by = task[r].user
        BY <3>1 DEF StatusTask, Change
      <3>3. history[b] \in Seq(Change)
        BY DEF Scoped, Typed, TypeOK
      <3>4. \/ i \in DOMAIN history[b] /\ history'[b][i] = history[b][i]
            \/ history'[b][i] = change(r)
        <4>. HIDE DEF change
        <4>. QED
          BY <3>1, <3>2, <3>3
      <3>5. InScope(task[r].user, b)
        BY <3>1 DEF Scoped, WriteStatus
      <3>. QED
        BY <1>1, <2>1, <3>2, <3>4, <3>5
        DEF InScope, Scoped, ManagersKeepToTheirBranch
    <2>. QED
      BY <2>2, <2>3
  <1>2. CASE ~Stored(b)
    <2>1. PICK r \in Requests, suffix \in NumberSuffixes :
            /\ task[r] \in InsertTask
            /\ row' = [row EXCEPT ![b] = NewRow(task[r], suffix)]
            /\ history' = [history EXCEPT ![b] = NewHistory(task[r])]
      BY <1>2, CreateFrame DEF Scoped, Stored
    <2>2. row'[b] = NewRow(task[r], suffix) /\ history'[b] = NewHistory(task[r])
      BY <2>1 DEF Scoped, Typed, TypeOK
    <2>3. history'[b][i].by = task[r].user
      BY <2>2 DEF NewHistory
    <2>4. resolveBranchScope(task[r].user, task[r].branch)
      BY <2>1 DEF Scoped, InsertTask
    <2>. QED
      BY <2>2, <2>3, <2>4 DEF NewRow, resolveBranchScope
  <1>. QED
    BY <1>1, <1>2

LEMMA ScopedTask ==
  ASSUME Scoped, [Next]_vars, NEW s \in Requests
  PROVE  /\ task'[s].op = "status" => InScope(task[s].user, task[s].booking)'
         /\ task'[s].op = "insert" =>
              resolveBranchScope(task'[s].user, task'[s].branch)
  <1>1. CASE task'[s] = task[s]
    <2>1. task[s].op = "status" =>
            Stored(task[s].booking) /\ task[s].booking \in Bookings
      BY TaskBooking DEF Scoped, Typed, TypeOK, HoldsRow
    <2>. QED
      BY <1>1, <2>1, BranchKept DEF Scoped, InScope
  <1>2. CASE task'[s] # task[s]
    <2>1. CASE Begin(s)
      BY <2>1
      DEF Begin, BeginCreate, BeginUpdate, BeginDelete, BeginAdjust,
          BeginActualPax, BeginStatus, Reachable, Accept, InScope, Scoped,
          Typed, TypeOK
    <2>2. CASE Continue(s)
      <3>1. task'[s].op # "status"
        BY <2>2, ContinueOp DEF Scoped
      <3>2. CASE task'[s].op = "insert"
        <4>1. BookingNumberCollides(s)
          BY <2>2, <3>2, ContinueOp DEF Scoped
        <4>2. task[s] \in InsertTask
          BY <4>1, TaskShape DEF BookingNumberCollides, Scoped, Typed, TypeOK
        <4>3. task' = [task EXCEPT ![s].attempt = @ + 1]
          BY <3>2, <4>1
          DEF BookingNumberCollides, Answer, Idle, Scoped, Typed, TypeOK
        <4>4. /\ task'[s].user = task[s].user
              /\ task'[s].branch = task[s].branch
              /\ task[s].op = "insert"
          BY <4>2, <4>3 DEF InsertTask, Scoped, Typed, TypeOK
        <4>. QED
          BY <3>1, <4>4 DEF Scoped, resolveBranchScope
      <3>. QED
        BY <3>1, <3>2
    <2>. QED
      BY <1>2, <2>1, <2>2, TaskFrame DEF Scoped, Idle
  <1>. QED
    BY <1>1, <1>2

(***************************************************************************)
(* Branch scoping of status changes: the branch a manager was checked      *)
(* against at the guard read is still the booking's at the write.          *)
(***************************************************************************)
THEOREM ManagersStayHome == Spec => []ManagersKeepToTheirBranch
  <1>1. Init => Scoped
    BY InitTyped
    DEF Init, Scoped, ManagersKeepToTheirBranch, Stored, Idle
  <1>2. Scoped /\ [Next]_vars => Scoped'
    <2>. SUFFICES ASSUME Scoped, [Next]_vars
                  PROVE  Scoped'
      OBVIOUS
    <2>1. Typed'
      BY NextTyped DEF Scoped
    <2>2. ManagersKeepToTheirBranch'
      BY ScopedHistory DEF ManagersKeepToTheirBranch
    <2>. QED
      BY <2>1, <2>2, ScopedTask DEF Scoped
  <1>3. Scoped => ManagersKeepToTheirBranch
    BY DEF Scoped
  <1>. QED
    BY <1>1, <1>2, <1>3, PTL DEF Spec

-----------------------------------------------------------------------------
(* LedgerBalanced: a compare-and-set that wins and the insert of its       *)
(* ledger row are two calls; between them the handler itself holds the     *)
(* entry.                                                                  *)

Pending(b) == [r \in Unrecorded(b) |-> task[r].delta]

(* What the row says and what its records say, those that handlers hold    *)
(* included.  The sum is over finitely many handlers because only one      *)
(* joins at a time.                                                        *)
Balances(b) ==
  /\ IsFiniteSet(Unrecorded(b))
  /\ Stored(b) => row[b].expectedPax = computeExpectedPax(row[b].initialPax, ledger[b])
                                         + SumFunction(Pending(b))

Balanced ==
  /\ Typed
  /\ \A b \in Bookings : ~Stored(b) => ledger[b] = << >>
  /\ failures = 0 => \A b \in Bookings : Balances(b)

(* One more number in a sum. *)
LEMMA SumJoin ==
  ASSUME NEW S, IsFiniteSet(S), NEW x, x \notin S,
         NEW f \in [S -> Int], NEW g \in [S \cup {x} -> Int],
         \A y \in S : g[y] = f[y]
  PROVE  SumFunction(g) = g[x] + SumFunction(f)
  <1>. DEFINE T == S \cup {x}
              e == [y \in T \ {x} |-> g[y]]
  <1>1. IsFiniteSet(T) /\ x \in T /\ g \in [T -> Int]
    BY FS_AddElement
  <1>2. \A z \in T : SumFunction(g) = g[z] + SumFunction([y \in T \ {z} |-> g[y]])
    <2>. HIDE DEF T
    <2>. QED
      BY <1>1, SumStep
  <1>3. e = f
    OBVIOUS
  <1>4. SumFunction(g) = g[x] + SumFunction(e)
    <2>. HIDE DEF T
    <2>. QED
      BY <1>1, <1>2
  <1>. QED
    BY <1>3, <1>4

LEMMA PendingType ==
  ASSUME Typed, NEW b \in Bookings
  PROVE  Pending(b) \in [Unrecorded(b) -> Int]
  <1>1. \A r \in Unrecorded(b) : task[r] \in AdjustTask
    BY TaskShape DEF Unrecorded, Typed, TypeOK
  <1>. QED
    BY <1>1, PaxesAreNumbers DEF Pending, AdjustTask, Unrecorded

LEMMA LedgerType ==
  ASSUME Typed, NEW b \in Bookings
  PROVE  /\ ledger[b] \in Seq(Entry)
         /\ \A e \in Entry : e.delta \in Int
         /\ Stored(b) => /\ row[b].initialPax \in Int /\ row[b].expectedPax \in Int
                         /\ computeExpectedPax(row[b].initialPax, ledger[b]) \in Int
  <1>1. ledger[b] \in Seq(Entry) /\ \A e \in Entry : e.delta \in Int
    BY DEF Typed, TypeOK, Entry
  <1>2. Stored(b) => row[b].initialPax \in Int /\ row[b].expectedPax \in Int
    BY RowShape DEF Typed, Row
  <1>3. \A base \in Int : computeExpectedPax(base, ledger[b]) \in Int
    BY <1>1, ExpectedPaxType
  <1>. QED
    BY <1>1, <1>2, <1>3

(* A handler holds an entry from its compare-and-set to its ledger row.    *)
LEMMA HoldingFrame ==
  ASSUME Typed, [Next]_vars, failures' = failures, NEW s \in Requests,
         ~CompareAndSetPax(s), ~RecordAdjustment(s),
         task[s].op = "record" \/ task'[s].op = "record"
  PROVE  task'[s] = task[s]
  <1>. SUFFICES ASSUME task'[s] # task[s]
                PROVE  FALSE
    OBVIOUS
  <1>1. ~RequestDies(s)
    BY DEF RequestDies, Typed, TypeOK
  <1>2. Begin(s) \/ Continue(s)
    BY <1>1, TaskFrame
  <1>3. CASE Begin(s)
    <2>1. task[s] = Idle
      BY <1>3 DEF Begin, BeginCreate, BeginUpdate, BeginDelete, BeginAdjust,
                  BeginActualPax, BeginStatus, Accept
    <2>2. task[s].op # "record"
      BY <2>1 DEF Idle
    <2>3. BeginAdjust(s)
      BY <1>3, <2>2, BeginOp
    <2>4. task'[s].op = "adjust"
      BY <2>3 DEF BeginAdjust, Accept, Typed, TypeOK
    <2>. QED
      BY <2>2, <2>4
  <1>4. CASE Continue(s)
    <2>1. task[s].op = "record"
      BY <1>4, ContinueOp
    <2>. QED
      BY <1>4, <2>1 DEF Continue, InsertBooking, BookingNumberCollides, WriteUpdate,
                        WriteDelete, CompareAndSetPax, LoseCompareAndSet, RereadPax,
                        WriteActualPax, WriteStatus
  <1>. QED
    BY <1>2, <1>3, <1>4

LEMMA PendingFrame ==
  ASSUME NEW b \in Bookings,
         \A s \in Requests :
           task[s].op = "record" \/ task'[s].op = "record" => task'[s] = task[s]
  PROVE  Unrecorded(b)' = Unrecorded(b) /\ Pending(b)' = Pending(b)
  <1>1. Unrecorded(b)' = Unrecorded(b)
    BY DEF Unrecorded
  <1>2. \A s \in Unrecorded(b) : task'[s] = task[s]
    BY DEF Unrecorded
  <1>. QED
    BY <1>1, <1>2 DEF Pending

(* One handler's step moves the entries of other handlers nowhere. *)
LEMMA OthersHold ==
  ASSUME Typed, [Next]_vars, NEW r \in Requests, Continue(r), NEW s \in Requests, s # r
  PROVE  task'[s] = task[s]
  BY DEF Continue, InsertBooking, BookingNumberCollides, WriteUpdate, WriteDelete,
         CompareAndSetPax, LoseCompareAndSet, RereadPax, RecordAdjustment,
         WriteActualPax, WriteStatus, Answer, Typed, TypeOK

LEMMA SetPaxBalances ==
  ASSUME Balanced, [Next]_vars, failures = 0, NEW r \in Requests, CompareAndSetPax(r),
         NEW b \in Bookings
  PROVE  Balances(b)'
  <1>. DEFINE t == task[r]
              S == Unrecorded(b)
              f == Pending(b)
  <1>1. /\ t \in AdjustTask /\ t.op = "adjust" /\ row[t.booking].expectedPax = t.seen
        /\ row' = [row EXCEPT ![t.booking].expectedPax = t.seen + t.delta]
        /\ task' = [task EXCEPT ![r].op = "record"]
        /\ ledger' = ledger
    BY TaskShape DEF CompareAndSetPax, Balanced, Typed, TypeOK
  <1>2. /\ Stored(t.booking) /\ row[t.booking] \in Row
        /\ t.booking \in Bookings /\ t.delta \in Int /\ t.seen \in Int
    BY <1>1, RowShape, PaxesAreNumbers DEF Balanced, Typed, HoldsRow, AdjustTask
  <1>3. /\ task'[r].op = "record" /\ task'[r].booking = t.booking /\ task'[r].delta = t.delta
        /\ \A s \in Requests : s # r => task'[s] = task[s]
    BY <1>1 DEF Balanced, Typed, TypeOK, AdjustTask
  <1>4. Typed' /\ Typed /\ Balances(b) /\ f \in [S -> Int] /\ r \notin S
    BY <1>1, NextTyped, PendingType DEF Balanced, Unrecorded
  <1>5. CASE b # t.booking
    <2>1. row'[b] = row[b]
      BY <1>1, <1>5 DEF Balanced, Typed, TypeOK
    <2>2. Unrecorded(b)' = S
      BY <1>1, <1>3, <1>5 DEF Unrecorded
    <2>3. Pending(b)' = f
      <3>1. Pending(b)' = [s \in S |-> task'[s].delta]
        BY <2>2 DEF Pending
      <3>2. \A s \in S : task'[s] = task[s]
        BY <1>3, <1>4 DEF Unrecorded
      <3>. QED
        BY <3>1, <3>2 DEF Pending
    <2>. QED
      BY <1>1, <1>4, <2>1, <2>2, <2>3 DEF Balances, Stored
  <1>6. CASE b = t.booking
    <2>1. row'[b] = [row[b] EXCEPT !.expectedPax = t.seen + t.delta]
      BY <1>1, <1>6 DEF Balanced, Typed, TypeOK
    <2>2. row'[b].expectedPax = row[b].expectedPax + t.delta
          /\ row'[b].initialPax = row[b].initialPax
      BY <1>1, <1>2, <1>6, <2>1 DEF Row
    <2>3. Unrecorded(b)' = S \cup {r}
      BY <1>3, <1>6 DEF Unrecorded
    <2>4. IsFiniteSet(S) /\ IsFiniteSet(S \cup {r})
      BY <1>4, FS_AddElement DEF Balances
    <2>. DEFINE g == Pending(b)'
    <2>5. g \in [S \cup {r} -> Int] /\ g[r] = t.delta /\ \A s \in S : g[s] = f[s]
      <3>1. g = [s \in S \cup {r} |-> task'[s].delta]
        BY <2>3 DEF Pending
      <3>2. f = [s \in S |-> task[s].delta]
        BY DEF Pending
      <3>3. \A s \in S : task'[s] = task[s]
        BY <1>3, <1>4 DEF Unrecorded
      <3>. HIDE DEF S, f, g, t
      <3>. QED
        BY <1>2, <1>3, <1>4, <3>1, <3>2, <3>3
    <2>6. SumFunction(g) = t.delta + SumFunction(f) /\ SumFunction(f) \in Int
      <3>. HIDE DEF S, f, g, t
      <3>1. SumFunction(f) \in Int
        BY <1>4, <2>4, SumStep
      <3>2. SumFunction(g) = g[r] + SumFunction(f)
        BY <1>4, <2>4, <2>5, SumJoin
      <3>. QED
        BY <2>5, <3>1, <3>2
    <2>7. row[b].expectedPax = computeExpectedPax(row[b].initialPax, ledger[b])
                                 + SumFunction(f)
      BY <1>2, <1>4, <1>6 DEF Balances
    <2>8. computeExpectedPax(row[b].initialPax, ledger[b]) \in Int
      BY <1>2, <1>4, <1>6, LedgerType
    <2>9. row'[b].expectedPax = computeExpectedPax(row'[b].initialPax, ledger'[b])
                                  + SumFunction(g)
      <3>. HIDE DEF S, f, g, t
      <3>. QED
        BY <1>1, <1>2, <2>2, <2>6, <2>7, <2>8
    <2>. QED
      BY <2>3, <2>4, <2>9 DEF Balances
  <1>. QED
    BY <1>5, <1>6

LEMMA RecordBalances ==
  ASSUME Balanced, [Next]_vars, failures = 0, NEW r \in Requests, RecordAdjustment(r),
         NEW b \in Bookings
  PROVE  Balances(b)'
  <1>. DEFINE t == task[r]
              entry == [delta |-> t.delta, previous |-> t.seen, new |-> t.seen + t.delta]
              S == Unrecorded(b)
              f == Pending(b)
  <1>1. /\ t \in AdjustTask /\ t.op = "record" /\ row' = row
        /\ ledger' = [ledger EXCEPT ![t.booking] = Append(@, entry)]
        /\ task' = [task EXCEPT ![r] = Idle]
    BY TaskShape DEF RecordAdjustment, Answer, Balanced, Typed, TypeOK
  <1>2. /\ Stored(t.booking) /\ t.booking \in Bookings /\ t.delta \in Int /\ t.seen \in Int
    BY <1>1, PaxesAreNumbers DEF Balanced, Typed, HoldsRow, AdjustTask
  <1>3. task'[r].op # "record" /\ \A s \in Requests : s # r => task'[s] = task[s]
    BY <1>1 DEF Balanced, Typed, TypeOK, Idle
  <1>4. Typed' /\ Typed /\ Balances(b) /\ f \in [S -> Int]
    BY NextTyped, PendingType DEF Balanced
  <1>5. CASE b # t.booking
    <2>1. ledger'[b] = ledger[b]
      BY <1>1, <1>5 DEF Balanced, Typed, TypeOK
    <2>2. Unrecorded(b)' = S /\ r \notin S
      BY <1>3, <1>5 DEF Unrecorded
    <2>3. Pending(b)' = f
      <3>1. Pending(b)' = [s \in S |-> task'[s].delta]
        BY <2>2 DEF Pending
      <3>2. \A s \in S : task'[s] = task[s]
        BY <1>3, <2>2 DEF Unrecorded
      <3>. QED
        BY <3>1, <3>2 DEF Pending
    <2>. QED
      BY <1>1, <1>4, <2>1, <2>2, <2>3 DEF Balances, Stored
  <1>6. CASE b = t.booking
    <2>1. ledger'[b] = Append(ledger[b], entry)
      BY <1>1, <1>6 DEF Balanced, Typed, TypeOK
    <2>2. entry \in Entry /\ entry.delta = t.delta
      BY <1>2 DEF Entry
    <2>3. Unrecorded(b)' = S \ {r} /\ r \in S
      BY <1>1, <1>3, <1>6 DEF Unrecorded
    <2>4. IsFiniteSet(S) /\ IsFiniteSet(S \ {r})
      BY <1>4, FS_Subset DEF Balances
    <2>5. Pending(b)' = [s \in S \ {r} |-> f[s]] /\ f[r] = t.delta
      <3>1. Pending(b)' = [s \in S \ {r} |-> task'[s].delta]
        BY <2>3 DEF Pending
      <3>2. f = [s \in S |-> task[s].delta]
        BY DEF Pending
      <3>3. \A s \in S \ {r} : task'[s] = task[s]
        BY <1>3 DEF Unrecorded
      <3>4. r \in S
        BY <2>3
      <3>. HIDE DEF S, f
      <3>. QED
        BY <3>1, <3>2, <3>3, <3>4
    <2>. DEFINE g == [s \in S \ {r} |-> f[s]]
    <2>6. SumFunction(f) = t.delta + SumFunction(g) /\ SumFunction(g) \in Int
      <3>1. r \in S /\ g \in [S \ {r} -> Int]
        BY <1>4, <2>3
      <3>2. SumFunction(f) = f[r] + SumFunction(g)
        <4>. HIDE DEF S, f, t
        <4>. QED
          BY <1>4, <2>4, <3>1, SumStep
      <3>3. SumFunction(g) \in Int
        <4>. HIDE DEF S, f, g, t
        <4>. QED
          BY <2>4, <3>1, SumStep
      <3>. HIDE DEF S, f, g, t
      <3>. QED
        BY <2>5, <3>2, <3>3
    <2>7. /\ row[b].expectedPax = computeExpectedPax(row[b].initialPax, ledger[b])
                                    + SumFunction(f)
          /\ row[b].initialPax \in Int /\ ledger[b] \in Seq(Entry)
          /\ \A e \in Entry : e.delta \in Int
          /\ computeExpectedPax(row[b].initialPax, ledger[b]) \in Int
      BY <1>2, <1>4, <1>6, LedgerType DEF Balances
    <2>8. computeExpectedPax(row[b].initialPax, Append(ledger[b], entry))
            = computeExpectedPax(row[b].initialPax, ledger[b]) + t.delta
      <3>. HIDE DEF entry
      <3>. QED
        BY <2>2, <2>7, ExpectedPaxAppend
    <2>9. row'[b].expectedPax = computeExpectedPax(row'[b].initialPax, ledger'[b])
                                  + SumFunction(g)
      <3>. HIDE DEF S, f, g, t, entry
      <3>. QED
        BY <1>1, <1>2, <2>1, <2>6, <2>7, <2>8
    <2>10. Pending(b)' = g
      BY <2>5
    <2>. HIDE DEF S, f, g, t, entry
    <2>. QED
      BY <2>3, <2>4, <2>9, <2>10 DEF Balances
  <1>. QED
    BY <1>5, <1>6

LEMMA OtherBalances ==
  ASSUME Balanced, [Next]_vars, failures = 0, failures' = failures,
         ~ \E r \in Requests : CompareAndSetPax(r) \/ RecordAdjustment(r),
         NEW b \in Bookings
  PROVE  Balances(b)'
  <1>1. Typed /\ Balances(b)
    BY DEF Balanced
  <1>2. \A s \in Requests :
          task[s].op = "record" \/ task'[s].op = "record" => task'[s] = task[s]
    BY <1>1, HoldingFrame
  <1>3. Unrecorded(b)' = Unrecorded(b) /\ Pending(b)' = Pending(b)
    BY <1>2, PendingFrame
  <1>4. ledger' = ledger
    BY QuietFrame
    DEF Continue, InsertBooking, BookingNumberCollides, WriteUpdate, WriteDelete,
        LoseCompareAndSet, RereadPax, WriteActualPax, WriteStatus
  <1>5. CASE row'[b] = row[b]
    BY <1>1, <1>3, <1>4, <1>5 DEF Balances, Stored
  <1>6. CASE ~Stored(b) /\ row'[b] # row[b]
    <2>1. PICK r \in Requests, suffix \in NumberSuffixes :
            /\ task[r] \in InsertTask
            /\ row' = [row EXCEPT ![b] = NewRow(task[r], suffix)]
      BY <1>1, <1>6, CreateFrame
    <2>2. row'[b] = NewRow(task[r], suffix)
      BY <2>1 DEF Balanced, Typed, TypeOK
    <2>3. /\ row'[b].expectedPax = row'[b].initialPax /\ row'[b].initialPax \in Int
      BY <2>1, <2>2, PaxesAreNumbers DEF NewRow, InsertTask
    <2>4. ledger'[b] = << >>
      BY <1>4, <1>6 DEF Balanced
    <2>5. Unrecorded(b) = {}
      BY <1>6 DEF Unrecorded, Balanced, Typed, HoldsRow
    <2>6. Pending(b) = [x \in {} |-> 0]
      BY <2>5 DEF Pending
    <2>7. SumFunction(Pending(b)') = 0
      BY <1>3, <2>6, SumNone
    <2>8. computeExpectedPax(row'[b].initialPax, ledger'[b]) = row'[b].initialPax
      BY <2>3, <2>4, ExpectedPaxEmpty
    <2>. QED
      BY <1>1, <1>3, <2>3, <2>7, <2>8 DEF Balances
  <1>7. CASE Stored(b) /\ row'[b] # row[b]
    <2>1. PICK r \in Requests : Continue(r)
      BY <1>7, QuietFrame
    <2>2. row[b] \in Row
      BY <1>1, <1>7, RowShape DEF Typed
    <2>3. /\ Stamped(task[r], row[b]).expectedPax = row[b].expectedPax
          /\ Stamped(task[r], row[b]).initialPax = row[b].initialPax
      BY <2>2 DEF Stamped, Row
    <2>4. row'[b].expectedPax = row[b].expectedPax /\ row'[b].initialPax = row[b].initialPax
      BY <1>1, <1>7, <2>1, <2>2, <2>3, WriteFrame DEF Row
    <2>. QED
      BY <1>1, <1>3, <1>4, <1>7, <2>4 DEF Balances
  <1>. QED
    BY <1>5, <1>6, <1>7

LEMMA EmptyLedger ==
  ASSUME Balanced, [Next]_vars, NEW b \in Bookings, ~Stored(b)'
  PROVE  ledger'[b] = << >>
  <1>1. ~Stored(b)
    BY BranchKept DEF Balanced
  <1>2. CASE \E r \in Requests : RecordAdjustment(r)
    <2>1. PICK r \in Requests : RecordAdjustment(r)
      BY <1>2
    <2>2. Stored(task[r].booking)
      BY <2>1 DEF RecordAdjustment, Balanced, Typed, HoldsRow
    <2>3. \E e : ledger' = [ledger EXCEPT ![task[r].booking] = e]
      BY <2>1 DEF RecordAdjustment
    <2>4. b # task[r].booking
      BY <1>1, <2>2
    <2>. QED
      BY <1>1, <2>3, <2>4 DEF Balanced, Typed, TypeOK
  <1>3. CASE ~ \E r \in Requests : RecordAdjustment(r)
    <2>1. ledger' = ledger
      BY <1>3, QuietFrame
      DEF Continue, InsertBooking, BookingNumberCollides, WriteUpdate, WriteDelete,
          CompareAndSetPax, LoseCompareAndSet, RereadPax, WriteActualPax, WriteStatus
    <2>. QED
      BY <1>1, <2>1 DEF Balanced
  <1>. QED
    BY <1>2, <1>3

LEMMA BalancedInit == Init => Balanced
  <1>. SUFFICES ASSUME Init
                PROVE  Balanced
    OBVIOUS
  <1>1. \A b \in Bookings : ~Stored(b) /\ ledger[b] = << >> /\ Unrecorded(b) = {}
    BY DEF Init, Stored, Unrecorded, Idle
  <1>. QED
    BY <1>1, InitTyped, FS_EmptySet DEF Balanced, Balances

LEMMA BalancedNext == Balanced /\ [Next]_vars => Balanced'
  <1>. SUFFICES ASSUME Balanced, [Next]_vars
                PROVE  Balanced'
    OBVIOUS
  <1>1. Typed'
    BY NextTyped DEF Balanced
  <1>2. failures' = 0 => failures = 0 /\ failures' = failures
    <2>1. failures \in Nat
      BY BookingAssumption DEF Balanced, Typed, TypeOK
    <2>2. failures' = failures \/ failures' = failures + 1
      BY DEF Next, vars, Begin, BeginCreate, BeginUpdate, BeginDelete, BeginAdjust,
             BeginActualPax, BeginStatus, RequestDies, DayPasses, Continue,
             InsertBooking, BookingNumberCollides, WriteUpdate, WriteDelete,
             CompareAndSetPax, LoseCompareAndSet, RereadPax, RecordAdjustment,
             WriteActualPax, WriteStatus
    <2>. QED
      BY <2>1, <2>2
  <1>3. ASSUME failures' = 0, NEW b \in Bookings
        PROVE  Balances(b)'
    BY <1>2, <1>3, SetPaxBalances, RecordBalances, OtherBalances
  <1>4. \A b \in Bookings : ~Stored(b)' => ledger'[b] = << >>
    BY EmptyLedger
  <1>. QED
    BY <1>1, <1>3, <1>4 DEF Balanced

(***************************************************************************)
(* No adjustment is lost and none counted twice: as long as no handler has *)
(* died, expectedPax is the initial pax plus every adjustment that won its *)
(* compare-and-set, for any number of handlers, adjustments and bookings.  *)
(***************************************************************************)
THEOREM LedgerStaysBalanced == Spec => []LedgerBalanced
  <1>1. Balanced => LedgerBalanced
    BY DEF Balanced, Balances, Pending, LedgerBalanced
  <1>. QED
    BY BalancedInit, BalancedNext, <1>1, PTL DEF Spec

-----------------------------------------------------------------------------
(* StampsMatchHistory: the row's stamps and the history are two records of *)
(* who did what, and only WriteStatus adds to either, to both at once.     *)

(* u is who last led to s, or NULL if nobody did. *)
LastBy(h, s, u) ==
  \/ u = NULL /\ \A i \in DOMAIN h : h[i].to # s
  \/ \E i \in DOMAIN h : /\ h[i].to = s /\ h[i].by = u
                         /\ \A j \in DOMAIN h : h[j].to = s => j <= i

Signed ==
  /\ Traced
  /\ \A b \in Bookings : Stored(b) =>
       \A s \in Statuses \ {"TENTATIVE"} : LastBy(history[b], s, Stamp(b, s))

LEMMA LastByIsMax ==
  ASSUME NEW h \in Seq(Change), NEW s, NEW u, LastBy(h, s, u)
  PROVE  LET reached == {i \in DOMAIN h : h[i].to = s}
         IN  u = IF reached = {} THEN NULL ELSE h[Max(reached)].by
  <1>. DEFINE reached == {i \in DOMAIN h : h[i].to = s}
  <1>1. CASE reached = {}
    BY <1>1 DEF LastBy
  <1>2. CASE reached # {}
    <2>1. PICK i \in reached : h[i].by = u /\ \A j \in reached : j <= i
      BY <1>2 DEF LastBy
    <2>2. reached \subseteq Nat
      OBVIOUS
    <2>3. \A m \in reached : (\A j \in reached : m >= j) => m = i
      BY <2>1, <2>2
    <2>4. i \in reached /\ \A j \in reached : i >= j
      BY <2>1, <2>2
    <2>. HIDE DEF reached
    <2>5. Max(reached) = i
      BY <2>3, <2>4 DEF Max
    <2>6. u = IF reached = {} THEN NULL ELSE h[Max(reached)].by
      BY <1>2, <2>1, <2>5
    <2>. QED
      BY <2>6 DEF reached
  <1>. QED
    BY <1>1, <1>2

LEMMA LastByAppend ==
  ASSUME NEW h \in Seq(Change), NEW c \in Change, NEW s, NEW u, LastBy(h, s, u)
  PROVE  LastBy(Append(h, c), s, IF c.to = s THEN c.by ELSE u)
  <1>. DEFINE g == Append(h, c)
  <1>1. /\ DOMAIN g = DOMAIN h \cup {Len(h) + 1} /\ DOMAIN h = 1 .. Len(h)
        /\ Len(h) \in Nat /\ g[Len(h) + 1] = c
        /\ \A i \in DOMAIN h : g[i] = h[i]
    OBVIOUS
  <1>. HIDE DEF g
  <1>2. CASE c.to = s
    <2>1. \A j \in DOMAIN g : j <= Len(h) + 1
      BY <1>1
    <2>. QED
      BY <1>1, <1>2, <2>1 DEF LastBy, g
  <1>3. CASE c.to # s
    <2>1. CASE u = NULL /\ \A i \in DOMAIN h : h[i].to # s
      BY <1>1, <1>3, <2>1 DEF LastBy, g
    <2>2. CASE \E i \in DOMAIN h : /\ h[i].to = s /\ h[i].by = u
                                   /\ \A j \in DOMAIN h : h[j].to = s => j <= i
      BY <1>1, <1>3, <2>2 DEF LastBy, g
    <2>. QED
      BY <2>1, <2>2 DEF LastBy
  <1>. QED
    BY <1>2, <1>3

(* A change of the status stamps the row with its author. *)
LEMMA StampedStamps ==
  ASSUME NEW t \in StatusTask, t.to # "TENTATIVE", NEW v \in Row
  PROVE  LET w == Stamped(t, v)
         IN  /\ w.confirmedBy = IF t.to = "CONFIRMED" THEN t.user ELSE v.confirmedBy
             /\ w.cancelledBy = IF t.to = "CANCELLED" THEN t.user ELSE v.cancelledBy
             /\ w.completedBy = IF t.to = "COMPLETED" THEN t.user ELSE v.completedBy
  BY DEF Stamped, StatusTask, Row, Statuses

(* Nothing else touches the stamps of a stored booking, or its history. *)
LEMMA StampFrame ==
  ASSUME Typed, [Next]_vars, NEW b \in Bookings, Stored(b),
         \A r \in Requests : ~WriteStatus(r)
  PROVE  /\ history'[b] = history[b]
         /\ row'[b].confirmedBy = row[b].confirmedBy
         /\ row'[b].cancelledBy = row[b].cancelledBy
         /\ row'[b].completedBy = row[b].completedBy
  <1>1. row[b] \in Row
    BY RowShape DEF Typed
  <1>2. history'[b] = history[b]
    BY StatusFrame
  <1>3. CASE row'[b] = row[b]
    BY <1>2, <1>3
  <1>4. CASE row'[b] # row[b]
    <2>1. PICK r \in Requests : Continue(r)
      BY <1>4, QuietFrame
    <2>. QED
      BY <1>1, <1>2, <1>4, <2>1, WriteFrame DEF Row
  <1>. QED
    BY <1>3, <1>4

LEMMA SignedNext ==
  ASSUME Signed, [Next]_vars, NEW b \in Bookings, Stored(b)',
         NEW s \in Statuses \ {"TENTATIVE"}
  PROVE  LastBy(history'[b], s, Stamp(b, s)')
  <1>1. CASE Stored(b)
    <2>1. LastBy(history[b], s, Stamp(b, s)) /\ history[b] \in Seq(Change)
      BY <1>1 DEF Signed, Traced, Typed, TypeOK
    <2>2. CASE \A r \in Requests : ~WriteStatus(r)
      <3>1. history'[b] = history[b] /\ Stamp(b, s)' = Stamp(b, s)
        BY <1>1, <2>2, StampFrame DEF Signed, Traced, Stamp
      <3>. QED
        BY <2>1, <3>1
    <2>3. ASSUME NEW r \in Requests, WriteStatus(r)
          PROVE  LastBy(history'[b], s, Stamp(b, s)')
      <3>1. PICK t \in StatusTask : t = task[r]
        BY <2>3, TaskShape DEF WriteStatus, Signed, Traced, Typed, TypeOK
      <3>. DEFINE change == [from |-> t.from, to |-> t.to, by |-> t.user]
      <3>2. t.to # "TENTATIVE" /\ change \in Change
        <4>1. isValidStatusTransition(t.from, t.to)
          BY <2>3, <3>1 DEF Signed, Traced, Traceable, WriteStatus
        <4>2. t.from \in Statuses /\ t.to \in Statuses /\ t.user \in Users
          BY DEF StatusTask
        <4>. QED
          BY <4>1, <4>2 DEF isValidStatusTransition, AllowedTransitions, Statuses, Change
      <3>3. CASE b = t.booking
        <4>1. /\ row'[b] = Stamped(t, row[b])
              /\ history'[b] = Append(history[b], change)
          BY <2>3, <3>1, <3>3 DEF WriteStatus, Signed, Traced, Typed, TypeOK
        <4>2. row[b] \in Row
          BY <1>1, RowShape DEF Signed, Traced, Typed
        <4>3. Stamp(b, s)' = IF t.to = s THEN t.user ELSE Stamp(b, s)
          BY <3>2, <4>1, <4>2, StampedStamps DEF Stamp, Statuses
        <4>4. change.to = t.to /\ change.by = t.user
          OBVIOUS
        <4>5. LastBy(Append(history[b], change), s,
                     IF change.to = s THEN change.by ELSE Stamp(b, s))
          <5>. HIDE DEF change
          <5>. QED
            BY <2>1, <3>2, LastByAppend
        <4>. QED
          BY <4>1, <4>3, <4>4, <4>5
      <3>4. CASE b # t.booking
        <4>1. row'[b] = row[b] /\ history'[b] = history[b]
          BY <2>3, <3>1, <3>4 DEF WriteStatus, Signed, Traced, Typed, TypeOK
        <4>. QED
          BY <2>1, <4>1 DEF Stamp
      <3>. QED
        BY <3>3, <3>4
    <2>. QED
      BY <2>2, <2>3
  <1>2. CASE ~Stored(b)
    <2>1. PICK r \in Requests, suffix \in NumberSuffixes :
            /\ task[r] \in InsertTask
            /\ row' = [row EXCEPT ![b] = NewRow(task[r], suffix)]
            /\ history' = [history EXCEPT ![b] = NewHistory(task[r])]
      BY <1>2, CreateFrame DEF Signed, Traced, Stored
    <2>2. PICK t \in InsertTask : t = task[r]
      BY <2>1
    <2>3. row'[b] = NewRow(t, suffix) /\ history'[b] = NewHistory(t)
      BY <2>1, <2>2 DEF Signed, Traced, Typed, TypeOK
    <2>4. CASE t.direct
      <3>1. /\ DOMAIN history'[b] = {1, 2}
            /\ history'[b][1].to = "TENTATIVE"
            /\ history'[b][2].to = "CONFIRMED" /\ history'[b][2].by = t.user
        BY <2>3, <2>4 DEF NewHistory
      <3>2. Stamp(b, s)' = IF s = "CONFIRMED" THEN t.user ELSE NULL
        BY <2>3, <2>4 DEF NewRow, Stamp
      <3>. QED
        BY <3>1, <3>2 DEF LastBy
    <2>5. CASE ~t.direct
      <3>1. DOMAIN history'[b] = {1} /\ history'[b][1].to = "TENTATIVE"
        BY <2>3, <2>5 DEF NewHistory
      <3>2. Stamp(b, s)' = NULL
        BY <2>3, <2>5 DEF NewRow, Stamp
      <3>. QED
        BY <3>1, <3>2 DEF LastBy
    <2>. QED
      BY <2>4, <2>5 DEF InsertTask
  <1>. QED
    BY <1>1, <1>2

(***************************************************************************)
(* confirmedBy, cancelledBy and completedBy name who the status history    *)
(* says last confirmed, cancelled or completed the booking, under every    *)
(* race of status changes: the transaction of setBookingStatus writes both *)
(* records, and createBooking starts them alike.                           *)
(***************************************************************************)
THEOREM StampsAreTheHistorys == Spec => []StampsMatchHistory
  <1>1. Init => Signed
    BY InitTyped
    DEF Init, Signed, Traced, HistoryExplainsStatus, Traceable, Stored, Idle
  <1>2. Signed /\ [Next]_vars => Signed'
    <2>. SUFFICES ASSUME Signed, [Next]_vars
                  PROVE  Signed'
      OBVIOUS
    <2>1. Traced'
      <3>1. Typed'
        BY NextTyped DEF Signed, Traced
      <3>. QED
        BY <3>1, HistoryExplainsNext, TraceableNext
        DEF Signed, Traced, HistoryExplainsStatus
    <2>2. \A b \in Bookings : Stored(b)' =>
            \A s \in Statuses \ {"TENTATIVE"} : LastBy(history'[b], s, Stamp(b, s)')
      BY SignedNext
    <2>. QED
      BY <2>1, <2>2 DEF Signed
  <1>3. Signed => StampsMatchHistory
    <2>. SUFFICES ASSUME Signed, NEW b \in Bookings, Stored(b),
                         NEW s \in Statuses \ {"TENTATIVE"}
                  PROVE  LET reached == {i \in DOMAIN history[b] : history[b][i].to = s}
                         IN  Stamp(b, s) = IF reached = {} THEN NULL
                                           ELSE history[b][Max(reached)].by
      BY DEF StampsMatchHistory
    <2>1. history[b] \in Seq(Change) /\ LastBy(history[b], s, Stamp(b, s))
      BY DEF Signed, Traced, Typed, TypeOK
    <2>. QED
      BY <2>1, LastByIsMax
  <1>. QED
    BY <1>1, <1>2, <1>3, PTL DEF Spec

-----------------------------------------------------------------------------
(* ImplementsBookingRules: with one request at a time, what a handler has  *)
(* read and checked still holds of the row when it writes; only the day    *)
(* may have changed in between, which no rule minds.                       *)

Fresh(t) ==
  LET b == t.booking
  IN  /\ t.op # "reread"
      /\ t.op \in {"update", "delete", "adjust"} =>
           ~row[b].isDeleted /\ row[b].status \notin Closed
      /\ t.op = "adjust" => row[b].expectedPax = t.seen /\ t.seen + t.delta >= 0
      /\ t.op = "actual" => ~row[b].isDeleted /\ row[b].status \in {"CONFIRMED", "COMPLETED"}
      /\ t.op = "status" => /\ ~row[b].isDeleted /\ row[b].status = t.from
                            /\ isValidStatusTransition(t.from, t.to)
                            /\ t.to = "COMPLETED" => MayComplete(b)

Serial == Typed /\ \A r \in Requests : Fresh(task[r])

OneSlot == \A q, r \in Requests : q = r

LEMMA OnlyTask ==
  ASSUME Typed, OneSlot, NEW r \in Requests, NEW t, task' = [task EXCEPT ![r] = t]
  PROVE  \A s \in Requests : s = r /\ task'[s] = t
  BY DEF Typed, TypeOK, OneSlot

LEMMA FreshWhenRead ==
  ASSUME Serial, OneSlot, NEW r \in Requests, Begin(r)
  PROVE  \A s \in Requests : Fresh(task[s])'
  <1>. UNCHANGED <<row, today>>
    BY DEF Begin, BeginCreate, BeginUpdate, BeginDelete, BeginAdjust, BeginActualPax,
           BeginStatus
  <1>1. ASSUME NEW t, task' = [task EXCEPT ![r] = t], Fresh(t)
        PROVE  \A s \in Requests : Fresh(task[s])'
    <2>1. ASSUME NEW s \in Requests
          PROVE  Fresh(task[s])'
      <3>1. task'[s] = t
        BY <1>1, OnlyTask DEF Serial
      <3>. QED
        BY <1>1, <3>1 DEF Fresh, MayComplete
    <2>. QED
      BY <2>1
  <1>2. CASE BeginCreate(r)
    BY <1>1, <1>2 DEF BeginCreate, Accept, Fresh
  <1>3. CASE BeginUpdate(r) \/ BeginDelete(r)
    BY <1>1, <1>3 DEF BeginUpdate, BeginDelete, Accept, Reachable, Fresh
  <1>4. CASE BeginAdjust(r)
    BY <1>1, <1>4 DEF BeginAdjust, MayAdjust, Accept, Reachable, Fresh
  <1>5. CASE BeginActualPax(r)
    <2>1. PICK b \in Bookings, n \in ActualPaxes :
            /\ Stored(b) /\ ~row[b].isDeleted
            /\ row[b].status \notin {"CANCELLED", "TENTATIVE"}
            /\ task' = [task EXCEPT ![r] = [op |-> "actual", booking |-> b, actualPax |-> n]]
      BY <1>5 DEF BeginActualPax, Accept, Reachable
    <2>2. row[b].status \in {"CONFIRMED", "COMPLETED"}
      BY <2>1, RowShape DEF Serial, Typed, Row, Statuses
    <2>3. Fresh([op |-> "actual", booking |-> b, actualPax |-> n])
      BY <2>1, <2>2 DEF Fresh
    <2>. QED
      BY <1>1, <2>1, <2>3
  <1>6. CASE BeginStatus(r)
    <2>1. PICK u \in Users, b \in Bookings, to \in Statuses \ {"TENTATIVE"} :
            /\ ~row[b].isDeleted
            /\ isValidStatusTransition(row[b].status, to)
            /\ to = "COMPLETED" => MayComplete(b)
            /\ task' = [task EXCEPT ![r] = [op |-> "status", booking |-> b, user |-> u,
                                            from |-> row[b].status, to |-> to]]
      BY <1>6 DEF BeginStatus, Accept, Reachable
    <2>2. Fresh([op |-> "status", booking |-> b, user |-> u, from |-> row[b].status, to |-> to])
      BY <2>1 DEF Fresh
    <2>. QED
      BY <1>1, <2>1, <2>2
  <1>. QED
    BY <1>2, <1>3, <1>4, <1>5, <1>6 DEF Begin

LEMMA SerialNext ==
  ASSUME Serial, OneSlot, [Next]_vars
  PROVE  Serial'
  <1>1. Typed'
    BY NextTyped DEF Serial
  <1>2. ASSUME NEW r \in Requests, NEW t, task' = [task EXCEPT ![r] = t],
               t.op \in {"idle", "insert", "record"}
        PROVE  \A s \in Requests : Fresh(task[s])'
    <2>1. ASSUME NEW s \in Requests
          PROVE  Fresh(task[s])'
      <3>1. task'[s] = t
        BY <1>2, OnlyTask DEF Serial
      <3>. QED
        BY <1>2, <3>1 DEF Fresh
    <2>. QED
      BY <2>1
  <1>3. ASSUME NEW r \in Requests, Answer(r)
        PROVE  \A s \in Requests : Fresh(task[s])'
    BY <1>2, <1>3 DEF Answer, Idle
  <1>4. ASSUME NEW r \in Requests, Continue(r)
        PROVE  \A s \in Requests : Fresh(task[s])'
    <2>1. Fresh(task[r])
      BY DEF Serial
    <2>2. CASE CompareAndSetPax(r)
      <3>1. task[r] \in AdjustTask
        BY <2>2, TaskShape DEF CompareAndSetPax, Serial, Typed, TypeOK
      <3>2. /\ task' = [task EXCEPT ![r] = [task[r] EXCEPT !.op = "record"]]
            /\ [task[r] EXCEPT !.op = "record"].op = "record"
        BY <2>2, <3>1 DEF CompareAndSetPax, AdjustTask
      <3>. QED
        BY <1>2, <3>2
    <2>3. CASE BookingNumberCollides(r)
      <3>1. task[r] \in InsertTask
        BY <2>3, TaskShape DEF BookingNumberCollides, Serial, Typed, TypeOK
      <3>2. \/ task' = [task EXCEPT ![r] = [task[r] EXCEPT !.attempt = @ + 1]]
            \/ Answer(r)
        BY <2>3 DEF BookingNumberCollides
      <3>3. [task[r] EXCEPT !.attempt = @ + 1].op = "insert"
        BY <3>1 DEF InsertTask
      <3>. QED
        BY <1>2, <1>3, <3>2, <3>3
    <2>4. CASE LoseCompareAndSet(r) \/ RereadPax(r)
      BY <2>1, <2>4 DEF LoseCompareAndSet, RereadPax, Fresh
    <2>. QED
      BY <1>3, <1>4, <2>2, <2>3, <2>4
      DEF Continue, InsertBooking, WriteUpdate, WriteDelete, RecordAdjustment, WriteActualPax,
          WriteStatus
  <1>5. CASE DayPasses
    <2>1. ASSUME NEW s \in Requests
          PROVE  Fresh(task[s])'
      <3>1. Fresh(task[s]) /\ row' = row /\ task' = task /\ today' = today + 1
        BY <1>5 DEF DayPasses, Serial
      <3>2. CASE task[s].op = "status"
        <4>1. PICK b \in Bookings : b = task[s].booking /\ row[b] \in Row
          BY <3>2, TaskBooking, RowShape DEF Serial, Typed, TypeOK, HoldsRow
        <4>2. row[b].partyDate \in Nat /\ today \in Nat
          BY <4>1, BookingAssumption DEF Row, Days, Serial, Typed, TypeOK
        <4>3. MayComplete(b) => row[b].actualPax # NULL /\ row[b].partyDate <= today + 1
          BY <4>2 DEF MayComplete
        <4>. QED
          BY <3>1, <3>2, <4>1, <4>3 DEF Fresh, MayComplete
      <3>3. CASE task[s].op # "status"
        BY <3>1, <3>3 DEF Fresh
      <3>. QED
        BY <3>2, <3>3
    <2>. QED
      BY <1>1, <2>1 DEF Serial
  <1>6. CASE UNCHANGED vars
    BY <1>1, <1>6 DEF vars, Serial, Fresh, MayComplete
  <1>. QED
    BY <1>1, <1>3, <1>4, <1>5, <1>6, FreshWhenRead DEF Next, Serial, RequestDies

(* What the rules see of a row. *)
RuleOf(v) ==
  [status |-> v.status, partyDate |-> v.partyDate, expectedPax |-> v.expectedPax,
   actualPax |-> v.actualPax, isDeleted |-> v.isDeleted]

LEMMA RuleOfRow ==
  ASSUME NEW v \in Row
  PROVE  RuleOf(v) \in RuleRow /\ RuleOf(v) # NULL /\ v # NoRow
  <1>1. v # NoRow
    BY DEF Row, NoRow
  <1>2. RuleOf(v) \in RuleRow
    BY DEF RuleOf, RuleRow, Row
  <1>. QED
    BY <1>1, <1>2, RuleRowAssumption

LEMMA ViewOfBooking ==
  ASSUME Typed, NEW b \in Bookings
  PROVE  /\ ruleView \in [Bookings -> RuleRow \cup {NULL}]
         /\ Stored(b) => /\ row[b] \in Row /\ ruleView[b] = RuleOf(row[b])
                         /\ ruleView[b] # NULL
         /\ ~Stored(b) => ruleView[b] = NULL
  <1>1. \A c \in Bookings : Stored(c) => row[c] \in Row
    BY RowShape DEF Typed
  <1>2. ruleView = [c \in Bookings |-> IF Stored(c) THEN RuleOf(row[c]) ELSE NULL]
    BY DEF ruleView, RuleOf
  <1>. QED
    BY <1>1, <1>2, RuleOfRow

(* A handler's write is a write to what the rules see. *)
LEMMA ViewStep ==
  ASSUME Typed, NEW b \in Bookings, NEW v \in Row, row' = [row EXCEPT ![b] = v]
  PROVE  ruleView' = [ruleView EXCEPT ![b] = RuleOf(v)]
  <1>1. v # NoRow
    BY RuleOfRow
  <1>2. row' \in [Bookings -> Row \cup {NoRow}] /\ row'[b] = v
        /\ \A c \in Bookings \ {b} : row'[c] = row[c]
    BY DEF Typed, TypeOK
  <1>3. ruleView' = [c \in Bookings |-> IF row'[c] # NoRow THEN RuleOf(row'[c]) ELSE NULL]
    BY DEF ruleView, RuleOf, Stored
  <1>4. ruleView = [c \in Bookings |-> IF row[c] # NoRow THEN RuleOf(row[c]) ELSE NULL]
    BY DEF ruleView, RuleOf, Stored
  <1>. QED
    BY <1>1, <1>2, <1>3, <1>4

LEMMA RulesInit == Init => Rules!Init
  BY DEF Init, Rules!Init, ruleView, Stored

(* A single step of the rules, for every handler's write. *)
LEMMA InsertIsCreate ==
  ASSUME Typed, NEW r \in Requests, InsertBooking(r)
  PROVE  \E b \in Bookings : Rules!Create(b)
  <1>0. PICK t \in InsertTask : t = task[r]
    BY InsertFrame
  <1>1. PICK b \in Bookings, suffix \in NumberSuffixes :
          ~Stored(b) /\ row' = [row EXCEPT ![b] = NewRow(task[r], suffix)]
    BY DEF InsertBooking
  <1>2. /\ t.pax \in InitialPaxes /\ t.partyDate \in Days /\ t.user \in Users
        /\ t.branch \in Branches
    BY DEF InsertTask
  <1>3. NewRow(t, suffix) \in Row
    <2>1. t.pax \in Nat /\ t.pax \in Int
      BY <1>2, PaxesAreNumbers
    <2>. QED
      BY <1>2, <2>1 DEF NewRow, Row, Numbers, Statuses
  <1>4. /\ ruleView' = [ruleView EXCEPT ![b] = RuleOf(NewRow(t, suffix))]
        /\ ruleView[b] = NULL
    BY <1>0, <1>1, <1>3, ViewStep, ViewOfBooking
  <1>5. RuleOf(NewRow(t, suffix)) =
          [status |-> IF t.direct THEN "CONFIRMED" ELSE "TENTATIVE",
           partyDate |-> t.partyDate, expectedPax |-> t.pax, actualPax |-> NULL,
           isDeleted |-> FALSE]
    BY DEF RuleOf, NewRow
  <1>6. today' = today
    BY DEF InsertBooking
  <1>7. Rules!Create(b)
    BY <1>2, <1>4, <1>5, <1>6 DEF Rules!Create, Rules!Days, Days
  <1>. QED
    BY <1>7

LEMMA WriteFollowsARule ==
  ASSUME Serial, NEW r \in Requests, NEW b \in Bookings, b = task[r].booking, Stored(b),
         WriteUpdate(r) \/ WriteDelete(r) \/ CompareAndSetPax(r) \/ WriteActualPax(r)
           \/ WriteStatus(r)
  PROVE  \/ Rules!Reschedule(b) \/ Rules!Delete(b)
         \/ Rules!AdjustPax(b) \/ Rules!RecordActualPax(b)
         \/ Rules!Confirm(b) \/ Rules!Cancel(b) \/ Rules!Complete(b)
  <1>. Typed /\ Fresh(task[r]) /\ task[r] \in Task
    BY DEF Serial, Typed, TypeOK
  <1>1. /\ row[b] \in Row /\ ruleView[b] # NULL
        /\ ruleView[b] = RuleOf(row[b])
        /\ ruleView \in [Bookings -> RuleRow \cup {NULL}]
    BY ViewOfBooking
  <1>2. /\ ruleView[b].status = row[b].status
        /\ ruleView[b].partyDate = row[b].partyDate
        /\ ruleView[b].expectedPax = row[b].expectedPax
        /\ ruleView[b].actualPax = row[b].actualPax
        /\ ruleView[b].isDeleted <=> row[b].isDeleted
    <2>1. row[b].isDeleted \in BOOLEAN
      BY <1>1 DEF Row
    <2>. QED
      BY <1>1, <2>1 DEF RuleOf
  <1>3. /\ ~row[b].isDeleted => Rules!Live(b)
        /\ ~row[b].isDeleted /\ row[b].status \notin Closed => Rules!Open(b)
    <2>1. row[b].status \in Statuses
      BY <1>1 DEF Row
    <2>. QED
      BY <1>1, <1>2, <2>1 DEF Rules!Live, Rules!Open, Statuses, Closed
  <1>4. ASSUME NEW v \in Row, row' = [row EXCEPT ![b] = v]
        PROVE  ruleView' = [ruleView EXCEPT ![b] = RuleOf(v)]
    BY <1>4, ViewStep
  <1>5. CASE WriteUpdate(r)
    <2>1. PICK d \in Days : d = task[r].partyDate
      BY <1>5, TaskShape DEF WriteUpdate, UpdateTask
    <2>2. /\ row' = [row EXCEPT ![b] = [row[b] EXCEPT !.partyDate = d]]
          /\ today' = today
          /\ ~row[b].isDeleted /\ row[b].status \notin Closed
      BY <1>5, <2>1 DEF WriteUpdate, Fresh
    <2>3. /\ [row[b] EXCEPT !.partyDate = d] \in Row
          /\ RuleOf([row[b] EXCEPT !.partyDate = d]) = [ruleView[b] EXCEPT !.partyDate = d]
      BY <1>1, <2>1 DEF Row, RuleOf
    <2>4. ruleView' = [ruleView EXCEPT ![b].partyDate = d]
      BY <1>1, <1>4, <2>2, <2>3
    <2>. QED
      BY <1>3, <2>2, <2>4 DEF Rules!Reschedule, Rules!Days, Days
  <1>6. CASE WriteDelete(r)
    <2>1. /\ row' = [row EXCEPT ![b] = [row[b] EXCEPT !.isDeleted = TRUE]]
          /\ today' = today
          /\ ~row[b].isDeleted /\ row[b].status \notin Closed
      BY <1>6 DEF WriteDelete, Fresh
    <2>2. \A d \in BOOLEAN : /\ [row[b] EXCEPT !.isDeleted = d] \in Row
                            /\ RuleOf([row[b] EXCEPT !.isDeleted = d])
                                 = [ruleView[b] EXCEPT !.isDeleted = d]
      <3>1. ASSUME NEW d \in BOOLEAN
            PROVE  /\ [row[b] EXCEPT !.isDeleted = d] \in Row
                   /\ RuleOf([row[b] EXCEPT !.isDeleted = d])
                        = [ruleView[b] EXCEPT !.isDeleted = d]
        BY <1>1 DEF Row, RuleOf
      <3>. QED
        BY <3>1
    <2>3. ruleView' = [ruleView EXCEPT ![b].isDeleted = TRUE]
      BY <1>1, <1>4, <2>1, <2>2
    <2>. QED
      BY <1>3, <2>1, <2>3 DEF Rules!Delete
  <1>7. CASE CompareAndSetPax(r)
    <2>1. PICK n \in Int, d \in Deltas : n = task[r].seen /\ d = task[r].delta
      BY <1>7, TaskShape DEF CompareAndSetPax, AdjustTask
    <2>2. /\ row' = [row EXCEPT ![b] = [row[b] EXCEPT !.expectedPax = n + d]]
          /\ today' = today /\ row[b].expectedPax = n /\ n + d >= 0
          /\ ~row[b].isDeleted /\ row[b].status \notin Closed
      BY <1>7, <2>1 DEF CompareAndSetPax, Fresh
    <2>3. /\ [row[b] EXCEPT !.expectedPax = n + d] \in Row
          /\ RuleOf([row[b] EXCEPT !.expectedPax = n + d])
               = [ruleView[b] EXCEPT !.expectedPax = n + d]
      BY <1>1, <2>1, PaxesAreNumbers DEF Row, RuleOf
    <2>4. ruleView' = [ruleView EXCEPT ![b].expectedPax = @ + d]
      BY <1>1, <1>2, <1>4, <2>2, <2>3
    <2>5. ruleView[b].expectedPax + d >= 0
      BY <1>2, <2>2
    <2>. QED
      BY <1>3, <2>1, <2>2, <2>4, <2>5 DEF Rules!AdjustPax
  <1>8. CASE WriteActualPax(r)
    <2>1. PICK n \in ActualPaxes : n = task[r].actualPax
      BY <1>8, TaskShape DEF WriteActualPax, ActualTask
    <2>2. /\ row' = [row EXCEPT ![b] = [row[b] EXCEPT !.actualPax = n]]
          /\ today' = today
          /\ ~row[b].isDeleted /\ row[b].status \in {"CONFIRMED", "COMPLETED"}
      BY <1>8, <2>1 DEF WriteActualPax, Fresh
    <2>3. /\ [row[b] EXCEPT !.actualPax = n] \in Row
          /\ RuleOf([row[b] EXCEPT !.actualPax = n]) = [ruleView[b] EXCEPT !.actualPax = n]
      BY <1>1, <2>1, BookingAssumption DEF Row, RuleOf
    <2>4. ruleView' = [ruleView EXCEPT ![b].actualPax = n]
      BY <1>1, <1>4, <2>2, <2>3
    <2>. QED
      BY <1>2, <1>3, <2>2, <2>4 DEF Rules!RecordActualPax
  <1>9. CASE WriteStatus(r)
    <2>1. PICK t \in StatusTask : t = task[r]
      BY <1>9, TaskShape DEF WriteStatus
    <2>2. /\ row' = [row EXCEPT ![b] = Stamped(t, row[b])]
          /\ today' = today
          /\ ~row[b].isDeleted /\ isValidStatusTransition(row[b].status, t.to)
          /\ t.to = "COMPLETED" => MayComplete(b)
      BY <1>9, <2>1 DEF WriteStatus, Fresh
    <2>3. /\ Stamped(t, row[b]) \in Row
          /\ RuleOf(Stamped(t, row[b])) = [ruleView[b] EXCEPT !.status = t.to]
      <3>1. Stamped(t, row[b]) \in Row
        BY <1>1 DEF Row, Stamped, StatusTask
      <3>2. /\ Stamped(t, row[b]).status = t.to
            /\ Stamped(t, row[b]).partyDate = row[b].partyDate
            /\ Stamped(t, row[b]).expectedPax = row[b].expectedPax
            /\ Stamped(t, row[b]).actualPax = row[b].actualPax
            /\ Stamped(t, row[b]).isDeleted = row[b].isDeleted
        BY <1>1 DEF Row, Stamped
      <3>3. RuleOf(Stamped(t, row[b])) =
              [status |-> t.to, partyDate |-> row[b].partyDate,
               expectedPax |-> row[b].expectedPax, actualPax |-> row[b].actualPax,
               isDeleted |-> row[b].isDeleted]
        BY <3>2 DEF RuleOf
      <3>. QED
        BY <1>1, <3>1, <3>3 DEF RuleOf
    <2>4. ruleView' = [ruleView EXCEPT ![b].status = t.to]
      BY <1>1, <1>4, <2>2, <2>3
    <2>5. \/ row[b].status = "TENTATIVE" /\ t.to \in {"CONFIRMED", "CANCELLED"}
          \/ row[b].status = "CONFIRMED" /\ t.to \in {"CANCELLED", "COMPLETED"}
      <3>1. row[b].status \in Statuses
        BY <1>1 DEF Row
      <3>2. t.to \in AllowedTransitions[row[b].status]
        BY <2>2 DEF isValidStatusTransition
      <3>. QED
        BY <3>1, <3>2 DEF AllowedTransitions, Statuses
    <2>6. Rules!Live(b) /\ Rules!Open(b)
      BY <1>3, <2>2, <2>5 DEF Closed
    <2>7. CASE t.to = "CONFIRMED"
      BY <1>2, <2>2, <2>4, <2>5, <2>6, <2>7 DEF Rules!Confirm, Rules!Become
    <2>8. CASE t.to = "CANCELLED"
      BY <2>2, <2>4, <2>6, <2>8 DEF Rules!Cancel, Rules!Become
    <2>9. CASE t.to = "COMPLETED"
      BY <1>2, <2>2, <2>4, <2>5, <2>6, <2>9 DEF Rules!Complete, Rules!Become, MayComplete
    <2>. QED
      BY <2>5, <2>7, <2>8, <2>9
  <1>. QED
    BY <1>5, <1>6, <1>7, <1>8, <1>9

LEMMA RulesStep ==
  ASSUME Serial, [Next]_vars
  PROVE  [Rules!Next]_<<ruleView, today>>
  <1>. Typed
    BY DEF Serial
  <1>1. CASE UNCHANGED <<row, today>>
    BY <1>1 DEF ruleView, Stored
  <1>2. ASSUME NEW r \in Requests, Continue(r)
        PROVE  [Rules!Next]_<<ruleView, today>>
    <2>1. CASE InsertBooking(r)
      BY <2>1, InsertIsCreate DEF Rules!Next
    <2>2. CASE WriteUpdate(r) \/ WriteDelete(r) \/ CompareAndSetPax(r) \/ WriteActualPax(r)
                 \/ WriteStatus(r)
      <3>1. task[r].op \notin {"idle", "insert"}
        BY <2>2 DEF WriteUpdate, WriteDelete, CompareAndSetPax, WriteActualPax, WriteStatus
      <3>2. PICK b \in Bookings : b = task[r].booking /\ Stored(b)
        BY <3>1, TaskBooking DEF Typed, TypeOK, HoldsRow
      <3>. QED
        BY <2>2, <3>2, WriteFollowsARule DEF Rules!Next
    <2>3. CASE BookingNumberCollides(r) \/ LoseCompareAndSet(r) \/ RereadPax(r)
                 \/ RecordAdjustment(r)
      BY <1>1, <2>3
      DEF BookingNumberCollides, LoseCompareAndSet, RereadPax, RecordAdjustment
    <2>. QED
      BY <1>2, <2>1, <2>2, <2>3 DEF Continue
  <1>3. CASE DayPasses
    <2>1. today' = today + 1 /\ today' \in Days /\ row' = row
      BY <1>3, BookingAssumption DEF DayPasses, Days, Typed, TypeOK
    <2>2. ruleView' = ruleView
      BY <2>1 DEF ruleView, Stored
    <2>. QED
      BY <2>1, <2>2 DEF Rules!Next, Rules!DayPasses, Rules!Days, Days
  <1>4. ASSUME NEW r \in Requests, Begin(r) \/ RequestDies(r)
        PROVE  UNCHANGED <<row, today>>
    BY <1>4 DEF Begin, BeginCreate, BeginUpdate, BeginDelete, BeginAdjust, BeginActualPax,
                BeginStatus, RequestDies
  <1>. QED
    BY <1>1, <1>2, <1>3, <1>4 DEF Next, vars

(***************************************************************************)
(* With requests handled one at a time, whatever dies or lasts past        *)
(* midnight, what the module does to bookings is what the rules of         *)
(* BookingRules allow, one step of theirs for every write.                 *)
(***************************************************************************)
THEOREM OneByOneTheRulesHold ==
  ASSUME OneSlot
  PROVE  Spec => ImplementsBookingRules
  <1>1. Init => Serial
    BY InitTyped DEF Init, Serial, Fresh, Idle
  <1>2. Serial /\ [Next]_vars => Serial'
    BY SerialNext
  <1>3. Serial /\ [Next]_vars => [Rules!Next]_<<ruleView, today>>
    BY RulesStep
  <1>. QED
    BY <1>1, <1>2, <1>3, RulesInit, PTL
    DEF Spec, ImplementsBookingRules, Rules!Spec, Rules!vars

=============================================================================
