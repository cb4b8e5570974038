--------------------------- MODULE InventoryProofs ---------------------------
(***************************************************************************)
(* Theorems about Inventory, for every value of its constants.             *)
(***************************************************************************)
EXTENDS InventoryRefinement, FiniteSetTheorems, WellFoundedInduction, TLAPS

(* A handler that has read a statement holds the key of a stored row. *)
HoldsRow(t) == t.op \in {"lines", "write", "status", "announce"} => Exists(t.statement)

(* The inductive form of the type invariant: statements are never removed. *)
Typed == TypeOK /\ \A r \in Requests : HoldsRow(task[r])

-----------------------------------------------------------------------------
(* Lemmas about the pieces of the state. *)

LEMMA TaskShape ==
  ASSUME NEW t \in Task
  PROVE  /\ t.op = "create" => t \in CreateTask
         /\ t.op = "lines" => t \in LinesTask
         /\ t.op = "write" => t \in WriteTask
         /\ t.op = "status" => t \in StatusTask
         /\ t.op = "announce" => t \in AnnounceTask
  BY DEF Task, Idle, CreateTask, LinesTask, WriteTask, StatusTask, AnnounceTask

LEMMA TaskStatement ==
  ASSUME NEW t \in Task, t.op \in {"lines", "write", "status", "announce"}
  PROVE  t.statement \in Statements
  BY DEF Task, Idle, CreateTask, LinesTask, WriteTask, StatusTask, AnnounceTask

LEMMA RowShape ==
  ASSUME TypeOK, NEW s \in Statements
  PROVE  Exists(s) <=> statement[s] \in Row
  BY DEF TypeOK, Exists, Row, NoRow

LEMMA NoRowIsNoLine == NoRow \notin Line
  BY DEF NoRow, Line

LEMMA IdleIsTask == Idle \in Task /\ HoldsRow(Idle)
  BY DEF Task, Idle, HoldsRow

(* One handler moves to another local state, nothing else changes. *)
LEMMA TaskStep ==
  ASSUME Typed, NEW r \in Requests, NEW t \in Task, HoldsRow(t),
         task' = [task EXCEPT ![r] = t],
         UNCHANGED <<item, statement, line, announced, failures>>
  PROVE  Typed'
  BY DEF Typed, TypeOK, HoldsRow, Exists

(* A handler writes one statement row and moves on. *)
LEMMA RowStep ==
  ASSUME Typed, NEW r \in Requests, NEW t \in Task, HoldsRow(t),
         NEW s \in Statements, NEW v \in Row,
         statement' = [statement EXCEPT ![s] = v],
         task' = [task EXCEPT ![r] = t]
  PROVE  /\ statement' \in [Statements -> Row \cup {NoRow}]
         /\ task' \in [Requests -> Task]
         /\ \A q \in Requests : HoldsRow(task[q])'
  <1>1. /\ statement' \in [Statements -> Row \cup {NoRow}]
        /\ task' \in [Requests -> Task]
    BY DEF Typed, TypeOK
  <1>2. \A e \in Statements : Exists(e) => Exists(e)'
    <2>1. NoRow \notin Row
      BY DEF Row, NoRow
    <2>. QED
      BY <2>1 DEF Typed, TypeOK, Exists
  <1>3. ASSUME NEW q \in Requests
        PROVE  HoldsRow(task[q])'
    <2>1. task'[q].op \in {"lines", "write", "status", "announce"} =>
            task'[q].statement \in Statements /\ Exists(task'[q].statement)
      BY TaskStatement DEF Typed, TypeOK, HoldsRow
    <2>. QED
      BY <1>2, <2>1 DEF HoldsRow, Exists
  <1>. QED
    BY <1>1, <1>3

LEMMA EditedIsLine ==
  ASSUME NEW input \in Inputs, NEW seen \in Line
  PROVE  /\ Edited(input, seen) \in Line
         /\ Edited(input, seen).closingStock = Closing(Edited(input, seen))
         /\ input.openingStock = NULL =>
              Edited(input, seen).openingStock = seen.openingStock
  <1>. DEFINE o == Given(input.openingStock, seen.openingStock)
              a == Given(input.added, seen.added)
              b == Given(input.brokenLost, seen.brokenLost)
              j == Given(input.reject, seen.reject)
  <1>1. o \in Int /\ a \in Int /\ b \in Int /\ j \in Int
    BY InventoryAssumption DEF Input, Line, Given
  <1>2. Edited(input, seen) =
          [openingStock |-> o, added |-> a, brokenLost |-> b, reject |-> j,
           closingStock |-> o + a - b - j]
    BY DEF Edited
  <1>3. input.openingStock = NULL => o = seen.openingStock
    BY DEF Given
  <1>. HIDE DEF o, a, b, j
  <1>. QED
    BY <1>1, <1>2, <1>3 DEF Line, Closing

LEMMA UpdatesAreLines ==
  ASSUME NEW payload \in [Items -> Inputs \cup {NULL}], NEW seen \in Lines
  PROVE  Updates(payload, seen) \in Lines
  <1>1. ASSUME NEW i \in Named(payload, seen)
        PROVE  i \in Items /\ payload[i] \in Inputs /\ seen[i] \in Line
    BY DEF Named, Lines
  <1>2. ASSUME NEW i \in Items
        PROVE  Updates(payload, seen)[i] \in Line \cup {NoRow}
    BY <1>1, EditedIsLine DEF Updates
  <1>. QED
    BY <1>2 DEF Updates, Lines

(* A branch has a latest earlier statement if it has an earlier one. *)
LEMMA LatestExists ==
  ASSUME NEW T, T \subseteq Months, T # {}
  PROVE  Max(T) \in T /\ \A y \in T : Max(T) >= y
  <1>. DEFINE D == {MaxMonth - m : m \in T}
  <1>1. D \subseteq Nat /\ D # {}
    <2>1. \A m \in T : MaxMonth - m \in Nat
      BY InventoryAssumption DEF Months
    <2>. QED
      BY <2>1
  <1>2. PICK d \in D : \A c \in D : ~(<<c, d>> \in OpToRel(<, Nat))
    BY <1>1, WFMin, NatLessThanWellFounded, Zenon
  <1>3. \A c \in D : ~(c < d)
    BY <1>1, <1>2 DEF OpToRel
  <1>4. PICK x \in T : d = MaxMonth - x
    OBVIOUS
  <1>5. ASSUME NEW y \in T
        PROVE  x >= y
    <2>1. MaxMonth - y \in D
      OBVIOUS
    <2>2. ~(MaxMonth - y < MaxMonth - x)
      BY <1>3, <1>4, <2>1
    <2>3. MaxMonth \in Int /\ x \in Int /\ y \in Int
      BY InventoryAssumption DEF Months
    <2>. QED
      BY <2>2, <2>3
  <1>. QED
    BY <1>4, <1>5 DEF Max

LEMMA CarriedIsNumber ==
  ASSUME Typed, NEW s \in Statements
  PROVE  prevClosing(s) \in [Items -> Int]
  <1>1. ASSUME NEW i \in Items, Earlier(s) # {}
        PROVE  prevClosing(s)[i] \in Int
    <2>. DEFINE months == {e[2] : e \in Earlier(s)}
                p == <<s[1], Max(months)>>
    <2>1. months \subseteq Months /\ months # {}
      BY <1>1 DEF Earlier, Statements
    <2>2. Max(months) \in Months
      BY <2>1, LatestExists
    <2>3. p \in Statements
      BY <2>2 DEF Statements
    <2>. HIDE DEF p
    <2>4. line[p][i] \in Line \cup {NoRow}
      BY <2>3 DEF Typed, TypeOK, Lines
    <2>5. prevClosing(s)[i] = IF line[p][i] = NoRow THEN 0 ELSE line[p][i].closingStock
      BY <1>1 DEF prevClosing, p
    <2>. QED
      BY <2>4, <2>5 DEF Line
  <1>2. ASSUME NEW i \in Items, Earlier(s) = {}
        PROVE  prevClosing(s)[i] \in Int
    BY <1>2 DEF prevClosing
  <1>3. prevClosing(s) = [i \in Items |-> prevClosing(s)[i]]
    BY DEF prevClosing
  <1>. QED
    BY <1>1, <1>2, <1>3

-----------------------------------------------------------------------------
(* Every step keeps the types. *)

LEMMA BeginTyped ==
  ASSUME Typed, NEW r \in Requests, Begin(r)
  PROVE  Typed'
  <1>. USE DEF Accept, HoldsRow
  <1>1. CASE BeginCreate(r)
    <2>1. PICK u \in Users, s \in Statements :
            /\ Accept(r, [op |-> "create", statement |-> s, user |-> u,
                          items |-> NULL, opening |-> NULL])
            /\ UNCHANGED <<item, statement, line, announced, failures>>
      BY <1>1 DEF BeginCreate
    <2>2. [op |-> "create", statement |-> s, user |-> u, items |-> NULL,
           opening |-> NULL] \in CreateTask
      <3>1. ASSUME NEW listed \in (SUBSET Items) \cup {NULL},
                   NEW opened \in [Items -> Int] \cup {NULL}
            PROVE  [op |-> "create", statement |-> s, user |-> u,
                    items |-> listed, opening |-> opened] \in CreateTask
        BY DEF CreateTask
      <3>2. NULL \in (SUBSET Items) \cup {NULL} /\ NULL \in [Items -> Int] \cup {NULL}
        OBVIOUS
      <3>. QED
        BY <3>1, <3>2
    <2>. QED
      BY <2>1, <2>2, TaskStep DEF Task
  <1>2. CASE BeginUpdateLines(r)
    <2>1. PICK s \in Statements, payload \in [Items -> Inputs \cup {NULL}] :
            /\ Exists(s)
            /\ Accept(r, [op |-> "lines", statement |-> s, payload |-> payload,
                          seen |-> line[s]])
            /\ UNCHANGED <<item, statement, line, announced, failures>>
      BY <1>2 DEF BeginUpdateLines
    <2>2. [op |-> "lines", statement |-> s, payload |-> payload,
           seen |-> line[s]] \in LinesTask
      <3>1. line[s] \in Lines
        BY DEF Typed, TypeOK
      <3>. QED
        BY <3>1, Zenon DEF LinesTask
    <2>. QED
      BY <2>1, <2>2, TaskStep DEF Task
  <1>3. CASE BeginStatus(r)
    BY <1>3, TaskStep DEF BeginStatus, Task, StatusTask
  <1>. QED
    BY <1>1, <1>2, <1>3 DEF Begin

LEMMA ReadsTyped ==
  ASSUME Typed, NEW r \in Requests, ReadItems(r) \/ ReadPrevious(r)
  PROVE  Typed'
  <1>1. task[r] \in CreateTask
    BY TaskShape DEF ReadItems, ReadPrevious, Typed, TypeOK
  <1>2. CASE ReadItems(r)
    <2>. DEFINE t == [task[r] EXCEPT !.items = {i \in Items : item[i] = "active"}]
    <2>1. t \in CreateTask /\ t.op = "create"
      BY <1>1 DEF CreateTask
    <2>2. task' = [task EXCEPT ![r] = t]
      BY <1>2 DEF ReadItems
    <2>. HIDE DEF t
    <2>. QED
      BY <1>2, <2>1, <2>2, TaskStep DEF Task, HoldsRow, ReadItems
  <1>3. CASE ReadPrevious(r)
    <2>. DEFINE t == [task[r] EXCEPT !.opening = prevClosing(task[r].statement)]
    <2>1. t \in CreateTask /\ t.op = "create"
      BY <1>1, CarriedIsNumber DEF CreateTask
    <2>2. task' = [task EXCEPT ![r] = t]
      BY <1>3 DEF ReadPrevious
    <2>. HIDE DEF t
    <2>. QED
      BY <1>3, <2>1, <2>2, TaskStep DEF Task, HoldsRow, ReadPrevious
  <1>. QED
    BY <1>2, <1>3

LEMMA InsertTyped ==
  ASSUME Typed, NEW r \in Requests, InsertStatement(r)
  PROVE  Typed'
  <1>1. task[r] \in CreateTask
    BY TaskShape DEF InsertStatement, Typed, TypeOK
  <1>. DEFINE t == task[r]
              s == t.statement
              opened == [i \in Items |-> IF i \in t.items THEN NewLine(t.opening[i])
                                                          ELSE NoRow]
  <1>2. s \in Statements /\ t.user \in Users /\ t.opening \in [Items -> Int]
    BY <1>1 DEF CreateTask, InsertStatement
  <1>3. Cardinality({e \in Statements : Exists(e)}) \in Nat
    <2>1. IsFiniteSet(1 .. MaxMonth)
      BY FS_Interval, InventoryAssumption
    <2>2. IsFiniteSet(Statements)
      BY <2>1, FS_Product, InventoryAssumption DEF Statements, Months
    <2>. QED
      BY <2>2, FS_Subset, FS_CardinalityType
  <1>4. [id          |-> 1 + Cardinality({e \in Statements : Exists(e)}),
         status      |-> "DRAFT",
         submittedBy |-> IF t.user \in Managers THEN t.user ELSE NULL,
         submitted   |-> FALSE] \in Row
    BY <1>2, <1>3 DEF Row, Statuses
  <1>5. opened \in Lines
    BY <1>2 DEF NewLine, Line, Lines
  <1>6. line' \in [Statements -> Lines]
    BY <1>2, <1>5 DEF InsertStatement, Typed, TypeOK
  <1>7. statement' = [statement EXCEPT ![s] =
          [id          |-> 1 + Cardinality({e \in Statements : Exists(e)}),
           status      |-> "DRAFT",
           submittedBy |-> IF t.user \in Managers THEN t.user ELSE NULL,
           submitted   |-> FALSE]]
    BY DEF InsertStatement
  <1>8. /\ task' = [task EXCEPT ![r] = Idle]
        /\ UNCHANGED <<item, announced, failures>>
    BY DEF InsertStatement, Answer
  <1>. HIDE DEF t, s, opened
  <1>. QED
    BY <1>2, <1>4, <1>6, <1>7, <1>8, RowStep, IdleIsTask DEF Typed, TypeOK

LEMMA CheckTyped ==
  ASSUME Typed, NEW r \in Requests, CheckLines(r)
  PROVE  Typed'
  <1>1. task[r] \in LinesTask /\ Exists(task[r].statement)
    BY TaskShape DEF CheckLines, HoldsRow, Typed, TypeOK
  <1>. DEFINE t == [op |-> "write", statement |-> task[r].statement,
                    updates |-> Updates(task[r].payload, task[r].seen)]
  <1>2. t \in WriteTask
    BY <1>1, UpdatesAreLines DEF LinesTask, WriteTask
  <1>3. CASE task' = [task EXCEPT ![r] = t]
    BY <1>1, <1>2, <1>3, TaskStep DEF CheckLines, Task, HoldsRow
  <1>4. CASE Answer(r)
    BY <1>4, TaskStep, IdleIsTask DEF CheckLines, Answer
  <1>. QED
    BY <1>3, <1>4 DEF CheckLines

LEMMA WriteLinesTyped ==
  ASSUME Typed, NEW r \in Requests, WriteLines(r)
  PROVE  Typed'
  <1>1. task[r] \in WriteTask
    BY TaskShape DEF WriteLines, Typed, TypeOK
  <1>2. Merged(task[r].updates, line[task[r].statement]) \in Lines
    BY <1>1 DEF WriteTask, Merged, Lines, Typed, TypeOK
  <1>3. line' \in [Statements -> Lines]
    BY <1>1, <1>2 DEF WriteLines, WriteTask, Typed, TypeOK
  <1>. QED
    BY <1>3, IdleIsTask
    DEF WriteLines, Answer, Typed, TypeOK, HoldsRow, Exists

LEMMA StatusTyped ==
  ASSUME Typed, NEW r \in Requests, WriteStatus(r)
  PROVE  Typed'
  <1>1. task[r] \in StatusTask /\ Exists(task[r].statement)
    BY TaskShape DEF WriteStatus, HoldsRow, Typed, TypeOK
  <1>2. task[r].statement \in Statements /\ statement[task[r].statement] \in Row
    BY <1>1, RowShape DEF StatusTask, Typed
  <1>3. Stamped(task[r], statement[task[r].statement]) \in Row
    BY <1>1, <1>2 DEF Stamped, StatusTask, Row
  <1>4. PICK t \in Task : HoldsRow(t) /\ task' = [task EXCEPT ![r] = t]
    <2>1. CASE Announces(task[r])
      <3>1. [op |-> "announce", statement |-> task[r].statement,
             user |-> task[r].user] \in AnnounceTask
        BY <1>2, <2>1 DEF Announces, AnnounceTask
      <3>. QED
        BY <1>1, <2>1, <3>1 DEF WriteStatus, Task, HoldsRow
    <2>2. CASE ~Announces(task[r])
      BY <2>2, IdleIsTask DEF WriteStatus, Answer
    <2>. QED
      BY <2>1, <2>2
  <1>. QED
    BY <1>2, <1>3, <1>4, RowStep DEF WriteStatus, Typed, TypeOK

LEMMA AnnounceTyped ==
  ASSUME Typed, NEW r \in Requests, AnnounceSubmission(r)
  PROVE  Typed'
  <1>1. task[r] \in AnnounceTask
    BY TaskShape DEF AnnounceSubmission, Typed, TypeOK
  <1>2. announced' \in SUBSET (Statements \X Managers)
    BY <1>1 DEF AnnounceSubmission, AnnounceTask, Typed, TypeOK
  <1>. QED
    BY <1>2, IdleIsTask
    DEF AnnounceSubmission, Answer, Typed, TypeOK, HoldsRow, Exists

LEMMA ContinueTyped ==
  ASSUME Typed, NEW r \in Requests, Continue(r)
  PROVE  Typed'
  <1>1. CASE MonthIsTaken(r)
    BY <1>1, TaskStep, IdleIsTask DEF MonthIsTaken, Answer
  <1>. QED
    BY <1>1, ReadsTyped, InsertTyped, CheckTyped, WriteLinesTyped, StatusTyped,
       AnnounceTyped DEF Continue

LEMMA ItemTyped ==
  ASSUME Typed, NEW i \in Items, AdministerItem(i)
  PROVE  Typed'
  BY DEF AdministerItem, CreateItem, UpdateItem, DeleteItem, ItemStates,
         Typed, TypeOK, HoldsRow, Exists

LEMMA DiesTyped ==
  ASSUME Typed, NEW r \in Requests, RequestDies(r)
  PROVE  Typed'
  BY IdleIsTask, InventoryAssumption
  DEF RequestDies, Answer, Typed, TypeOK, HoldsRow, Exists

LEMMA NextTyped == Typed /\ [Next]_vars => Typed'
  <1>. SUFFICES ASSUME Typed, [Next]_vars
                PROVE  Typed'
    OBVIOUS
  <1>1. CASE UNCHANGED vars
    BY <1>1 DEF vars, Typed, TypeOK, HoldsRow, Exists
  <1>. QED
    BY <1>1, ItemTyped, BeginTyped, ContinueTyped, DiesTyped DEF Next

LEMMA InitTyped == Init => Typed
  BY InventoryAssumption
  DEF Init, Typed, TypeOK, Task, Idle, HoldsRow, NoRow, Lines, ItemStates

LEMMA AlwaysTyped == Spec => []Typed
  BY InitTyped, NextTyped, PTL DEF Spec

(***************************************************************************)
(* Every item, statement, line, notification and handler state keeps its   *)
(* type, whatever the interleaving of the handlers of                      *)
(* inventory.service.ts.                                                   *)
(***************************************************************************)
THEOREM InventoryTypeCorrect == Spec => []TypeOK
  <1>1. Typed => TypeOK
    BY DEF Typed
  <1>. QED
    BY AlwaysTyped, <1>1, PTL

-----------------------------------------------------------------------------
(* Frames: which handler may change which part of the state. *)

(* A line is created with its statement and rewritten by WriteLines only.  *)
LEMMA LineFrame ==
  ASSUME Typed, [Next]_vars, NEW s \in Statements, NEW i \in Items,
         line'[s][i] # line[s][i]
  PROVE  \E r \in Requests :
           \/ /\ InsertStatement(r)
              /\ ~Exists(s)
              /\ line'[s][i] # NoRow => line'[s][i] = NewLine(task[r].opening[i])
           \/ /\ WriteLines(r)
              /\ task[r] \in WriteTask
              /\ s = task[r].statement
              /\ task[r].updates[i] # NoRow
              /\ line'[s][i] = task[r].updates[i]
  <1>1. PICK r \in Requests : InsertStatement(r) \/ WriteLines(r)
    BY DEF Next, vars, AdministerItem, CreateItem, UpdateItem, DeleteItem,
           Begin, BeginCreate, BeginUpdateLines, BeginStatus,
           Continue, ReadItems, ReadPrevious, MonthIsTaken, CheckLines,
           WriteStatus, AnnounceSubmission, RequestDies
  <1>2. CASE InsertStatement(r)
    <2>1. task[r] \in CreateTask
      BY <1>2, TaskShape DEF InsertStatement, Typed, TypeOK
    <2>2. s = task[r].statement
      BY <1>2, <2>1 DEF InsertStatement, Typed, TypeOK
    <2>. QED
      BY <1>2, <2>1, <2>2 DEF InsertStatement, Typed, TypeOK
  <1>3. CASE WriteLines(r)
    <2>1. task[r] \in WriteTask
      BY <1>3, TaskShape DEF WriteLines, Typed, TypeOK
    <2>2. s = task[r].statement
      BY <1>3, <2>1 DEF WriteLines, Typed, TypeOK
    <2>3. line'[s][i] = Merged(task[r].updates, line[s])[i]
      BY <1>3, <2>2 DEF WriteLines, Typed, TypeOK
    <2>. QED
      BY <1>3, <2>1, <2>2, <2>3 DEF Merged
  <1>. QED
    BY <1>1, <1>2, <1>3

(* The row createStatement inserts for the handler in slot r. *)
Inserted(r) ==
  [id          |-> 1 + Cardinality({e \in Statements : Exists(e)}),
   status      |-> "DRAFT",
   submittedBy |-> IF task[r].user \in Managers THEN task[r].user ELSE NULL,
   submitted   |-> FALSE]

(* A statement row is inserted once and changed by WriteStatus only. *)
LEMMA StatementFrame ==
  ASSUME Typed, [Next]_vars, NEW s \in Statements, statement'[s] # statement[s]
  PROVE  \E r \in Requests :
           \/ /\ InsertStatement(r)
              /\ task[r] \in CreateTask
              /\ s = task[r].statement
              /\ ~Exists(s)
              /\ statement' = [statement EXCEPT ![s] = Inserted(r)]
              /\ task'[r] = Idle
           \/ /\ WriteStatus(r)
              /\ task[r] \in StatusTask
              /\ s = task[r].statement
              /\ Exists(s)
              /\ statement' = [statement EXCEPT ![s] = Stamped(task[r], @)]
  <1>1. PICK r \in Requests : InsertStatement(r) \/ WriteStatus(r)
    BY DEF Next, vars, AdministerItem, CreateItem, UpdateItem, DeleteItem,
           Begin, BeginCreate, BeginUpdateLines, BeginStatus,
           Continue, ReadItems, ReadPrevious, MonthIsTaken, CheckLines,
           WriteLines, AnnounceSubmission, RequestDies
  <1>2. CASE InsertStatement(r)
    <2>1. task[r] \in CreateTask
      BY <1>2, TaskShape DEF InsertStatement, Typed, TypeOK
    <2>2. statement' = [statement EXCEPT ![task[r].statement] = Inserted(r)]
      BY <1>2 DEF InsertStatement, Inserted
    <2>. QED
      BY <1>2, <2>1, <2>2 DEF InsertStatement, Answer, Typed, TypeOK
  <1>3. CASE WriteStatus(r)
    <2>1. task[r] \in StatusTask /\ Exists(task[r].statement)
      BY <1>3, TaskShape DEF WriteStatus, HoldsRow, Typed, TypeOK
    <2>. QED
      BY <1>3, <2>1 DEF WriteStatus, Typed, TypeOK
  <1>. QED
    BY <1>1, <1>2, <1>3

LEMMA ExistsStays ==
  ASSUME Typed, [Next]_vars, NEW s \in Statements, Exists(s)
  PROVE  Exists(s)' /\ statement'[s].id = statement[s].id
  <1>1. statement[s] \in Row
    BY RowShape DEF Typed
  <1>2. CASE statement'[s] # statement[s]
    <2>1. PICK r \in Requests :
            statement'[s] = Stamped(task[r], statement[s])
      BY <1>2, StatementFrame DEF Typed, TypeOK
    <2>. QED
      BY <1>1, <2>1 DEF Stamped, Exists, Row, NoRow
  <1>. QED
    BY <1>2 DEF Exists

(* Where the task of a slot comes from, if it changes. *)
LEMMA TaskFrame ==
  ASSUME Typed, [Next]_vars, NEW q \in Requests, task'[q] # task[q]
  PROVE  /\ task'[q].op = "lines" => BeginUpdateLines(q)
         /\ task'[q].op = "write" => CheckLines(q)
         /\ task'[q].op = "status" => BeginStatus(q)
         /\ task'[q].op = "create" =>
              \/ BeginCreate(q)
              \/ /\ task[q].op = "create"
                 /\ task'[q].user = task[q].user
                 /\ task'[q].statement = task[q].statement
  <1>1. PICK r \in Requests : Begin(r) \/ Continue(r) \/ RequestDies(r)
    BY DEF Next, vars, AdministerItem, CreateItem, UpdateItem, DeleteItem
  <1>2. \E t : task' = [task EXCEPT ![r] = t]
    BY <1>1
    DEF Begin, BeginCreate, BeginUpdateLines, BeginStatus, Accept, Continue,
        ReadItems, ReadPrevious, InsertStatement, MonthIsTaken, CheckLines,
        WriteLines, WriteStatus, AnnounceSubmission, RequestDies, Answer
  <1>3. r = q
    BY <1>2 DEF Typed, TypeOK
  <1>4. CASE Begin(q)
    BY <1>4 DEF Begin, BeginCreate, BeginUpdateLines, BeginStatus, Accept,
                Typed, TypeOK
  <1>5. CASE ReadItems(q) \/ ReadPrevious(q)
    <2>1. task[q] \in CreateTask /\ task[q].op = "create"
      BY <1>5, TaskShape DEF ReadItems, ReadPrevious, Typed, TypeOK
    <2>2. \/ task'[q] = [task[q] EXCEPT !.items = {i \in Items : item[i] = "active"}]
          \/ task'[q] = [task[q] EXCEPT !.opening = prevClosing(task[q].statement)]
      BY <1>5 DEF ReadItems, ReadPrevious, Typed, TypeOK
    <2>. QED
      BY <2>1, <2>2 DEF CreateTask
  <1>6. CASE CheckLines(q) \/ WriteStatus(q)
    BY <1>6 DEF CheckLines, WriteStatus, Answer, Idle, Typed, TypeOK
  <1>7. CASE Answer(q)
    BY <1>7 DEF Answer, Idle, Typed, TypeOK
  <1>. QED
    BY <1>1, <1>3, <1>4, <1>5, <1>6, <1>7
    DEF Continue, InsertStatement, MonthIsTaken, WriteLines, AnnounceSubmission,
        RequestDies

-----------------------------------------------------------------------------
(* Edited lines add up: the lines a handler is about to write add up by    *)
(* themselves, so it does not matter what they overwrite.                  *)

AddsUp(l) == l.closingStock >= 0 /\ l.closingStock = Closing(l)

Summed ==
  /\ EditedLinesAddUp
  /\ \A r \in Requests : task[r].op = "write" =>
       \A i \in Items : task[r].updates[i] # NoRow => AddsUp(task[r].updates[i])

LEMMA UpdatesAddUp ==
  ASSUME NEW s, NEW payload \in [Items -> Inputs \cup {NULL}], NEW seen \in Lines,
         Acceptable(s, payload, seen),
         NEW i \in Items, Updates(payload, seen)[i] # NoRow
  PROVE  AddsUp(Updates(payload, seen)[i])
  <1>1. i \in Named(payload, seen) /\ Updates(payload, seen)[i] = Edited(payload[i], seen[i])
    BY DEF Updates
  <1>2. payload[i] \in Inputs /\ seen[i] \in Line
    BY <1>1 DEF Named, Lines
  <1>. QED
    BY <1>1, <1>2, EditedIsLine DEF Acceptable, AddsUp

LEMMA SummedNext ==
  ASSUME Typed, Summed, [Next]_vars
  PROVE  Summed'
  <1>1. ASSUME NEW s \in Statements, NEW i \in Items, line'[s][i] # NoRow
        PROVE  /\ line'[s][i].closingStock >= 0
               /\ line'[s][i].closingStock = Closing(line'[s][i])
                    \/ Untouched(line'[s][i])
    <2>1. CASE line'[s][i] = line[s][i]
      BY <1>1, <2>1 DEF Summed, EditedLinesAddUp
    <2>2. CASE line'[s][i] # line[s][i]
      <3>1. PICK r \in Requests :
              \/ line'[s][i] = NewLine(task[r].opening[i])
              \/ /\ WriteLines(r)
                 /\ task[r].updates[i] # NoRow
                 /\ line'[s][i] = task[r].updates[i]
        BY <1>1, <2>2, LineFrame
      <3>2. CASE line'[s][i] = NewLine(task[r].opening[i])
        BY <3>2 DEF NewLine, Untouched
      <3>3. CASE WriteLines(r) /\ task[r].updates[i] # NoRow
                  /\ line'[s][i] = task[r].updates[i]
        BY <3>3 DEF WriteLines, Summed, AddsUp
      <3>. QED
        BY <3>1, <3>2, <3>3
    <2>. QED
      BY <2>1, <2>2
  <1>2. ASSUME NEW r \in Requests, task'[r].op = "write",
               NEW i \in Items, task'[r].updates[i] # NoRow
        PROVE  AddsUp(task'[r].updates[i])
    <2>1. CASE task'[r] = task[r]
      BY <1>2, <2>1 DEF Summed
    <2>2. CASE task'[r] # task[r]
      <3>1. CheckLines(r)
        BY <1>2, <2>2, TaskFrame
      <3>2. task[r] \in LinesTask
        BY <3>1, TaskShape DEF CheckLines, Typed, TypeOK
      <3>3. /\ Acceptable(task[r].statement, task[r].payload, task[r].seen)
            /\ task'[r].updates = Updates(task[r].payload, task[r].seen)
        BY <1>2, <3>1 DEF CheckLines, Answer, Idle, Typed, TypeOK
      <3>. QED
        BY <1>2, <3>2, <3>3, UpdatesAddUp DEF LinesTask
    <2>. QED
      BY <2>1, <2>2
  <1>. QED
    BY <1>1, <1>2 DEF Summed, EditedLinesAddUp, AddsUp, Closing, Untouched

(***************************************************************************)
(* A line that any update of updateStatementLines has written adds up and  *)
(* closes at zero or more, however updates race.                           *)
(***************************************************************************)
THEOREM EditsAddUp == Spec => []EditedLinesAddUp
  <1>1. Init => Summed
    BY DEF Init, Summed, EditedLinesAddUp, Idle
  <1>2. Typed /\ Summed /\ [Next]_vars => Summed'
    BY SummedNext
  <1>3. Summed => EditedLinesAddUp
    BY DEF Summed
  <1>. QED
    BY <1>1, <1>2, <1>3, AlwaysTyped, PTL DEF Spec

-----------------------------------------------------------------------------
(* What is locked was submitted: a lock under way is about a statement     *)
(* that has been submitted once, and nothing takes that back.              *)

Submitted(s) == statement[s].submitted /\ statement[s].submittedBy # NULL

LockSafe ==
  /\ LockedWasSubmitted
  /\ \A r \in Requests :
       task[r].op = "status" /\ task[r].to = "LOCKED" => Submitted(task[r].statement)

LEMMA SubmittedStays ==
  ASSUME Typed, [Next]_vars, NEW s \in Statements, Exists(s), Submitted(s)
  PROVE  Submitted(s)'
  <1>1. statement[s] \in Row
    BY RowShape DEF Typed
  <1>2. CASE statement'[s] # statement[s]
    <2>1. PICK r \in Requests :
            /\ task[r] \in StatusTask
            /\ statement'[s] = Stamped(task[r], statement[s])
      BY <1>2, StatementFrame DEF Typed, TypeOK
    <2>2. task[r].user # NULL
      BY <2>1, InventoryAssumption DEF StatusTask
    <2>. QED
      BY <1>1, <2>1, <2>2 DEF Stamped, Submitted, Row
  <1>. QED
    BY <1>2 DEF Submitted

LEMMA LockSafeNext ==
  ASSUME Typed, LockSafe, [Next]_vars
  PROVE  LockSafe'
  <1>1. ASSUME NEW s \in Statements, Exists(s)',
               statement'[s].status \in {"SUBMITTED", "LOCKED"}
        PROVE  Submitted(s)'
    <2>1. CASE statement'[s] = statement[s]
      BY <1>1, <2>1 DEF LockSafe, LockedWasSubmitted, Submitted, Exists
    <2>2. CASE statement'[s] # statement[s]
      <3>1. PICK r \in Requests :
              \/ statement' = [statement EXCEPT ![s] = Inserted(r)]
              \/ /\ WriteStatus(r)
                 /\ task[r] \in StatusTask
                 /\ s = task[r].statement
                 /\ Exists(s)
                 /\ statement' = [statement EXCEPT ![s] = Stamped(task[r], @)]
        BY <2>2, StatementFrame
      <3>2. CASE statement' = [statement EXCEPT ![s] = Inserted(r)]
        BY <1>1, <3>2 DEF Inserted, Typed, TypeOK
      <3>3. CASE /\ WriteStatus(r)
                 /\ task[r] \in StatusTask
                 /\ s = task[r].statement
                 /\ Exists(s)
                 /\ statement' = [statement EXCEPT ![s] = Stamped(task[r], @)]
        <4>1. statement[s] \in Row /\ statement'[s] = Stamped(task[r], statement[s])
          BY <3>3, RowShape DEF Typed, TypeOK
        <4>2. CASE task[r].to = "SUBMITTED"
          <5>1. task[r].user # NULL
            BY <3>3, InventoryAssumption DEF StatusTask
          <5>. QED
            BY <4>1, <4>2, <5>1 DEF Stamped, Submitted, Row
        <4>3. CASE task[r].to = "LOCKED"
          <5>1. Submitted(s)
            BY <3>3, <4>3 DEF LockSafe, WriteStatus
          <5>. QED
            BY <3>3, <5>1, SubmittedStays
        <4>4. CASE task[r].to = "DRAFT"
          BY <1>1, <4>1, <4>4 DEF Stamped, Row
        <4>. QED
          BY <3>3, <4>2, <4>3, <4>4 DEF StatusTask, Statuses
      <3>. QED
        BY <3>1, <3>2, <3>3
    <2>. QED
      BY <2>1, <2>2
  <1>2. ASSUME NEW r \in Requests, task'[r].op = "status", task'[r].to = "LOCKED"
        PROVE  Submitted(task[r].statement)'
    <2>1. CASE task'[r] = task[r]
      <3>1. task[r].statement \in Statements /\ Exists(task[r].statement)
        BY <1>2, <2>1, TaskStatement DEF Typed, TypeOK, HoldsRow
      <3>2. Submitted(task[r].statement)
        BY <1>2, <2>1 DEF LockSafe
      <3>. QED
        BY <2>1, <3>1, <3>2, SubmittedStays DEF Submitted
    <2>2. CASE task'[r] # task[r]
      <3>1. BeginStatus(r)
        BY <1>2, <2>2, TaskFrame
      <3>2. PICK u \in Users, s \in Statements, to \in Statuses :
              /\ Exists(s)
              /\ MayBecome(u, s, to)
              /\ task' = [task EXCEPT ![r] = [op |-> "status", statement |-> s,
                                             user |-> u, to |-> to]]
              /\ statement' = statement
        BY <3>1 DEF BeginStatus, Accept
      <3>3. task'[r].statement = s /\ to = "LOCKED"
        BY <1>2, <3>2 DEF Typed, TypeOK
      <3>4. statement[s] \in Row /\ statement[s].status # "DRAFT"
        BY <3>2, <3>3, RowShape DEF MayBecome, Typed
      <3>5. Submitted(s)
        BY <3>2, <3>4 DEF LockSafe, LockedWasSubmitted, Submitted, Row, Statuses
      <3>. QED
        BY <3>2, <3>3, <3>5 DEF Submitted
    <2>. QED
      BY <2>1, <2>2
  <1>. QED
    BY <1>1, <1>2 DEF LockSafe, LockedWasSubmitted, Submitted, Exists

(***************************************************************************)
(* updateStatementStatus never locks a statement that was not submitted,   *)
(* although the status it tests is read before the write.                  *)
(***************************************************************************)
THEOREM LocksFollowSubmissions == Spec => []LockedWasSubmitted
  <1>1. Init => LockSafe
    BY DEF Init, LockSafe, LockedWasSubmitted, Exists, Idle
  <1>2. Typed /\ LockSafe /\ [Next]_vars => LockSafe'
    BY LockSafeNext
  <1>3. LockSafe => LockedWasSubmitted
    BY DEF LockSafe
  <1>. QED
    BY <1>1, <1>2, <1>3, AlwaysTyped, PTL DEF Spec

-----------------------------------------------------------------------------
(* Attribution: a creation or submission under way is entitled to put its  *)
(* user's name on the statement.                                           *)

Attributed ==
  /\ SubmitterIsOfTheBranch
  /\ \A r \in Requests :
       \/ task[r].op = "create"
       \/ task[r].op = "status" /\ task[r].to = "SUBMITTED"
       => OwnBranch(task[r].user, task[r].statement)

LEMMA AttributedNext ==
  ASSUME Typed, Attributed, [Next]_vars
  PROVE  Attributed'
  <1>1. ASSUME NEW s \in Statements, Exists(s)', statement'[s].submittedBy \in Managers
        PROVE  Home[statement'[s].submittedBy] = s[1]
    <2>1. CASE statement'[s] = statement[s]
      BY <1>1, <2>1 DEF Attributed, SubmitterIsOfTheBranch, Exists
    <2>2. CASE statement'[s] # statement[s]
      <3>1. PICK r \in Requests :
              \/ /\ InsertStatement(r)
                 /\ s = task[r].statement
                 /\ statement' = [statement EXCEPT ![s] = Inserted(r)]
              \/ /\ WriteStatus(r)
                 /\ s = task[r].statement
                 /\ Exists(s)
                 /\ statement' = [statement EXCEPT ![s] = Stamped(task[r], @)]
        BY <2>2, StatementFrame
      <3>2. CASE /\ InsertStatement(r)
                 /\ s = task[r].statement
                 /\ statement' = [statement EXCEPT ![s] = Inserted(r)]
        <4>1. statement'[s].submittedBy = IF task[r].user \in Managers THEN task[r].user
                                                                       ELSE NULL
          BY <3>2 DEF Inserted, Typed, TypeOK
        <4>2. statement'[s].submittedBy = task[r].user
          BY <1>1, <4>1, InventoryAssumption
        <4>. QED
          BY <1>1, <3>2, <4>2 DEF Attributed, InsertStatement, OwnBranch
      <3>3. CASE /\ WriteStatus(r)
                 /\ s = task[r].statement
                 /\ Exists(s)
                 /\ statement' = [statement EXCEPT ![s] = Stamped(task[r], @)]
        <4>1. statement[s] \in Row /\ statement'[s] = Stamped(task[r], statement[s])
          BY <3>3, RowShape DEF Typed, TypeOK
        <4>2. CASE task[r].to = "SUBMITTED"
          <5>1. statement'[s].submittedBy = task[r].user
            BY <4>1, <4>2 DEF Stamped, Row
          <5>. QED
            BY <1>1, <3>3, <4>2, <5>1 DEF Attributed, WriteStatus, OwnBranch
        <4>3. CASE task[r].to # "SUBMITTED"
          <5>1. statement'[s].submittedBy = statement[s].submittedBy
            BY <4>1, <4>3 DEF Stamped, Row
          <5>. QED
            BY <1>1, <3>3, <5>1 DEF Attributed, SubmitterIsOfTheBranch
        <4>. QED
          BY <4>2, <4>3
      <3>. QED
        BY <3>1, <3>2, <3>3
    <2>. QED
      BY <2>1, <2>2
  <1>2. ASSUME NEW r \in Requests,
               \/ task'[r].op = "create"
               \/ task'[r].op = "status" /\ task'[r].to = "SUBMITTED"
        PROVE  OwnBranch(task'[r].user, task'[r].statement)
    <2>1. CASE task'[r] = task[r]
      BY <1>2, <2>1 DEF Attributed
    <2>2. CASE task'[r] # task[r] /\ task'[r].op = "create"
      <3>1. CASE BeginCreate(r)
        BY <3>1 DEF BeginCreate, Accept, Typed, TypeOK
      <3>2. CASE /\ task[r].op = "create"
                 /\ task'[r].user = task[r].user
                 /\ task'[r].statement = task[r].statement
        BY <3>2 DEF Attributed
      <3>. QED
        BY <2>2, <3>1, <3>2, TaskFrame
    <2>3. CASE task'[r] # task[r] /\ task'[r].op = "status"
      <3>1. BeginStatus(r)
        BY <2>3, TaskFrame
      <3>. QED
        BY <1>2, <2>3, <3>1 DEF BeginStatus, MayBecome, Accept, Typed, TypeOK
    <2>. QED
      BY <1>2, <2>1, <2>2, <2>3
  <1>. QED
    BY <1>1, <1>2 DEF Attributed, SubmitterIsOfTheBranch, OwnBranch, Exists

(***************************************************************************)
(* No statement is ever attributed to a manager of another branch, by      *)
(* createStatement or by updateStatementStatus.                            *)
(***************************************************************************)
THEOREM StatementsStayHome == Spec => []SubmitterIsOfTheBranch
  <1>1. Init => Attributed
    BY DEF Init, Attributed, SubmitterIsOfTheBranch, Exists, Idle
  <1>2. Typed /\ Attributed /\ [Next]_vars => Attributed'
    BY AttributedNext
  <1>3. Attributed => SubmitterIsOfTheBranch
    BY DEF Attributed
  <1>. QED
    BY <1>1, <1>2, <1>3, AlwaysTyped, PTL DEF Spec

-----------------------------------------------------------------------------
(* A carried opening stock is fixed.  Ids grow, so a statement with an     *)
(* older one before it was carried over from it; every update that has     *)
(* read it has found it closed to opening stock and still holds the value. *)

Older(s) == {e \in Earlier(s) : statement[e].id < statement[s].id}

Held(s, l) ==
  \A i \in Items : l[i] # NoRow =>
    line[s][i] # NoRow /\ l[i].openingStock = line[s][i].openingStock

IdsGrow ==
  \A s \in Statements :
    Exists(s) => statement[s].id <= Cardinality({e \in Statements : Exists(e)})

Carried ==
  /\ IdsGrow
  /\ \A r \in Requests : task[r].op = "lines" /\ Older(task[r].statement) # {} =>
       Held(task[r].statement, task[r].seen)
  /\ \A r \in Requests : task[r].op = "write" /\ Older(task[r].statement) # {} =>
       Held(task[r].statement, task[r].updates)

LEMMA StatementsAreFinite == IsFiniteSet(Statements)
  <1>1. IsFiniteSet(1 .. MaxMonth)
    BY FS_Interval, InventoryAssumption
  <1>. QED
    BY <1>1, FS_Product, InventoryAssumption DEF Statements, Months

LEMMA IdsGrowNext ==
  ASSUME Typed, IdsGrow, [Next]_vars
  PROVE  IdsGrow'
  <1>. DEFINE stored == {e \in Statements : Exists(e)}
  <1>1. IsFiniteSet(stored) /\ Cardinality(stored) \in Nat
    BY StatementsAreFinite, FS_Subset, FS_CardinalityType
  <1>2. CASE statement' = statement
    BY <1>2 DEF IdsGrow, Exists
  <1>3. ASSUME NEW s \in Statements, statement'[s] # statement[s]
        PROVE  IdsGrow'
    <2>1. PICK r \in Requests :
            \/ /\ ~Exists(s)
               /\ statement' = [statement EXCEPT ![s] = Inserted(r)]
            \/ /\ Exists(s)
               /\ statement' = [statement EXCEPT ![s] = Stamped(task[r], @)]
      BY <1>3, StatementFrame
    <2>2. CASE /\ ~Exists(s)
               /\ statement' = [statement EXCEPT ![s] = Inserted(r)]
      <3>1. stored' = stored \cup {s} /\ s \notin stored
        BY <2>2 DEF Exists, Inserted, NoRow, Typed, TypeOK
      <3>2. Cardinality(stored') = Cardinality(stored) + 1
        BY <1>1, <3>1, FS_AddElement
      <3>3. statement'[s].id = Cardinality(stored) + 1
        BY <1>1, <2>2 DEF Inserted, Typed, TypeOK
      <3>4. ASSUME NEW e \in Statements, Exists(e)'
            PROVE  statement'[e].id <= Cardinality(stored')
        <4>1. CASE e = s
          BY <1>1, <3>2, <3>3, <4>1
        <4>2. CASE e # s
          <5>1. Exists(e) /\ statement'[e] = statement[e] /\ statement[e] \in Row
            BY <2>2, <3>4, <4>2, RowShape DEF Exists, Typed, TypeOK
          <5>2. statement[e].id <= Cardinality(stored) /\ statement[e].id \in Nat
            BY <5>1 DEF IdsGrow, Row
          <5>. QED
            BY <1>1, <3>2, <5>1, <5>2
        <4>. QED
          BY <4>1, <4>2
      <3>. QED
        BY <3>4 DEF IdsGrow
    <2>3. CASE /\ Exists(s)
               /\ statement' = [statement EXCEPT ![s] = Stamped(task[r], @)]
      <3>1. \A e \in Statements : Exists(e)' <=> Exists(e)
        BY <2>3, ExistsStays DEF Exists, Typed, TypeOK
      <3>2. \A e \in Statements : Exists(e) => statement'[e].id = statement[e].id
        BY ExistsStays
      <3>. QED
        BY <3>1, <3>2 DEF IdsGrow
    <2>. QED
      BY <2>1, <2>2, <2>3
  <1>4. CASE \A s \in Statements : statement'[s] = statement[s]
    BY <1>4 DEF IdsGrow, Exists
  <1>. QED
    BY <1>3, <1>4

(* A statement that exists never gains an older one. *)
LEMMA OlderStays ==
  ASSUME Typed, IdsGrow, [Next]_vars, NEW s \in Statements, Exists(s), Older(s)' # {}
  PROVE  Older(s) # {}
  <1>1. PICK e \in Statements :
          /\ e[1] = s[1] /\ e[2] < s[2] /\ Exists(e)'
          /\ statement'[e].id < statement'[s].id
    BY DEF Older, Earlier
  <1>2. CASE Exists(e)
    BY <1>1, <1>2, ExistsStays DEF Older, Earlier
  <1>3. CASE ~Exists(e)
    <2>1. PICK r \in Requests : statement'[e].id = Inserted(r).id
      <3>1. statement'[e] # statement[e]
        BY <1>1, <1>3 DEF Exists
      <3>. QED
        BY <1>3, <3>1, StatementFrame DEF Typed, TypeOK
    <2>2. Cardinality({f \in Statements : Exists(f)}) \in Nat
      BY StatementsAreFinite, FS_Subset, FS_CardinalityType
    <2>3. statement'[s].id = statement[s].id /\ statement[s].id \in Nat
      BY ExistsStays, RowShape DEF Typed, Row
    <2>. QED
      BY <1>1, <2>1, <2>2, <2>3 DEF Inserted, IdsGrow
  <1>. QED
    BY <1>2, <1>3

(* No step changes the opening stock of a statement with an older one. *)
LEMMA OpeningStep ==
  ASSUME Typed, Carried, [Next]_vars, NEW s \in Statements, Exists(s),
         Older(s) # {}, NEW i \in Items, line[s][i] # NoRow
  PROVE  /\ line'[s][i] # NoRow
         /\ line'[s][i].openingStock = line[s][i].openingStock
  <1>1. CASE line'[s][i] = line[s][i]
    BY <1>1
  <1>2. CASE line'[s][i] # line[s][i]
    <2>1. PICK r \in Requests :
            /\ task[r] \in WriteTask
            /\ s = task[r].statement
            /\ task[r].updates[i] # NoRow
            /\ line'[s][i] = task[r].updates[i]
      BY <1>2, LineFrame
    <2>2. Held(s, task[r].updates)
      BY <2>1 DEF Carried, WriteTask
    <2>. QED
      BY <2>1, <2>2 DEF Held
  <1>. QED
    BY <1>1, <1>2

(* What an update holds of such a statement it keeps holding. *)
LEMMA HeldStays ==
  ASSUME Typed, Carried, [Next]_vars, NEW s \in Statements, Exists(s),
         Older(s) # {}, NEW l, Held(s, l)
  PROVE  \A i \in Items : l[i] # NoRow =>
           line'[s][i] # NoRow /\ l[i].openingStock = line'[s][i].openingStock
  BY OpeningStep DEF Held

(* An update that asks whether its statement is the opening one, and it is *)
(* not, computes lines with the opening stock that was read.               *)
LEMMA UpdatesHold ==
  ASSUME Typed, NEW s \in Statements, Older(s) # {},
         NEW payload \in [Items -> Inputs \cup {NULL}], NEW seen \in Lines,
         Acceptable(s, payload, seen), Held(s, seen)
  PROVE  Held(s, Updates(payload, seen))
  <1>1. ASSUME NEW i \in Items, Updates(payload, seen)[i] # NoRow
        PROVE  /\ line[s][i] # NoRow
               /\ Updates(payload, seen)[i].openingStock = line[s][i].openingStock
    <2>1. /\ i \in Named(payload, seen)
          /\ Updates(payload, seen)[i] = Edited(payload[i], seen[i])
      BY <1>1 DEF Updates
    <2>2. payload[i] \in Inputs /\ seen[i] \in Line
      BY <2>1 DEF Named, Lines
    <2>3. payload[i].openingStock = NULL
      BY <2>1 DEF Acceptable, isOpeningStatement, Older
    <2>4. Edited(payload[i], seen[i]).openingStock = seen[i].openingStock
      BY <2>2, <2>3, EditedIsLine
    <2>. QED
      BY <2>1, <2>2, <2>4, NoRowIsNoLine DEF Held
  <1>. QED
    BY <1>1 DEF Held

LEMMA CarriedNext ==
  ASSUME Typed, Carried, [Next]_vars
  PROVE  Carried'
  <1>1. IdsGrow'
    BY IdsGrowNext DEF Carried
  <1>2. ASSUME NEW r \in Requests,
               (task[r].op = "lines" /\ Older(task[r].statement) # {})'
        PROVE  Held(task[r].statement, task[r].seen)'
    <2>1. CASE task'[r] = task[r]
      <3>1. task[r].op = "lines" /\ task[r].statement \in Statements
        BY <1>2, <2>1, TaskStatement DEF Typed, TypeOK
      <3>2. PICK s \in Statements : s = task[r].statement
        BY <3>1
      <3>3. Exists(s) /\ Older(s)' # {}
        BY <1>2, <2>1, <3>1, <3>2 DEF Typed, HoldsRow, Older, Earlier, Exists
      <3>4. Older(s) # {}
        BY <3>3, OlderStays DEF Carried
      <3>5. Held(s, task[r].seen)
        BY <3>1, <3>2, <3>4 DEF Carried
      <3>. QED
        BY <2>1, <3>2, <3>3, <3>4, <3>5, HeldStays DEF Held
    <2>2. CASE task'[r] # task[r]
      <3>1. BeginUpdateLines(r)
        BY <1>2, <2>2, TaskFrame
      <3>2. task'[r].seen = line[task'[r].statement] /\ line' = line
        BY <3>1 DEF BeginUpdateLines, Accept, Typed, TypeOK
      <3>. QED
        BY <3>2 DEF Held
    <2>. QED
      BY <2>1, <2>2
  <1>3. ASSUME NEW r \in Requests,
               (task[r].op = "write" /\ Older(task[r].statement) # {})'
        PROVE  Held(task[r].statement, task[r].updates)'
    <2>1. CASE task'[r] = task[r]
      <3>1. task[r].op = "write" /\ task[r].statement \in Statements
        BY <1>3, <2>1, TaskStatement DEF Typed, TypeOK
      <3>2. PICK s \in Statements : s = task[r].statement
        BY <3>1
      <3>3. Exists(s) /\ Older(s)' # {}
        BY <1>3, <2>1, <3>1, <3>2 DEF Typed, HoldsRow, Older, Earlier, Exists
      <3>4. Older(s) # {}
        BY <3>3, OlderStays DEF Carried
      <3>5. Held(s, task[r].updates)
        BY <3>1, <3>2, <3>4 DEF Carried
      <3>. QED
        BY <2>1, <3>2, <3>3, <3>4, <3>5, HeldStays DEF Held
    <2>2. CASE task'[r] # task[r]
      <3>1. CheckLines(r) /\ task[r] \in LinesTask
        BY <1>3, <2>2, TaskFrame, TaskShape DEF CheckLines, Typed, TypeOK
      <3>2. PICK s \in Statements : s = task[r].statement
        BY <3>1 DEF LinesTask
      <3>3. /\ task[r].payload \in [Items -> Inputs \cup {NULL}]
            /\ task[r].seen \in Lines
        BY <3>1 DEF LinesTask
      <3>4. /\ task'[r].statement = s
            /\ task'[r].updates = Updates(task[r].payload, task[r].seen)
            /\ Acceptable(s, task[r].payload, task[r].seen)
            /\ line' = line
        BY <1>3, <3>1, <3>2 DEF CheckLines, Answer, Idle, Typed, TypeOK
      <3>5. Exists(s) /\ Older(s)' # {}
        BY <1>3, <3>1, <3>2, <3>4
        DEF CheckLines, Typed, HoldsRow, Older, Earlier, Exists
      <3>6. Older(s) # {}
        BY <3>5, OlderStays DEF Carried
      <3>7. Held(s, task[r].seen)
        BY <3>1, <3>2, <3>6 DEF Carried, CheckLines
      <3>8. Held(s, Updates(task[r].payload, task[r].seen))
        BY <3>3, <3>4, <3>6, <3>7, UpdatesHold
      <3>. QED
        BY <3>4, <3>8 DEF Held
    <2>. QED
      BY <2>1, <2>2
  <1>. QED
    BY <1>1, <1>2, <1>3 DEF Carried

(***************************************************************************)
(* Once a statement has an older one before it, its opening stock is fixed:*)
(* updateStatementLines never writes another, whatever it has read and     *)
(* whatever runs beside it.                                                *)
(***************************************************************************)
THEOREM CarriedOpeningStays == Spec => CarriedOpeningIsFixed
  <1>1. Init => Carried
    BY DEF Init, Carried, IdsGrow, Exists, Idle
  <1>2. Typed /\ Carried /\ [Next]_vars => Carried'
    BY CarriedNext
  <1>3. Typed /\ Carried /\ [Next]_vars =>
          [\A s \in Statements : \A e \in Earlier(s) :
             Exists(s) /\ statement[e].id < statement[s].id =>
               \A i \in Items : line[s][i] # NoRow =>
                 line'[s][i].openingStock = line[s][i].openingStock]_vars
    <2>1. ASSUME Typed, Carried, [Next]_vars,
                 NEW s \in Statements, NEW e \in Earlier(s),
                 Exists(s), statement[e].id < statement[s].id,
                 NEW i \in Items, line[s][i] # NoRow
          PROVE  line'[s][i].openingStock = line[s][i].openingStock
      <3>1. Older(s) # {}
        BY <2>1 DEF Older
      <3>. QED
        BY <2>1, <3>1, OpeningStep
    <2>. QED
      BY <2>1
  <1>. QED
    BY <1>1, <1>2, <1>3, AlwaysTyped, PTL DEF Spec, CarriedOpeningIsFixed

-----------------------------------------------------------------------------
(* ImplementsInventoryRules: with one request at a time, what a handler    *)
(* has read is still so when it writes.                                    *)

Fresh(t) ==
  LET s == t.statement
  IN  /\ t.op = "create" => /\ ~Exists(s)
                            /\ t.opening # NULL => t.opening = prevClosing(s)
      /\ t.op = "lines" => statement[s].status # "LOCKED" /\ t.seen = line[s]
      /\ t.op = "write" => /\ statement[s].status # "LOCKED"
                           /\ \E payload \in [Items -> Inputs \cup {NULL}] :
                                /\ Acceptable(s, payload, line[s])
                                /\ t.updates = Updates(payload, line[s])
      /\ t.op = "status" => /\ t.to = "SUBMITTED" => statement[s].status # "LOCKED"
                            /\ t.to = "LOCKED" => statement[s].status # "DRAFT"

Serial == Typed /\ Summed /\ \A r \in Requests : Fresh(task[r])

OneSlot == \A q, r \in Requests : q = r

LEMMA OnlyTask ==
  ASSUME Typed, OneSlot, NEW r \in Requests, NEW t, task' = [task EXCEPT ![r] = t]
  PROVE  \A q \in Requests : q = r /\ task'[q] = t
  BY DEF Typed, TypeOK, OneSlot

LEMMA FreshStays ==
  ASSUME UNCHANGED <<statement, line>>, NEW t, Fresh(t)
  PROVE  Fresh(t)'
  <1>1. \A s \in Statements : Exists(s)' <=> Exists(s)
    BY DEF Exists
  <1>2. \A s : Earlier(s)' = Earlier(s)
    BY <1>1 DEF Earlier
  <1>3. \A s : prevClosing(s)' = prevClosing(s)
    BY <1>2 DEF prevClosing
  <1>4. \A s, payload, seen : Acceptable(s, payload, seen)' <=> Acceptable(s, payload, seen)
    BY <1>2 DEF Acceptable, isOpeningStatement
  <1>5. \A s : Exists(s)' <=> Exists(s)
    BY DEF Exists
  <1>. QED
    BY <1>3, <1>4, <1>5 DEF Fresh

LEMMA SerialNext ==
  ASSUME Serial, OneSlot, [Next]_vars
  PROVE  Serial'
  <1>. Typed /\ Summed /\ Typed' /\ Summed'
    BY NextTyped, SummedNext DEF Serial
  <1>1. ASSUME NEW r \in Requests, NEW t, task' = [task EXCEPT ![r] = t],
               UNCHANGED <<statement, line>>, Fresh(t)
        PROVE  Serial'
    <2>1. Fresh(t)'
      BY <1>1, FreshStays
    <2>2. ASSUME NEW q \in Requests
          PROVE  Fresh(task[q])'
      <3>1. task'[q] = t
        BY <1>1, OnlyTask
      <3>. QED
        BY <2>1, <3>1 DEF Fresh
    <2>. QED
      BY <2>2 DEF Serial
  <1>2. ASSUME NEW r \in Requests, NEW t, task' = [task EXCEPT ![r] = t],
               t.op \in {"idle", "announce"}
        PROVE  Serial'
    <2>1. ASSUME NEW q \in Requests
          PROVE  Fresh(task[q])'
      <3>1. task'[q] = t
        BY <1>2, OnlyTask
      <3>. QED
        BY <1>2, <3>1 DEF Fresh
    <2>. QED
      BY <2>1 DEF Serial
  <1>3. ASSUME NEW r \in Requests, Answer(r)
        PROVE  Serial'
    BY <1>2, <1>3 DEF Answer, Idle
  <1>4. ASSUME NEW r \in Requests, Begin(r)
        PROVE  Serial'
    <2>1. CASE BeginCreate(r)
      <3>1. PICK u \in Users, s \in Statements :
              /\ ~Exists(s)
              /\ task' = [task EXCEPT ![r] = [op |-> "create", statement |-> s, user |-> u,
                                              items |-> NULL, opening |-> NULL]]
              /\ UNCHANGED <<statement, line>>
        BY <2>1 DEF BeginCreate, Accept
      <3>2. Fresh([op |-> "create", statement |-> s, user |-> u,
                   items |-> NULL, opening |-> NULL])
        BY <3>1 DEF Fresh
      <3>. QED
        BY <1>1, <3>1, <3>2
    <2>2. CASE BeginUpdateLines(r)
      <3>1. PICK s \in Statements, payload \in [Items -> Inputs \cup {NULL}] :
              /\ statement[s].status # "LOCKED"
              /\ task' = [task EXCEPT ![r] = [op |-> "lines", statement |-> s,
                                              payload |-> payload, seen |-> line[s]]]
              /\ UNCHANGED <<statement, line>>
        BY <2>2 DEF BeginUpdateLines, Accept
      <3>2. Fresh([op |-> "lines", statement |-> s, payload |-> payload, seen |-> line[s]])
        BY <3>1 DEF Fresh
      <3>. QED
        BY <1>1, <3>1, <3>2
    <2>3. CASE BeginStatus(r)
      <3>1. PICK u \in Users, s \in Statements, to \in Statuses :
              /\ MayBecome(u, s, to)
              /\ task' = [task EXCEPT ![r] = [op |-> "status", statement |-> s,
                                              user |-> u, to |-> to]]
              /\ UNCHANGED <<statement, line>>
        BY <2>3 DEF BeginStatus, Accept
      <3>2. Fresh([op |-> "status", statement |-> s, user |-> u, to |-> to])
        BY <3>1 DEF Fresh, MayBecome
      <3>. QED
        BY <1>1, <3>1, <3>2
    <2>. QED
      BY <1>4, <2>1, <2>2, <2>3 DEF Begin
  <1>5. ASSUME NEW r \in Requests, ReadItems(r) \/ ReadPrevious(r)
        PROVE  Serial'
    <2>1. task[r] \in CreateTask /\ Fresh(task[r]) /\ task[r].op = "create"
      BY <1>5, TaskShape DEF ReadItems, ReadPrevious, Serial, Typed, TypeOK
    <2>2. CASE ReadItems(r)
      <3>. DEFINE t == [task[r] EXCEPT !.items = {i \in Items : item[i] = "active"}]
      <3>1. /\ t.op = "create" /\ t.statement = task[r].statement
            /\ t.opening = task[r].opening
        BY <2>1 DEF CreateTask
      <3>2. task' = [task EXCEPT ![r] = t] /\ UNCHANGED <<statement, line>>
        BY <2>2 DEF ReadItems
      <3>. HIDE DEF t
      <3>3. Fresh(t)
        BY <2>1, <3>1 DEF Fresh
      <3>. QED
        BY <1>1, <3>2, <3>3
    <2>3. CASE ReadPrevious(r)
      <3>. DEFINE t == [task[r] EXCEPT !.opening = prevClosing(task[r].statement)]
      <3>1. /\ t.op = "create" /\ t.statement = task[r].statement
            /\ t.opening = prevClosing(t.statement)
        BY <2>1 DEF CreateTask
      <3>2. task' = [task EXCEPT ![r] = t] /\ UNCHANGED <<statement, line>>
        BY <2>3 DEF ReadPrevious
      <3>. HIDE DEF t
      <3>3. Fresh(t)
        BY <2>1, <3>1 DEF Fresh
      <3>. QED
        BY <1>1, <3>2, <3>3
    <2>. QED
      BY <1>5, <2>2, <2>3
  <1>6. ASSUME NEW r \in Requests, CheckLines(r)
        PROVE  Serial'
    <2>1. PICK t \in LinesTask : t = task[r]
      BY <1>6, TaskShape DEF CheckLines, Typed, TypeOK
    <2>2. /\ statement[t.statement].status # "LOCKED" /\ t.seen = line[t.statement]
          /\ t.payload \in [Items -> Inputs \cup {NULL}]
      BY <2>1 DEF Fresh, Serial, LinesTask
    <2>3. CASE /\ Acceptable(t.statement, t.payload, t.seen)
               /\ task' = [task EXCEPT ![r] = [op |-> "write", statement |-> t.statement,
                                               updates |-> Updates(t.payload, t.seen)]]
      <3>1. Fresh([op |-> "write", statement |-> t.statement,
                   updates |-> Updates(t.payload, t.seen)])
        BY <2>2, <2>3 DEF Fresh
      <3>. QED
        BY <1>1, <1>6, <2>3, <3>1 DEF CheckLines
    <2>. QED
      BY <1>3, <1>6, <2>1, <2>3 DEF CheckLines
  <1>7. ASSUME NEW r \in Requests, WriteStatus(r)
        PROVE  Serial'
    BY <1>2, <1>3, <1>7 DEF WriteStatus
  <1>8. ASSUME NEW r \in Requests, Continue(r) \/ RequestDies(r)
        PROVE  Serial'
    BY <1>3, <1>5, <1>6, <1>7, <1>8
    DEF Continue, InsertStatement, MonthIsTaken, WriteLines, AnnounceSubmission, RequestDies
  <1>9. CASE UNCHANGED <<statement, line, task>>
    <2>1. ASSUME NEW q \in Requests
          PROVE  Fresh(task[q])'
      <3>1. PICK t : t = task[q]
        OBVIOUS
      <3>2. Fresh(t)'
        BY <1>9, <3>1, FreshStays DEF Serial
      <3>. QED
        BY <1>9, <3>1, <3>2 DEF Fresh
    <2>. QED
      BY <2>1 DEF Serial
  <1>. QED
    BY <1>4, <1>8, <1>9
    DEF Next, vars, AdministerItem, CreateItem, UpdateItem, DeleteItem

-----------------------------------------------------------------------------
(* What the rules see of a statement's row and its lines. *)

SheetOf(v, l) ==
  [status |-> v.status,
   line |-> [i \in Items |-> IF l[i] = NoRow THEN NULL ELSE l[i]]]

LEMMA SheetOfRow ==
  ASSUME NEW v \in Row, NEW l \in Lines
  PROVE  SheetOf(v, l) \in Sheet /\ SheetOf(v, l) # NULL /\ v # NoRow
  <1>1. v # NoRow
    BY DEF Row, NoRow
  <1>2. SheetOf(v, l) \in Sheet
    BY DEF SheetOf, Sheet, Row, Lines
  <1>. QED
    BY <1>1, <1>2, SheetAssumption

LEMMA ViewOfStatement ==
  ASSUME Typed, NEW s \in Statements
  PROVE  /\ sheetView \in [Statements -> Sheet \cup {NULL}]
         /\ Exists(s) => /\ sheetView[s] = SheetOf(statement[s], line[s])
                         /\ sheetView[s] # NULL
         /\ ~Exists(s) => sheetView[s] = NULL
  <1>1. \A e \in Statements : line[e] \in Lines /\ (Exists(e) => statement[e] \in Row)
    BY RowShape DEF Typed, TypeOK
  <1>2. sheetView = [e \in Statements |->
                       IF Exists(e) THEN SheetOf(statement[e], line[e]) ELSE NULL]
    BY DEF sheetView, SheetOf
  <1>3. \A e \in Statements : Exists(e) => /\ SheetOf(statement[e], line[e]) \in Sheet
                                           /\ SheetOf(statement[e], line[e]) # NULL
    BY <1>1, SheetOfRow
  <1>. QED
    BY <1>2, <1>3

(* A count of a line is never NULL, so a sheet lists what the table does. *)
LEMMA LineOfView ==
  ASSUME Typed, NEW s \in Statements, Exists(s), NEW i \in Items
  PROVE  /\ line[s][i] = NoRow => sheetView[s].line[i] = NULL
         /\ line[s][i] # NoRow => /\ line[s][i] \in Line
                                  /\ sheetView[s].line[i] = line[s][i]
                                  /\ sheetView[s].line[i] # NULL
  <1>1. line[s][i] \in Line \cup {NoRow}
    BY DEF Typed, TypeOK, Lines
  <1>2. sheetView[s].line[i] = IF line[s][i] = NoRow THEN NULL ELSE line[s][i]
    <2>1. sheetView[s] = SheetOf(statement[s], line[s])
      BY ViewOfStatement
    <2>2. SheetOf(statement[s], line[s]).line =
            [k \in Items |-> IF line[s][k] = NoRow THEN NULL ELSE line[s][k]]
      BY DEF SheetOf
    <2>. QED
      BY <2>1, <2>2
  <1>. QED
    BY <1>1, <1>2, SheetAssumption

(* A handler's write is a write to what the rules see. *)
LEMMA SheetStep ==
  ASSUME Typed, NEW s \in Statements, NEW v \in Row, NEW l \in Lines,
         statement' = [statement EXCEPT ![s] = v], line' = [line EXCEPT ![s] = l]
  PROVE  sheetView' = [sheetView EXCEPT ![s] = SheetOf(v, l)]
  <1>1. v # NoRow
    BY SheetOfRow
  <1>2. /\ statement' = [e \in Statements |-> IF e = s THEN v ELSE statement[e]]
        /\ line' = [e \in Statements |-> IF e = s THEN l ELSE line[e]]
    BY DEF Typed, TypeOK
  <1>3. sheetView' = [e \in Statements |->
                        IF statement'[e] # NoRow THEN SheetOf(statement'[e], line'[e]) ELSE NULL]
    BY DEF sheetView, SheetOf, Exists
  <1>4. sheetView = [e \in Statements |->
                       IF statement[e] # NoRow THEN SheetOf(statement[e], line[e]) ELSE NULL]
    BY DEF sheetView, SheetOf, Exists
  <1>. QED
    BY <1>1, <1>2, <1>3, <1>4

LEMMA EarlierOfRules ==
  ASSUME Typed, NEW s \in Statements
  PROVE  Rules!Earlier(s) = Earlier(s)
  <1>1. \A e \in Statements : sheetView[e] # NULL <=> Exists(e)
    BY ViewOfStatement
  <1>2. Rules!Statements = Statements
    BY DEF Rules!Statements, Statements, Months
  <1>. QED
    BY <1>1, <1>2 DEF Rules!Earlier, Earlier

(* What a create handler carries over is what the rules carry over. *)
LEMMA CarriedOfRules ==
  ASSUME Typed, NEW s \in Statements, NEW i \in Items
  PROVE  Rules!Carried(s, i) = prevClosing(s)[i]
  <1>1. CASE Earlier(s) = {}
    BY <1>1, EarlierOfRules DEF Rules!Carried, prevClosing
  <1>2. CASE Earlier(s) # {}
    <2>. DEFINE months == {e[2] : e \in Earlier(s)}
                p == <<s[1], Max(months)>>
    <2>1. months \subseteq Months /\ months # {}
      BY <1>2 DEF Earlier, Statements
    <2>2. Max(months) \in months /\ \A m \in months : Max(months) >= m
      BY <2>1, LatestExists
    <2>3. \A e \in Earlier(s) : e[1] = s[1] /\ e[2] \in Months /\ e = <<s[1], e[2]>>
      BY DEF Earlier, Statements
    <2>4. p \in Earlier(s) /\ p[2] = Max(months)
      BY <2>2, <2>3
    <2>5. \A f \in Earlier(s) : f[2] <= p[2]
      BY <2>1, <2>2, <2>4 DEF Months
    <2>6. ASSUME NEW e \in Earlier(s), \A f \in Earlier(s) : f[2] <= e[2]
          PROVE  e = p
      <3>1. p[2] <= e[2] /\ e[2] <= p[2] /\ p[2] \in Int /\ e[2] \in Int
        BY <2>3, <2>4, <2>5, <2>6 DEF Months
      <3>. QED
        BY <2>3, <2>4, <3>1
    <2>7. prevClosing(s)[i] = IF line[p][i] = NoRow THEN 0 ELSE line[p][i].closingStock
      BY <1>2 DEF prevClosing
    <2>. HIDE DEF p
    <2>8. Rules!Latest(s) = p
      BY <2>4, <2>5, <2>6, EarlierOfRules DEF Rules!Latest
    <2>9. p \in Statements /\ Exists(p)
      BY <2>4 DEF Earlier
    <2>. QED
      BY <1>2, <2>7, <2>8, <2>9, LineOfView, EarlierOfRules DEF Rules!Carried
  <1>. QED
    BY <1>1, <1>2

(* What the rules make of a line is what the handler writes, or leaves. *)
LEMMA RevisedIsEdited ==
  ASSUME NEW input \in Inputs, NEW old \in Line
  PROVE  Rules!Revised(old, input) =
           IF SameCounts(Edited(input, old), old) THEN old ELSE Edited(input, old)
  <1>. DEFINE o == Given(input.openingStock, old.openingStock)
              a == Given(input.added, old.added)
              b == Given(input.brokenLost, old.brokenLost)
              j == Given(input.reject, old.reject)
              new == [old EXCEPT !.openingStock = o, !.added = a, !.brokenLost = b,
                                 !.reject = j]
  <1>1. o \in Int /\ a \in Int /\ b \in Int /\ j \in Int
    BY InventoryAssumption DEF Input, Line, Given
  <1>2. Edited(input, old) =
          [openingStock |-> o, added |-> a, brokenLost |-> b, reject |-> j,
           closingStock |-> o + a - b - j]
    BY DEF Edited
  <1>3. Rules!Revised(old, input) =
          IF new = old THEN old
          ELSE [new EXCEPT !.closingStock =
                  new.openingStock + new.added - new.brokenLost - new.reject]
    BY DEF Rules!Revised, Given
  <1>. HIDE DEF o, a, b, j
  <1>4. new = [openingStock |-> o, added |-> a, brokenLost |-> b, reject |-> j,
               closingStock |-> old.closingStock]
    <2>1. PICK x : x = [old EXCEPT !.openingStock = o]
      OBVIOUS
    <2>2. x = [openingStock |-> o, added |-> old.added, brokenLost |-> old.brokenLost,
               reject |-> old.reject, closingStock |-> old.closingStock]
      BY <2>1 DEF Line
    <2>3. PICK y : y = [x EXCEPT !.added = a]
      OBVIOUS
    <2>4. y = [openingStock |-> o, added |-> a, brokenLost |-> old.brokenLost,
               reject |-> old.reject, closingStock |-> old.closingStock]
      BY <2>2, <2>3
    <2>5. PICK z : z = [y EXCEPT !.brokenLost = b]
      OBVIOUS
    <2>6. z = [openingStock |-> o, added |-> a, brokenLost |-> b,
               reject |-> old.reject, closingStock |-> old.closingStock]
      BY <2>4, <2>5
    <2>7. [z EXCEPT !.reject = j] =
            [openingStock |-> o, added |-> a, brokenLost |-> b, reject |-> j,
             closingStock |-> old.closingStock]
      BY <2>6
    <2>8. new = [z EXCEPT !.reject = j]
      BY <2>1, <2>3, <2>5, Zenon
    <2>. QED
      BY <2>7, <2>8
  <1>. HIDE DEF new
  <1>5. new = old <=> SameCounts(Edited(input, old), old)
    BY <1>2, <1>4 DEF SameCounts, Line
  <1>6. [new EXCEPT !.closingStock =
           new.openingStock + new.added - new.brokenLost - new.reject] = Edited(input, old)
    BY <1>2, <1>4
  <1>. QED
    BY <1>3, <1>5, <1>6

-----------------------------------------------------------------------------
(* A single step of the rules, for every handler's write. *)

LEMMA InsertIsCreate ==
  ASSUME Serial, NEW r \in Requests, InsertStatement(r)
  PROVE  \E s \in Statements : Rules!Create(s)
  <1>. Typed
    BY DEF Serial
  <1>1. PICK t \in CreateTask : t = task[r] /\ Fresh(t)
    BY TaskShape DEF InsertStatement, Serial, Typed, TypeOK
  <1>. DEFINE s == t.statement
              v == Inserted(r)
              l == [i \in Items |-> IF i \in t.items THEN NewLine(t.opening[i]) ELSE NoRow]
  <1>2. /\ s \in Statements /\ t.user \in Users /\ t.items \in SUBSET Items
        /\ t.opening = prevClosing(s) /\ ~Exists(s)
    BY <1>1 DEF CreateTask, InsertStatement, Fresh
  <1>3. /\ statement' = [statement EXCEPT ![s] = v]
        /\ line' = [line EXCEPT ![s] = l]
    BY <1>1 DEF InsertStatement, Inserted
  <1>4. v \in Row /\ v.status = "DRAFT"
    <2>1. Cardinality({e \in Statements : Exists(e)}) \in Nat
      BY StatementsAreFinite, FS_Subset, FS_CardinalityType
    <2>. QED
      BY <1>1, <1>2, <2>1 DEF Inserted, Row, Statuses
  <1>5. l \in Lines /\ \A i \in Items : l[i] = NoRow <=> i \notin t.items
    BY <1>2, CarriedIsNumber, NoRowIsNoLine DEF NewLine, Line, Lines
  <1>6. sheetView' = [sheetView EXCEPT ![s] = SheetOf(v, l)]
    <2>. HIDE DEF v, l, s
    <2>. QED
      BY <1>2, <1>3, <1>4, <1>5, SheetStep
  <1>7. sheetView[s] = NULL
    BY <1>2, ViewOfStatement
  <1>8. SheetOf(v, l) =
          [status |-> "DRAFT",
           line |-> [i \in Items |->
                       IF i \notin t.items THEN NULL
                       ELSE [openingStock |-> Rules!Carried(s, i), added |-> 0,
                             brokenLost |-> 0, reject |-> 0, closingStock |-> 0]]]
    <2>1. \A i \in t.items : l[i] =
            [openingStock |-> Rules!Carried(s, i), added |-> 0,
             brokenLost |-> 0, reject |-> 0, closingStock |-> 0]
      BY <1>2, CarriedOfRules DEF NewLine
    <2>. HIDE DEF v, l, s
    <2>. QED
      BY <1>4, <1>5, <2>1 DEF SheetOf
  <1>9. Rules!Create(s)
    <2>. HIDE DEF v, l, s
    <2>. QED
      BY <1>2, <1>6, <1>8, <1>7 DEF Rules!Create
  <1>. QED
    BY <1>2, <1>9

(* The named items of an edit are those its payload names and the          *)
(* statement lists.                                                        *)
LEMMA WriteIsEdit ==
  ASSUME Serial, NEW r \in Requests, WriteLines(r)
  PROVE  \E s \in Statements : Rules!Edit(s)
  <1>. Typed
    BY DEF Serial
  <1>1. PICK t \in WriteTask : t = task[r] /\ Fresh(t) /\ HoldsRow(t) /\ t.op = "write"
    BY TaskShape DEF WriteLines, Serial, Typed, TypeOK
  <1>2. PICK s \in Statements : s = t.statement /\ Exists(s) /\ statement[s] \in Row
    BY <1>1, RowShape DEF WriteTask, HoldsRow, Typed
  <1>3. PICK payload \in [Items -> Inputs \cup {NULL}] :
          Acceptable(s, payload, line[s]) /\ t.updates = Updates(payload, line[s])
    BY <1>1, <1>2 DEF Fresh
  <1>. DEFINE named == Named(payload, line[s])
              input == [i \in named |-> payload[i]]
              l == Merged(t.updates, line[s])
  <1>4. /\ statement[s].status # "LOCKED"
        /\ statement' = statement /\ line' = [line EXCEPT ![s] = l]
    BY <1>1, <1>2 DEF WriteLines, Fresh
  <1>5. /\ \A i \in named : /\ i \in Items /\ payload[i] \in Inputs
                            /\ line[s][i] \in Line /\ line[s][i] # NoRow
        /\ named \in SUBSET Items /\ input \in [named -> Inputs]
    BY NoRowIsNoLine DEF Named, Typed, TypeOK, Lines
  <1>6. l \in Lines
    BY <1>1 DEF WriteTask, Merged, Lines, Typed, TypeOK
  <1>7. /\ sheetView[s] = SheetOf(statement[s], line[s])
        /\ sheetView[s] # NULL /\ sheetView \in [Statements -> Sheet \cup {NULL}]
    BY <1>2, ViewOfStatement
  <1>8. sheetView' = [sheetView EXCEPT ![s] = SheetOf(statement[s], l)]
    <2>1. statement' = [statement EXCEPT ![s] = statement[s]]
      BY <1>4 DEF Typed, TypeOK
    <2>. HIDE DEF l
    <2>. QED
      BY <1>2, <1>4, <1>6, <2>1, SheetStep
  <1>9. ASSUME NEW i \in named
        PROVE  l[i] = Rules!Revised(line[s][i], payload[i]) /\ l[i] \in Line
    <2>1. /\ i \in Items /\ payload[i] \in Inputs
          /\ line[s][i] \in Line /\ line[s][i] # NoRow
      BY <1>5
    <2>2. /\ Edited(payload[i], line[s][i]) \in Line
          /\ Edited(payload[i], line[s][i]) # NoRow
      BY <2>1, EditedIsLine, NoRowIsNoLine
    <2>3. t.updates[i] = IF SameCounts(Edited(payload[i], line[s][i]), line[s][i])
                         THEN NoRow ELSE Edited(payload[i], line[s][i])
      BY <1>3, <2>1 DEF Updates
    <2>4. l[i] = IF t.updates[i] = NoRow THEN line[s][i] ELSE t.updates[i]
      BY <2>1 DEF Merged
    <2>. HIDE DEF l, named
    <2>5. l[i] = IF SameCounts(Edited(payload[i], line[s][i]), line[s][i])
                 THEN line[s][i] ELSE Edited(payload[i], line[s][i])
      BY <2>2, <2>3, <2>4
    <2>. QED
      BY <2>1, <2>2, <2>5, RevisedIsEdited
  <1>10. ASSUME NEW i \in Items \ named
         PROVE  l[i] = line[s][i]
    BY <1>3 DEF Updates, Merged
  <1>11. ASSUME NEW i \in named
         PROVE  /\ Rules!Revised(line[s][i], payload[i]).closingStock >= 0
                /\ payload[i].openingStock # NULL => Rules!Earlier(s) = {}
    <2>1. /\ payload[i].openingStock # NULL => Earlier(s) = {}
          /\ Edited(payload[i], line[s][i]).closingStock >= 0
      BY <1>3 DEF Acceptable, isOpeningStatement
    <2>2. line[s][i].closingStock >= 0
      BY <1>5 DEF Serial, Summed, EditedLinesAddUp
    <2>. QED
      BY <1>5, <2>1, <2>2, EarlierOfRules, RevisedIsEdited
  <1>12. \A i \in named : sheetView[s].line[i] = line[s][i] /\ sheetView[s].line[i] # NULL
    BY <1>2, <1>5, LineOfView
  <1>13. SheetOf(statement[s], l) =
           [sheetView[s] EXCEPT !.line =
              [i \in Items |-> IF i \in named THEN Rules!Revised(@[i], input[i]) ELSE @[i]]]
    <2>1. PICK old : old = [i \in Items |-> IF line[s][i] = NoRow THEN NULL ELSE line[s][i]]
      OBVIOUS
    <2>2. sheetView[s] = [status |-> statement[s].status, line |-> old]
      BY <1>7, <2>1 DEF SheetOf
    <2>3. [i \in Items |-> IF l[i] = NoRow THEN NULL ELSE l[i]] =
            [i \in Items |-> IF i \in named THEN Rules!Revised(old[i], input[i]) ELSE old[i]]
      <3>1. ASSUME NEW i \in named
            PROVE  /\ old[i] = line[s][i] /\ input[i] = payload[i]
                   /\ l[i] = Rules!Revised(old[i], input[i]) /\ l[i] # NoRow
        BY <1>5, <1>9, <2>1, NoRowIsNoLine
      <3>. HIDE DEF l, input, named
      <3>. QED
        BY <1>10, <2>1, <3>1
    <2>. HIDE DEF l, input, named
    <2>. QED
      BY <2>2, <2>3 DEF SheetOf
  <1>14. sheetView[s].status # "LOCKED"
    BY <1>4, <1>7 DEF SheetOf
  <1>15. sheetView' = [sheetView EXCEPT ![s].line =
           [i \in Items |-> IF i \in named THEN Rules!Revised(@[i], input[i]) ELSE @[i]]]
    <2>. HIDE DEF l, input, named
    <2>. QED
      BY <1>7, <1>8, <1>13
  <1>16. \A i \in named :
           /\ sheetView[s].line[i] # NULL
           /\ Rules!Revised(sheetView[s].line[i], input[i]).closingStock >= 0
           /\ input[i].openingStock # NULL => Rules!Earlier(s) = {}
    BY <1>11, <1>12
  <1>17. Rules!Edit(s)
    <2>. HIDE DEF l, input, named
    <2>. QED
      BY <1>5, <1>7, <1>14, <1>15, <1>16 DEF Rules!Edit
  <1>. QED
    BY <1>17

LEMMA StatusFollowsARule ==
  ASSUME Serial, NEW r \in Requests, WriteStatus(r)
  PROVE  \E s \in Statements : Rules!Reopen(s) \/ Rules!Submit(s) \/ Rules!Lock(s)
  <1>. Typed
    BY DEF Serial
  <1>1. PICK t \in StatusTask : t = task[r] /\ Fresh(t) /\ HoldsRow(t) /\ t.op = "status"
    BY TaskShape DEF WriteStatus, Serial, Typed, TypeOK
  <1>2. PICK s \in Statements : s = t.statement /\ Exists(s) /\ statement[s] \in Row
    BY <1>1, RowShape DEF StatusTask, HoldsRow, Typed
  <1>3. PICK v : v = Stamped(t, statement[s])
    OBVIOUS
  <1>4. v \in Row /\ v.status = t.to
    BY <1>1, <1>2, <1>3 DEF Stamped, Row, StatusTask
  <1>5. /\ statement' = [statement EXCEPT ![s] = v]
        /\ line[s] \in Lines /\ line' = [line EXCEPT ![s] = line[s]]
    BY <1>1, <1>2, <1>3 DEF WriteStatus, Typed, TypeOK
  <1>6. sheetView' = [sheetView EXCEPT ![s] = SheetOf(v, line[s])]
    BY <1>4, <1>5, SheetStep
  <1>7. /\ sheetView[s] = SheetOf(statement[s], line[s]) /\ sheetView[s] # NULL
        /\ sheetView \in [Statements -> Sheet \cup {NULL}]
    BY <1>2, ViewOfStatement
  <1>8. SheetOf(v, line[s]) = [sheetView[s] EXCEPT !.status = t.to]
    BY <1>4, <1>7 DEF SheetOf
  <1>9. sheetView' = [sheetView EXCEPT ![s].status = t.to]
    BY <1>6, <1>7, <1>8
  <1>10. /\ t.to = "SUBMITTED" => sheetView[s].status # "LOCKED"
         /\ t.to = "LOCKED" => sheetView[s].status # "DRAFT"
    BY <1>1, <1>2, <1>7 DEF Fresh, SheetOf
  <1>11. t.to \in {"DRAFT", "SUBMITTED", "LOCKED"}
    BY DEF StatusTask, Statuses
  <1>. QED
    BY <1>7, <1>9, <1>10, <1>11
    DEF Rules!Reopen, Rules!Submit, Rules!Lock, Rules!Become

LEMMA RulesStep ==
  ASSUME Serial, [Next]_vars
  PROVE  [Rules!Next]_sheetView
  <1>1. Rules!Statements = Statements
    BY DEF Rules!Statements, Statements, Months
  <1>2. CASE UNCHANGED <<statement, line>>
    BY <1>2 DEF sheetView, Exists
  <1>3. ASSUME NEW r \in Requests, InsertStatement(r) \/ WriteLines(r) \/ WriteStatus(r)
        PROVE  Rules!Next
    BY <1>1, <1>3, InsertIsCreate, WriteIsEdit, StatusFollowsARule DEF Rules!Next
  <1>4. ASSUME NEW r \in Requests,
               \/ Begin(r) \/ RequestDies(r) \/ ReadItems(r) \/ ReadPrevious(r)
               \/ MonthIsTaken(r) \/ CheckLines(r) \/ AnnounceSubmission(r)
        PROVE  UNCHANGED <<statement, line>>
    BY <1>4 DEF Begin, BeginCreate, BeginUpdateLines, BeginStatus, RequestDies, ReadItems,
                ReadPrevious, MonthIsTaken, CheckLines, AnnounceSubmission
  <1>5. ASSUME NEW i \in Items, AdministerItem(i)
        PROVE  UNCHANGED <<statement, line>>
    BY <1>5 DEF AdministerItem, CreateItem, UpdateItem, DeleteItem
  <1>. QED
    BY <1>2, <1>3, <1>4, <1>5 DEF Next, Continue, vars

LEMMA RulesInit == Init => Rules!Init
  BY DEF Init, Rules!Init, Rules!Statements, sheetView, Exists, Statements, Months

(***************************************************************************)
(* With requests handled one at a time, whichever of them dies half way,   *)
(* what the module does to statements is what the rules of InventoryRules  *)
(* allow, one step of theirs for every write.                              *)
(***************************************************************************)
THEOREM OneByOneTheRulesHold ==
  ASSUME OneSlot
  PROVE  Spec => ImplementsInventoryRules
  <1>1. Init => Serial
    <2>1. Init => Summed
      BY DEF Init, Summed, EditedLinesAddUp, Idle
    <2>. QED
      BY <2>1, InitTyped DEF Init, Serial, Fresh, Idle
  <1>2. Serial /\ [Next]_vars => Serial'
    BY SerialNext
  <1>3. Serial /\ [Next]_vars => [Rules!Next]_sheetView
    BY RulesStep
  <1>. QED
    BY <1>1, <1>2, <1>3, RulesInit, PTL DEF Spec, ImplementsInventoryRules, Rules!Spec
=============================================================================
