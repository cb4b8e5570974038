------------------------------ MODULE Inventory ------------------------------
(***************************************************************************)
(* The write side of the inventory module (inventory.service.ts): monthly  *)
(* statements of a branch, their lines, and the items they list.           *)
(*                                                                         *)
(* Handlers are split at their awaits as in Booking: a "Begin" action is   *)
(* the guard read with every early return, the later actions are the       *)
(* remaining reads and the write, which tests the id and nothing else.     *)
(* A statement is named by its branch and month, which a unique index      *)
(* keeps apart; no code deletes one.  Its id stands for the order in which *)
(* the insertions of statements commit.                                    *)
(***************************************************************************)
EXTENDS Integers, FiniteSets, FiniteSetsExt

CONSTANTS
  Items,        \* inventory item ids
  Catalog,      \* the items the seed script creates
  Branches,     \* branch ids
  MaxMonth,     \* bound: months are 1 .. MaxMonth
  Users,        \* users whose role may write statements
  Managers,     \* the users whose role is BRANCH_MANAGER
  Home,         \* Home[m]: the branch manager m is assigned to
  Requests,     \* slots for handlers in flight at the same time
  Operations,   \* the operations clients call
  Inputs,       \* what a line update says of one item, NULL where it is silent
  MaxFailures,  \* bound: requests that die before their last call
  NULL          \* SQL NULL, or an absent field

Input == [openingStock : Nat \cup {NULL}, added : Nat \cup {NULL},
          brokenLost : Nat \cup {NULL}, reject : Nat \cup {NULL}]

ASSUME InventoryAssumption ==
  /\ Catalog \subseteq Items
  /\ MaxMonth \in Nat
  /\ Managers \subseteq Users
  /\ Home \in [Managers -> Branches]
  /\ Inputs \subseteq Input
  /\ MaxFailures \in Nat
  /\ IsFiniteSet(Branches)
  /\ NULL \notin Users \cup Int \cup Inputs

VARIABLES
  item,       \* item[i]: whether new statements list item i
  statement,  \* statement[s]: the row of monthly_inventory_statements
  line,       \* line[s][i]: the row of monthly_inventory_lines for item i
  announced,  \* submissions with a notification: <<statement, manager>>
  task,       \* task[r]: the handler running in slot r
  failures    \* requests that have died so far

vars == <<item, statement, line, announced, task, failures>>

Months == 1 .. MaxMonth
Statements == Branches \X Months
Statuses == {"DRAFT", "SUBMITTED", "LOCKED"}
ItemStates == {"absent", "active", "inactive", "deleted"}

NoRow == [row |-> NULL]

Row == [id : Nat, status : Statuses, submittedBy : Users \cup {NULL},
        submitted : BOOLEAN]                  \* submitted: submittedAt is set

Line == [openingStock : Int, added : Int, brokenLost : Int, reject : Int,
         closingStock : Int]

Lines == [Items -> Line \cup {NoRow}]

Idle == [op |-> "idle"]

CreateTask == [op : {"create"}, statement : Statements, user : Users,
               items : (SUBSET Items) \cup {NULL},
               opening : [Items -> Int] \cup {NULL}]

LinesTask == [op : {"lines"}, statement : Statements,
              payload : [Items -> Inputs \cup {NULL}], seen : Lines]

WriteTask == [op : {"write"}, statement : Statements, updates : Lines]

StatusTask == [op : {"status"}, statement : Statements, user : Users,
               to : Statuses]

AnnounceTask == [op : {"announce"}, statement : Statements, user : Managers]

Task == {Idle} \cup CreateTask \cup LinesTask \cup WriteTask
          \cup StatusTask \cup AnnounceTask

TypeOK ==
  /\ item \in [Items -> ItemStates]
  /\ statement \in [Statements -> Row \cup {NoRow}]
  /\ line \in [Statements -> Lines]
  /\ announced \in SUBSET (Statements \X Managers)
  /\ task \in [Requests -> Task]
  /\ failures \in 0 .. MaxFailures

Init ==
  /\ item = [i \in Items |-> IF i \in Catalog THEN "active" ELSE "absent"]
  /\ statement = [s \in Statements |-> NoRow]
  /\ line = [s \in Statements |-> [i \in Items |-> NoRow]]
  /\ announced = {}
  /\ task = [r \in Requests |-> Idle]
  /\ failures = 0

-----------------------------------------------------------------------------
(* What the handlers share. *)

Exists(s) == statement[s] # NoRow

Earlier(s) == {e \in Statements : e[1] = s[1] /\ e[2] < s[2] /\ Exists(e)}

(* Opening stock is editable on the first statement of a branch only. *)
isOpeningStatement(s) == Earlier(s) = {}

OwnBranch(u, s) == u \in Managers => s[1] = Home[u]

Accept(r, t) ==
  /\ task[r] = Idle
  /\ task' = [task EXCEPT ![r] = t]

Answer(r) == task' = [task EXCEPT ![r] = Idle]

-----------------------------------------------------------------------------
(* createItem, updateItem, deleteItem.  Their guard read and their write   *)
(* are one step here: the write touches a column the guard does not read,  *)
(* so a deleted item stays out of new statements in either order.          *)

CreateItem(i) ==
  /\ "item" \in Operations
  /\ item[i] = "absent"
  /\ item' = [item EXCEPT ![i] = "active"]
  /\ UNCHANGED <<statement, line, announced, task, failures>>

UpdateItem(i) ==
  \E to \in {"active", "inactive"} :
    /\ "item" \in Operations
    /\ item[i] \in {"active", "inactive"} \ {to}
    /\ item' = [item EXCEPT ![i] = to]
    /\ UNCHANGED <<statement, line, announced, task, failures>>

DeleteItem(i) ==
  /\ "item" \in Operations
  /\ item[i] \in {"active", "inactive"}
  /\ item' = [item EXCEPT ![i] = "deleted"]
  /\ UNCHANGED <<statement, line, announced, task, failures>>

-----------------------------------------------------------------------------
(* createStatement: check that the month is free, read the items and the   *)
(* previous statement (two queries in parallel), insert.                   *)

BeginCreate(r) ==
  \E u \in Users, s \in Statements :
    /\ "create" \in Operations
    /\ OwnBranch(u, s)
    /\ ~Exists(s)
    /\ Accept(r, [op |-> "create", statement |-> s, user |-> u,
                  items |-> NULL, opening |-> NULL])
    /\ UNCHANGED <<item, statement, line, announced, failures>>

ReadItems(r) ==
  /\ task[r].op = "create"
  /\ task[r].items = NULL
  /\ task' = [task EXCEPT ![r].items = {i \in Items : item[i] = "active"}]
  /\ UNCHANGED <<item, statement, line, announced, failures>>

(* Mutant: the carried stock comes from the first statement of the branch. *)
carriedFromFirst(s) ==
  [i \in Items |->
     IF Earlier(s) = {} THEN 0
     ELSE LET p == <<s[1], Min({e[2] : e \in Earlier(s)})>>
          IN  IF line[p][i] = NoRow THEN 0 ELSE line[p][i].closingStock]

(* The closing stock of the latest earlier statement, 0 where it has no    *)
(* line for the item.                                                      *)
prevClosing(s) ==
  [i \in Items |->
     IF Earlier(s) = {} THEN 0
     ELSE LET p == <<s[1], Max({e[2] : e \in Earlier(s)})>>
          IN  IF line[p][i] = NoRow THEN 0 ELSE line[p][i].closingStock]

ReadPrevious(r) ==
  /\ task[r].op = "create"
  /\ task[r].opening = NULL
  /\ task' = [task EXCEPT ![r].opening = prevClosing(task[r].statement)]
  /\ UNCHANGED <<item, statement, line, announced, failures>>

NewLine(opening) ==
  [openingStock |-> opening, added |-> 0, brokenLost |-> 0, reject |-> 0,
   closingStock |-> 0]

InsertStatement(r) ==
  LET t == task[r]
      s == t.statement
      row == [id          |-> 1 + Cardinality({e \in Statements : Exists(e)}),
              status      |-> "DRAFT",
              submittedBy |-> IF t.user \in Managers THEN t.user ELSE NULL,
              submitted   |-> FALSE]
  IN  /\ t.op = "create"
      /\ t.items # NULL
      /\ t.opening # NULL
      /\ ~Exists(s)
      /\ statement' = [statement EXCEPT ![s] = row]
      /\ line' = [line EXCEPT ![s] =
           [i \in Items |-> IF i \in t.items THEN NewLine(t.opening[i]) ELSE NoRow]]
      /\ Answer(r)
      /\ UNCHANGED <<item, announced, failures>>

(* The unique index on branch and month refuses the row. *)
MonthIsTaken(r) ==
  /\ task[r].op = "create"
  /\ task[r].items # NULL
  /\ task[r].opening # NULL
  /\ Exists(task[r].statement)
  /\ Answer(r)
  /\ UNCHANGED <<item, statement, line, announced, failures>>

-----------------------------------------------------------------------------
(* updateStatementLines: read the statement and its lines, ask whether it  *)
(* is the opening one, compute whole lines, write them in a transaction.   *)

BeginUpdateLines(r) ==
  \E u \in Users, s \in Statements, payload \in [Items -> Inputs \cup {NULL}] :
    /\ "lines" \in Operations
    /\ Exists(s)
    /\ statement[s].status # "LOCKED"
    /\ OwnBranch(u, s)
    /\ \E i \in Items : payload[i] # NULL
    /\ Accept(r, [op |-> "lines", statement |-> s, payload |-> payload,
                  seen |-> line[s]])
    /\ UNCHANGED <<item, statement, line, announced, failures>>

Closing(l) == l.openingStock + l.added - l.brokenLost - l.reject

Given(count, old) == IF count = NULL THEN old ELSE count

(* A count the request does not name keeps the value that was read. *)
Edited(input, seen) ==
  LET opening == Given(input.openingStock, seen.openingStock)
      added   == Given(input.added, seen.added)
      broken  == Given(input.brokenLost, seen.brokenLost)
      reject  == Given(input.reject, seen.reject)
  IN  [openingStock |-> opening, added |-> added, brokenLost |-> broken,
       reject |-> reject, closingStock |-> opening + added - broken - reject]

(* The lines of the statement that a payload names. *)
Named(payload, seen) == {i \in Items : payload[i] # NULL /\ seen[i] # NoRow}

(* Mutant: a negative closing stock is accepted. *)
AcceptableIfNegative(s, payload, seen) ==
  \A i \in Named(payload, seen) :
    payload[i].openingStock # NULL => isOpeningStatement(s)

(* Mutant: the opening stock is always editable. *)
AcceptableOpening(s, payload, seen) ==
  \A i \in Named(payload, seen) : Edited(payload[i], seen[i]).closingStock >= 0

Acceptable(s, payload, seen) ==
  \A i \in Named(payload, seen) :
    /\ payload[i].openingStock # NULL => isOpeningStatement(s)
    /\ Edited(payload[i], seen[i]).closingStock >= 0

SameCounts(a, b) ==
  /\ a.openingStock = b.openingStock
  /\ a.added = b.added
  /\ a.brokenLost = b.brokenLost
  /\ a.reject = b.reject

(* The named lines whose counts differ from what was read; others are not  *)
(* written.                                                                *)
Updates(payload, seen) ==
  [i \in Items |->
     IF /\ i \in Named(payload, seen)
        /\ ~SameCounts(Edited(payload[i], seen[i]), seen[i])
     THEN Edited(payload[i], seen[i])
     ELSE NoRow]

CheckLines(r) ==
  LET t == task[r]
  IN  /\ t.op = "lines"
      /\ \/ /\ Acceptable(t.statement, t.payload, t.seen)
            /\ task' = [task EXCEPT ![r] =
                 [op |-> "write", statement |-> t.statement,
                  updates |-> Updates(t.payload, t.seen)]]
         \/ /\ ~Acceptable(t.statement, t.payload, t.seen)
            /\ Answer(r)
      /\ UNCHANGED <<item, statement, line, announced, failures>>

(* Mutant: the write adds up with the opening stock it overwrites. *)
Overwritten(updates, old) ==
  [i \in Items |->
     IF updates[i] = NoRow THEN old[i]
     ELSE [updates[i] EXCEPT !.openingStock = old[i].openingStock]]

Merged(updates, old) ==
  [i \in Items |-> IF updates[i] = NoRow THEN old[i] ELSE updates[i]]

WriteLines(r) ==
  LET t == task[r]
  IN  /\ t.op = "write"
      /\ line' = [line EXCEPT ![t.statement] = Merged(t.updates, @)]
      /\ Answer(r)
      /\ UNCHANGED <<item, statement, announced, failures>>

-----------------------------------------------------------------------------
(* updateStatementStatus: read, check, write WHERE id; a manager's         *)
(* submission is then announced.                                           *)

(* Mutant: a draft may be locked. *)
MayBecomeLockedAnyway(u, s, to) ==
  /\ to = "SUBMITTED" => OwnBranch(u, s) /\ statement[s].status # "LOCKED"
  /\ to = "LOCKED" => u \notin Managers

(* Nothing is asked of a change to DRAFT. *)
MayBecome(u, s, to) ==
  /\ to = "SUBMITTED" => OwnBranch(u, s) /\ statement[s].status # "LOCKED"
  /\ to = "LOCKED" => u \notin Managers /\ statement[s].status # "DRAFT"

BeginStatus(r) ==
  \E u \in Users, s \in Statements, to \in Statuses :
    /\ "status" \in Operations
    /\ Exists(s)
    /\ MayBecome(u, s, to)
    /\ Accept(r, [op |-> "status", statement |-> s, user |-> u, to |-> to])
    /\ UNCHANGED <<item, statement, line, announced, failures>>

Stamped(t, old) ==
  IF t.to = "SUBMITTED"
  THEN [old EXCEPT !.status = t.to, !.submittedBy = t.user, !.submitted = TRUE]
  ELSE [old EXCEPT !.status = t.to]

(* Mutant: only the first submission is announced. *)
AnnouncesFirst(t) ==
  t.user \in Managers /\ t.to = "SUBMITTED" /\ ~statement[t.statement].submitted

Announces(t) == t.user \in Managers /\ t.to = "SUBMITTED"

WriteStatus(r) ==
  LET t == task[r]
  IN  /\ t.op = "status"
      /\ statement' = [statement EXCEPT ![t.statement] = Stamped(t, @)]
      /\ \/ /\ Announces(t)
            /\ task' = [task EXCEPT ![r] =
                 [op |-> "announce", statement |-> t.statement, user |-> t.user]]
         \/ /\ ~Announces(t)
            /\ Answer(r)
      /\ UNCHANGED <<item, line, announced, failures>>

AnnounceSubmission(r) ==
  /\ task[r].op = "announce"
  /\ announced' = announced \cup {<<task[r].statement, task[r].user>>}
  /\ Answer(r)
  /\ UNCHANGED <<item, statement, line, failures>>

-----------------------------------------------------------------------------

(* A database error, the transaction's timeout or the end of the process:  *)
(* the rest of the handler never runs.                                     *)
RequestDies(r) ==
  /\ task[r] # Idle
  /\ failures < MaxFailures
  /\ failures' = failures + 1
  /\ Answer(r)
  /\ UNCHANGED <<item, statement, line, announced>>

Begin(r) == BeginCreate(r) \/ BeginUpdateLines(r) \/ BeginStatus(r)

Continue(r) ==
  \/ ReadItems(r)
  \/ ReadPrevious(r)
  \/ InsertStatement(r)
  \/ MonthIsTaken(r)
  \/ CheckLines(r)
  \/ WriteLines(r)
  \/ WriteStatus(r)
  \/ AnnounceSubmission(r)

AdministerItem(i) == CreateItem(i) \/ UpdateItem(i) \/ DeleteItem(i)

Next ==
  \/ \E i \in Items : AdministerItem(i)
  \/ \E r \in Requests : Begin(r) \/ Continue(r) \/ RequestDies(r)

Spec == Init /\ [][Next]_vars

(* A handler that has begun takes its next step, since every database call *)
(* settles; clients owe nothing.                                           *)
FairSpec == Spec /\ \A r \in Requests : WF_vars(Continue(r))

-----------------------------------------------------------------------------
(* Safety, under any interleaving of handlers. *)

Untouched(l) ==
  l.added = 0 /\ l.brokenLost = 0 /\ l.reject = 0 /\ l.closingStock = 0

(* Every line that has ever been edited adds up, and never closes below    *)
(* zero, although updates compute it from counts that other updates have   *)
(* since overwritten: a line is always written as a whole.                 *)
EditedLinesAddUp ==
  \A s \in Statements, i \in Items :
    line[s][i] # NoRow =>
      /\ line[s][i].closingStock >= 0
      /\ line[s][i].closingStock = Closing(line[s][i]) \/ Untouched(line[s][i])

(* "Statement must be submitted before it can be locked" holds of every    *)
(* locked statement, although the lock acts on a status read earlier that  *)
(* others put back to DRAFT in between.                                    *)
LockedWasSubmitted ==
  \A s \in Statements :
    Exists(s) /\ statement[s].status \in {"SUBMITTED", "LOCKED"} =>
      statement[s].submitted /\ statement[s].submittedBy # NULL

(* A statement is only ever attributed to a manager of its own branch,     *)
(* whether by creating or by submitting it, whoever else submits it.       *)
SubmitterIsOfTheBranch ==
  \A s \in Statements :
    Exists(s) /\ statement[s].submittedBy \in Managers =>
      Home[statement[s].submittedBy] = s[1]

(* Opening stock of a statement that was created after an earlier month's  *)
(* statement never changes: no update that is still under way, whatever it *)
(* has read, is entitled to edit it.                                       *)
CarriedOpeningIsFixed ==
  [][\A s \in Statements : \A e \in Earlier(s) :
       Exists(s) /\ statement[e].id < statement[s].id =>
         \A i \in Items : line[s][i] # NoRow =>
           line'[s][i].openingStock = line[s][i].openingStock]_vars

-----------------------------------------------------------------------------
(* Liveness: a statement a manager has submitted gets a notification, even *)
(* if others submit, reopen or lock it before the notification is written. *)
SubmissionIsAnnounced ==
  \A s \in Statements, m \in Managers :
    Exists(s) /\ statement[s].submitted /\ statement[s].submittedBy = m
      ~> <<s, m>> \in announced

-----------------------------------------------------------------------------
(* Rules the source states of the program as a whole.                      *)

(* API Documentation.md: closingStock = openingStock + added - brokenLost  *)
(* - reject, always computed on the server.                                *)
ClosingAddsUp ==
  \A s \in Statements, i \in Items :
    line[s][i] # NoRow => line[s][i].closingStock = Closing(line[s][i])

(* updateStatementLines: locked statements cannot be edited.               *)
LockedLinesAreFrozen ==
  [][\A s \in Statements :
       Exists(s) /\ statement[s].status = "LOCKED" => line'[s] = line[s]]_vars

(* updateStatementStatus: locked statements cannot be changed.             *)
LockedIsFinal ==
  [][\A s \in Statements :
       Exists(s) /\ statement[s].status = "LOCKED" =>
         statement'[s].status = "LOCKED"]_vars

=============================================================================
