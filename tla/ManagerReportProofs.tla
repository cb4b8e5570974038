------------------------- MODULE ManagerReportProofs -------------------------
(***************************************************************************)
(* Theorems about ManagerReports, for every value of its constants.        *)
(*                                                                         *)
(* A handler writes what an earlier read allowed.  InFlight says, for each *)
(* kind of handler, what it is going to write and what of its guard is     *)
(* still true of the report: the branch always, the rest only as long as   *)
(* no other write has come between (fresh).                                *)
(***************************************************************************)
EXTENDS ManagerReports, TLAPS

TaskFields == {"op", "user", "id", "data", "submits", "fresh"}

Decision == {"status", "approvedBy", "comment"}

(* A handler that will write columns of a stored report. *)
Holds(t) == t.id \in Reports /\ Stored(t.id) /\ OwnBranch(t.user, report[t.id].branch)

Creating(t) ==
  /\ t.op = "insert"
  /\ \E b \in Branches, d \in Dates :
       OwnBranch(t.user, b) /\ t.data = NewReport(t.user, b, d)

Reviving(t) ==
  /\ t.op = "update"
  /\ Holds(t)
  /\ \E d \in Dates : t.data = Revived(t.user, report[t.id].branch, d)
  /\ t.submits <=> t.user \in Managers
  /\ t.fresh => report[t.id].isDeleted

Editing(t) ==
  /\ t.op \in {"check", "update"}
  /\ Holds(t)
  /\ DOMAIN t.data \subseteq {"date"} \cup Decision
  /\ t.op = "check" => "date" \in DOMAIN t.data
  /\ "date" \in DOMAIN t.data => t.data.date \in Dates
  /\ \/ DOMAIN t.data \cap Decision = {}
     \/ /\ Decision \subseteq DOMAIN t.data
        /\ t.data.status = "PENDING"
        /\ t.data.approvedBy = NULL
        /\ t.data.comment \in BOOLEAN
        /\ ~t.data.comment
  /\ t.fresh => /\ ~report[t.id].isDeleted
                /\ MayEdit(t.user, t.id)
                /\ "status" \in DOMAIN t.data => report[t.id].status = "REJECTED"

Deleting(t) ==
  /\ t.op = "update"
  /\ Holds(t)
  /\ t.data = [isDeleted |-> TRUE]
  /\ t.fresh => /\ ~report[t.id].isDeleted
                /\ report[t.id].status = "APPROVED" => t.user \in SuperAdmins

Deciding(t) ==
  /\ t.op = "update"
  /\ Holds(t)
  /\ t.user \in Approvers
  /\ \E to \in {"APPROVED", "REJECTED"}, note \in BOOLEAN :
       t.data = Verdict(t.user, to, note)
  /\ t.fresh => ~report[t.id].isDeleted /\ report[t.id].status # "APPROVED"

InFlight(t) ==
  /\ DOMAIN t = TaskFields
  /\ t.user \in Users
  /\ t.id \in Reports \cup {NULL}
  /\ \/ Creating(t) \/ Reviving(t) \/ Editing(t) \/ Deleting(t) \/ Deciding(t)
     \/ t.op = "announce"

(* The inductive form of the type invariant. *)
Typed ==
  /\ report \in [Reports -> Row \cup {NoRow}]
  /\ comments \subseteq Reports \X Approvers
  /\ DOMAIN task = Requests
  /\ \A r \in Requests : task[r] # Idle => InFlight(task[r])

-----------------------------------------------------------------------------
(* Records. *)

LEMMA NoRowIsNoRow == NoRow \notin Row
  BY DEF Row, NoRow

LEMMA NewReportIsRow ==
  ASSUME NEW u \in Users, NEW b \in Branches, NEW d \in Dates
  PROVE  NewReport(u, b, d) \in Row
  BY DEF NewReport, Row, Statuses

(* What an update may write: some columns, each of its type. *)
PartOfRow(data) ==
  /\ DOMAIN data \subseteq {"branch", "date", "status", "isDeleted", "approvedBy",
                            "comment", "signature"}
  /\ "branch" \in DOMAIN data => data.branch \in Branches
  /\ "date" \in DOMAIN data => data.date \in Dates
  /\ "status" \in DOMAIN data => data.status \in Statuses
  /\ "isDeleted" \in DOMAIN data => data.isDeleted \in BOOLEAN
  /\ "approvedBy" \in DOMAIN data => data.approvedBy \in Users \cup {NULL}
  /\ "comment" \in DOMAIN data => data.comment \in BOOLEAN
  /\ "signature" \in DOMAIN data => data.signature \in Users \cup {NULL}

LEMMA WrittenRow ==
  ASSUME NEW row \in Row, NEW data, PartOfRow(data)
  PROVE  Written(row, data) \in Row
  BY DEF Written, Row, PartOfRow

LEMMA WrittenColumn ==
  ASSUME NEW row \in Row, NEW data, NEW c \in DOMAIN row
  PROVE  Written(row, data)[c] = IF c \in DOMAIN data THEN data[c] ELSE row[c]
  BY DEF Written

LEMMA RevivedColumns ==
  ASSUME NEW u \in Users, NEW b \in Branches, NEW d \in Dates
  PROVE  /\ DOMAIN Revived(u, b, d) = {"branch", "date", "status", "approvedBy", "isDeleted"}
         /\ Revived(u, b, d).branch = b
         /\ Revived(u, b, d).date = d
         /\ Revived(u, b, d).status = "PENDING"
         /\ Revived(u, b, d).approvedBy = NULL
         /\ Revived(u, b, d).isDeleted \in BOOLEAN
         /\ ~Revived(u, b, d).isDeleted
  BY DEF Revived, NewReport

LEMMA VerdictColumns ==
  ASSUME NEW u \in Users, NEW to \in {"APPROVED", "REJECTED"}, NEW note \in BOOLEAN
  PROVE  /\ DOMAIN Verdict(u, to, note) = {"status", "approvedBy", "comment", "signature"}
         /\ Verdict(u, to, note).status = to
         /\ Verdict(u, to, note).approvedBy = u
         /\ Verdict(u, to, note).comment \in BOOLEAN
         /\ to = "APPROVED" => ~Verdict(u, to, note).comment
         /\ Verdict(u, to, note).signature
              = IF to = "APPROVED" /\ u \in Signers THEN u ELSE NULL
  BY DEF Verdict

LEMMA UpdateIsPart ==
  ASSUME Typed, NEW r \in Requests, task[r] # Idle, task[r].op = "update"
  PROVE  PartOfRow(task[r].data)
  <1>. DEFINE t == task[r]
  <1>1. InFlight(t) /\ t.op = "update"
    BY DEF Typed
  <1>2. CASE Reviving(t)
    <2>1. report[t.id].branch \in Branches
      BY <1>2 DEF Reviving, Holds, Typed, Stored, Row
    <2>2. PICK d \in Dates : t.data = Revived(t.user, report[t.id].branch, d)
      BY <1>2 DEF Reviving
    <2>3. t.user \in Users
      BY <1>1 DEF InFlight
    <2>4. /\ DOMAIN t.data = {"branch", "date", "status", "approvedBy", "isDeleted"}
          /\ t.data.branch = report[t.id].branch
          /\ t.data.date = d
          /\ t.data.status = "PENDING"
          /\ t.data.approvedBy = NULL
          /\ t.data.isDeleted \in BOOLEAN
      BY <2>1, <2>2, <2>3, RevivedColumns
    <2>. QED
      BY <2>1, <2>4 DEF PartOfRow, Statuses
  <1>3. CASE Editing(t)
    BY <1>3 DEF Editing, PartOfRow, Decision, Statuses
  <1>4. CASE Deleting(t)
    BY <1>4 DEF Deleting, PartOfRow
  <1>5. CASE Deciding(t)
    <2>1. PICK to \in {"APPROVED", "REJECTED"}, note \in BOOLEAN :
            t.data = Verdict(t.user, to, note)
      BY <1>5 DEF Deciding
    <2>. QED
      BY <1>1, <2>1, VerdictColumns DEF InFlight, PartOfRow, Statuses
  <1>. QED
    BY <1>1, <1>2, <1>3, <1>4, <1>5 DEF InFlight, Creating

-----------------------------------------------------------------------------
(* What a step does to the report it writes and to the other handlers. *)

(* A handler keeps its claims while other reports are written, and loses   *)
(* but those that hold of a report not overtaken when its own is: the      *)
(* branch of a report never changes.                                       *)
LEMMA OthersStayInFlight ==
  ASSUME Typed, NEW r \in Requests, NEW x \in Reports, NEW new \in Row,
         Store(r, x, new),
         Stored(x) => new.branch = report[x].branch,
         NEW q \in Requests, q # r, task'[q] # Idle
  PROVE  InFlight(task[q])'
  <1>. DEFINE t == task[q]
              u == task'[q]
  <1>1. t # Idle /\ InFlight(t)
    BY DEF Store, Typed
  <1>2. new # NoRow /\ \A y \in Reports : report'[y] = IF y = x THEN new ELSE report[y]
    BY NoRowIsNoRow DEF Store, Typed
  <1>3. /\ DOMAIN u = TaskFields
        /\ u.op = t.op
        /\ u.user = t.user
        /\ u.id = t.id
        /\ u.data = t.data
        /\ u.submits = t.submits
        /\ u.fresh => t.fresh /\ t.id # x
    BY <1>1 DEF Store, Typed, InFlight, TaskFields
  <1>4. ASSUME Holds(t)
        PROVE  /\ Holds(t)'
               /\ report'[t.id].branch = report[t.id].branch
               /\ u.fresh => report'[t.id] = report[t.id]
    BY <1>2, <1>3, <1>4 DEF Holds, Stored
  <1>5. CASE Creating(t)
    BY <1>1, <1>3, <1>5 DEF Creating, InFlight
  <1>6. CASE Reviving(t)
    BY <1>1, <1>3, <1>4, <1>6 DEF Reviving, InFlight
  <1>7. CASE Editing(t)
    BY <1>1, <1>3, <1>4, <1>7 DEF Editing, InFlight, MayEdit
  <1>8. CASE Deleting(t)
    BY <1>1, <1>3, <1>4, <1>8 DEF Deleting, InFlight
  <1>9. CASE Deciding(t)
    BY <1>1, <1>3, <1>4, <1>9 DEF Deciding, InFlight
  <1>10. CASE t.op = "announce"
    BY <1>1, <1>3, <1>10 DEF InFlight
  <1>. QED
    BY <1>1, <1>5, <1>6, <1>7, <1>8, <1>9, <1>10 DEF InFlight

(* The handler that wrote has its announcement left, or nothing. *)
LEMMA StoreTyped ==
  ASSUME Typed, NEW r \in Requests, NEW x \in Reports, NEW new \in Row,
         task[r] # Idle, Store(r, x, new),
         Stored(x) => new.branch = report[x].branch
  PROVE  Typed'
  <1>1. report' \in [Reports -> Row \cup {NoRow}] /\ comments' = comments
    BY DEF Store, Typed
  <1>2. DOMAIN task' = Requests
    BY DEF Store
  <1>3. ASSUME NEW q \in Requests, task'[q] # Idle
        PROVE  InFlight(task[q])'
    <2>1. CASE q = r
      <3>1. InFlight(task[r]) /\ task'[r] = [task[r] EXCEPT !.op = "announce"]
        BY <1>3, <2>1 DEF Store, Typed
      <3>2. /\ DOMAIN task'[r] = TaskFields
            /\ task'[r].op = "announce"
            /\ task'[r].user = task[r].user
            /\ task'[r].id = task[r].id
        BY <3>1 DEF InFlight, TaskFields
      <3>. QED
        BY <2>1, <3>1, <3>2 DEF InFlight
    <2>2. CASE q # r
      BY <1>3, <2>2, OthersStayInFlight
    <2>. QED
      BY <2>1, <2>2
  <1>. QED
    BY <1>1, <1>2, <1>3 DEF Typed

(* An update writes a stored report and leaves its branch. *)
LEMMA UpdateKeepsBranch ==
  ASSUME Typed, NEW r \in Requests, task[r].op = "update"
  PROVE  /\ task[r].id \in Reports
         /\ report[task[r].id] \in Row
         /\ Written(report[task[r].id], task[r].data) \in Row
         /\ Written(report[task[r].id], task[r].data).branch = report[task[r].id].branch
  <1>. DEFINE t == task[r]
  <1>1. t # Idle /\ InFlight(t)
    BY DEF Typed, Idle
  <1>2. Holds(t)
    BY <1>1 DEF InFlight, Creating, Reviving, Editing, Deleting, Deciding
  <1>3. t.id \in Reports /\ report[t.id] \in Row
    BY <1>2 DEF Holds, Stored, Typed
  <1>4. "branch" \in DOMAIN t.data => t.data.branch = report[t.id].branch
    <2>1. CASE Reviving(t)
      <3>1. PICK d \in Dates : t.data = Revived(t.user, report[t.id].branch, d)
        BY <2>1 DEF Reviving
      <3>. QED
        BY <1>1, <1>3, <3>1, RevivedColumns DEF InFlight, Row
    <2>2. CASE Editing(t)
      BY <2>2 DEF Editing, Decision
    <2>3. CASE Deleting(t)
      BY <2>3 DEF Deleting
    <2>4. CASE Deciding(t)
      BY <1>1, <2>4, VerdictColumns DEF Deciding, InFlight
    <2>. QED
      BY <1>1, <2>1, <2>2, <2>3, <2>4 DEF InFlight, Creating
  <1>5. Written(report[t.id], t.data) \in Row
    BY <1>1, <1>3, UpdateIsPart, WrittenRow
  <1>6. "branch" \in DOMAIN report[t.id]
    BY <1>3 DEF Row
  <1>7. Written(report[t.id], t.data).branch = report[t.id].branch
    BY <1>3, <1>4, <1>6, WrittenColumn
  <1>. QED
    BY <1>3, <1>5, <1>7

-----------------------------------------------------------------------------
(* Every step keeps Typed. *)

(* A handler that begins: enough that the columns it chose are accounted   *)
(* for.                                                                    *)
LEMMA AcceptTyped ==
  ASSUME Typed, NEW r \in Requests, NEW op, NEW u \in Users,
         NEW x \in Reports \cup {NULL}, NEW data, NEW submits,
         Accept(r, op, u, x, data, submits),
         \/ Creating(task'[r]) \/ Reviving(task'[r]) \/ Editing(task'[r])
         \/ Deleting(task'[r]) \/ Deciding(task'[r])
  PROVE  Typed'
  <1>1. /\ UNCHANGED <<report, comments>>
        /\ DOMAIN task' = Requests
        /\ \A q \in Requests \ {r} : task'[q] = task[q]
        /\ task'[r] = [op |-> op, user |-> u, id |-> x, data |-> data,
                       submits |-> submits, fresh |-> TRUE]
    BY DEF Accept, Typed
  <1>2. ASSUME NEW q \in Requests, q # r, task'[q] # Idle
        PROVE  InFlight(task[q])'
    BY <1>1, <1>2 DEF Typed, InFlight, Creating, Reviving, Editing, Deleting,
       Deciding, Holds, Stored, MayEdit
  <1>3. InFlight(task[r])'
    <2>1. /\ DOMAIN task'[r] = TaskFields
          /\ task'[r].user = u
          /\ task'[r].id = x
      BY <1>1 DEF TaskFields
    <2>2. \/ Creating(task[r])' \/ Reviving(task[r])' \/ Editing(task[r])'
          \/ Deleting(task[r])' \/ Deciding(task[r])'
      BY <1>1 DEF Creating, Reviving, Editing, Deleting, Deciding, Holds, Stored, MayEdit
    <2>. QED
      BY <2>1, <2>2 DEF InFlight
  <1>. QED
    BY <1>1, <1>2, <1>3 DEF Typed

(* A step of r that leaves the reports alone and ends the handler, or      *)
(* touches no handler.                                                     *)
LEMMA AnswerTyped ==
  ASSUME Typed, NEW r \in Requests, Answer(r), UNCHANGED <<report, comments>>
  PROVE  Typed'
  <1>1. DOMAIN task' = Requests /\ \A q \in Requests : task'[q] \in {task[q], Idle}
    BY DEF Typed, Answer
  <1>2. ASSUME NEW q \in Requests, task'[q] # Idle
        PROVE  InFlight(task[q])'
    BY <1>1, <1>2 DEF Typed, InFlight, Creating, Reviving, Editing, Deleting,
       Deciding, Holds, Stored, MayEdit
  <1>. QED
    BY <1>1, <1>2 DEF Typed

LEMMA BeginCreateTyped ==
  ASSUME Typed, NEW r \in Requests, BeginCreate(r)
  PROVE  Typed'
  <1>1. PICK u \in Users, b \in Branches, d \in Dates :
          /\ resolveBranchId(u, b)
          /\ \A x \in At(b, d) : ~Live(x)
          /\ \/ Accept(r, "insert", u, NULL, NewReport(u, b, d), u \in Managers)
             \/ \E x \in At(b, d) :
                  Accept(r, "update", u, x, Revived(u, b, d), u \in Managers)
    BY DEF BeginCreate
  <1>2. CASE Accept(r, "insert", u, NULL, NewReport(u, b, d), u \in Managers)
    <2>1. task'[r] = [op |-> "insert", user |-> u, id |-> NULL,
                      data |-> NewReport(u, b, d), submits |-> u \in Managers,
                      fresh |-> TRUE]
      BY <1>2 DEF Accept, Typed
    <2>2. Creating(task'[r])
      BY <1>1, <2>1 DEF Creating, resolveBranchId
    <2>. QED
      BY <1>2, <2>2, AcceptTyped
  <1>3. ASSUME NEW x \in At(b, d),
               Accept(r, "update", u, x, Revived(u, b, d), u \in Managers)
        PROVE  Typed'
    <2>1. task'[r] = [op |-> "update", user |-> u, id |-> x,
                      data |-> Revived(u, b, d), submits |-> u \in Managers,
                      fresh |-> TRUE]
      BY <1>3 DEF Accept, Typed
    <2>2. x \in Reports /\ Stored(x) /\ report[x].branch = b /\ report[x].isDeleted
      BY <1>1, <1>3 DEF At, Live
    <2>3. task'[r].submits <=> u \in Managers
      <3>1. PICK s : s = (u \in Managers)
        OBVIOUS
      <3>2. task'[r] = [op |-> "update", user |-> u, id |-> x,
                        data |-> Revived(u, b, d), submits |-> s, fresh |-> TRUE]
        BY <2>1, <3>1, Zenon
      <3>3. task'[r].submits = s
        BY <3>2
      <3>. QED
        BY <3>1, <3>3, Zenon
    <2>4. Reviving(task'[r])
      <3>1. /\ task'[r].op = "update"
            /\ task'[r].user = u
            /\ task'[r].id = x
            /\ task'[r].data = Revived(u, b, d)
        BY <2>1
      <3>. QED
        BY <1>1, <2>2, <2>3, <3>1 DEF Reviving, Holds, resolveBranchId
    <2>. QED
      BY <1>3, <2>2, <2>4, AcceptTyped
  <1>. QED
    BY <1>1, <1>2, <1>3

LEMMA EditsColumns ==
  ASSUME NEW u \in Users, NEW x \in Reports, NEW d \in Dates \cup {NULL}
  PROVE  /\ DOMAIN Edits(u, x, d)
              = (IF d = NULL THEN {} ELSE {"date"}) \cup
                (IF Resubmits(u, x) THEN Decision ELSE {})
         /\ d # NULL => Edits(u, x, d).date = d
         /\ Resubmits(u, x) =>
              /\ Edits(u, x, d).status = "PENDING"
              /\ Edits(u, x, d).approvedBy = NULL
              /\ Edits(u, x, d).comment \in BOOLEAN
              /\ ~Edits(u, x, d).comment
  BY DEF Edits, Decision

LEMMA BeginUpdateTyped ==
  ASSUME Typed, NEW r \in Requests, BeginUpdate(r)
  PROVE  Typed'
  <1>1. PICK u \in Users, x \in Reports, d \in Dates \cup {NULL} :
          /\ Live(x)
          /\ MayEdit(u, x)
          /\ Accept(r, IF d \in {NULL, report[x].date} THEN "update" ELSE "check",
                    u, x, Edits(u, x, d), Resubmits(u, x))
    BY DEF BeginUpdate
  <1>. DEFINE op == IF d \in {NULL, report[x].date} THEN "update" ELSE "check"
              data == Edits(u, x, d)
              t == task'[r]
  <1>2. t = [op |-> op, user |-> u, id |-> x, data |-> data,
             submits |-> Resubmits(u, x), fresh |-> TRUE]
    BY <1>1 DEF Accept, Typed
  <1>3. /\ t.op \in {"check", "update"}
        /\ t.op = "check" => d # NULL
        /\ t.user = u
        /\ t.id = x
        /\ t.data = data
    BY <1>2
  <1>4. Holds(t)
    BY <1>1, <1>3 DEF Holds, Live, MayEdit, OwnBranch
  <1>. HIDE DEF op, data, t
  <1>5. /\ DOMAIN data = (IF d = NULL THEN {} ELSE {"date"}) \cup
                         (IF Resubmits(u, x) THEN Decision ELSE {})
        /\ d # NULL => data.date = d
        /\ Resubmits(u, x) =>
              /\ data.status = "PENDING"
              /\ data.approvedBy = NULL
              /\ data.comment \in BOOLEAN
              /\ ~data.comment
    BY EditsColumns DEF data
  <1>6. /\ DOMAIN data \subseteq {"date"} \cup Decision
        /\ "date" \in DOMAIN data <=> d # NULL
        /\ "date" \in DOMAIN data => data.date \in Dates
    BY <1>5 DEF Decision
  <1>7. \/ DOMAIN data \cap Decision = {} /\ ~Resubmits(u, x)
        \/ /\ Resubmits(u, x)
           /\ Decision \subseteq DOMAIN data
           /\ data.status = "PENDING"
           /\ data.approvedBy = NULL
           /\ data.comment \in BOOLEAN
           /\ ~data.comment
    BY <1>5 DEF Decision
  <1>8. "status" \in DOMAIN data => report[x].status = "REJECTED"
    BY <1>7 DEF Resubmits, Decision
  <1>9. Editing(t)
    BY <1>1, <1>3, <1>4, <1>6, <1>7, <1>8 DEF Editing, Live
  <1>. QED
    BY <1>1, <1>9, AcceptTyped DEF op, data, t

LEMMA BeginDeleteTyped ==
  ASSUME Typed, NEW r \in Requests, BeginDelete(r)
  PROVE  Typed'
  <1>1. PICK u \in Users, x \in Reports :
          /\ Live(x)
          /\ OwnBranch(u, report[x].branch)
          /\ report[x].status = "APPROVED" => u \in SuperAdmins
          /\ Accept(r, "update", u, x, [isDeleted |-> TRUE], FALSE)
    BY DEF BeginDelete
  <1>2. task'[r] = [op |-> "update", user |-> u, id |-> x,
                    data |-> [isDeleted |-> TRUE], submits |-> FALSE, fresh |-> TRUE]
    BY <1>1 DEF Accept, Typed
  <1>3. Deleting(task'[r])
    BY <1>1, <1>2 DEF Deleting, Holds, Live
  <1>. QED
    BY <1>1, <1>3, AcceptTyped

LEMMA BeginApprovalTyped ==
  ASSUME ReportAssumption, Typed, NEW r \in Requests, BeginApproval(r)
  PROVE  Typed'
  <1>1. PICK u \in Approvers, x \in Reports, to \in {"APPROVED", "REJECTED"},
             note \in Notes :
          OpenToDecision(x) /\ Accept(r, "update", u, x, Verdict(u, to, note), FALSE)
    BY DEF BeginApproval
  <1>2. u \in Users /\ u \notin Managers /\ note \in BOOLEAN
    BY DEF ReportAssumption
  <1>3. task'[r] = [op |-> "update", user |-> u, id |-> x,
                    data |-> Verdict(u, to, note), submits |-> FALSE, fresh |-> TRUE]
    BY <1>1 DEF Accept, Typed
  <1>4. Deciding(task'[r])
    BY <1>1, <1>2, <1>3 DEF Deciding, Holds, OpenToDecision, Live, OwnBranch
  <1>. QED
    BY <1>1, <1>2, <1>4, AcceptTyped

LEMMA InsertReportTyped ==
  ASSUME Typed, NEW r \in Requests, InsertReport(r)
  PROVE  Typed'
  <1>1. PICK x \in Reports : ~Stored(x) /\ Store(r, x, task[r].data)
    BY DEF InsertReport
  <1>2. task[r].op = "insert" /\ task[r] # Idle /\ InFlight(task[r])
    BY DEF InsertReport, Typed, Idle
  <1>3. PICK b \in Branches, d \in Dates : task[r].data = NewReport(task[r].user, b, d)
    BY <1>2 DEF InFlight, Creating, Reviving, Editing, Deleting, Deciding
  <1>4. task[r].data \in Row
    BY <1>2, <1>3, NewReportIsRow DEF InFlight
  <1>. QED
    BY <1>1, <1>2, <1>4, StoreTyped

LEMMA UpdateReportTyped ==
  ASSUME Typed, NEW r \in Requests, UpdateReport(r)
  PROVE  Typed'
  <1>1. task[r].op = "update" /\ task[r] # Idle
    BY DEF UpdateReport, Idle
  <1>. QED
    BY <1>1, UpdateKeepsBranch, StoreTyped DEF UpdateReport

LEMMA CheckDateTyped ==
  ASSUME Typed, NEW r \in Requests, CheckDate(r)
  PROVE  Typed'
  <1>1. UNCHANGED <<report, comments>>
    BY DEF CheckDate
  <1>2. CASE Answer(r)
    BY <1>1, <1>2, AnswerTyped
  <1>3. CASE task' = [task EXCEPT ![r].op = "update"]
    <2>1. /\ DOMAIN task' = Requests
          /\ task'[r] = [task[r] EXCEPT !.op = "update"]
          /\ \A q \in Requests \ {r} : task'[q] = task[q]
      BY <1>3 DEF Typed
    <2>2. ASSUME NEW q \in Requests, q # r, task'[q] # Idle
          PROVE  InFlight(task[q])'
      BY <1>1, <2>1, <2>2 DEF Typed, InFlight, Creating, Reviving, Editing, Deleting,
         Deciding, Holds, Stored, MayEdit
    <2>3. task[r].op = "check" /\ InFlight(task[r])
      BY DEF CheckDate, Typed, Idle
    <2>4. Editing(task[r])
      BY <2>3 DEF InFlight, Creating, Reviving, Deleting, Deciding
    <2>5. /\ DOMAIN task'[r] = TaskFields
          /\ task'[r].op = "update"
          /\ task'[r].user = task[r].user
          /\ task'[r].id = task[r].id
          /\ task'[r].data = task[r].data
          /\ task'[r].fresh = task[r].fresh
      BY <2>1, <2>3 DEF InFlight, TaskFields
    <2>6. Editing(task[r])'
      BY <1>1, <2>4, <2>5 DEF Editing, Holds, Stored, MayEdit
    <2>7. InFlight(task[r])'
      BY <2>3, <2>5, <2>6 DEF InFlight
    <2>. QED
      BY <1>1, <2>1, <2>2, <2>7 DEF Typed
  <1>. QED
    BY <1>2, <1>3 DEF CheckDate

LEMMA AddCommentTyped ==
  ASSUME Typed, NEW x \in Reports, AddComment(x)
  PROVE  Typed'
  <1>1. UNCHANGED <<report, task>> /\ comments' \subseteq Reports \X Approvers
    BY DEF AddComment, Typed
  <1>. QED
    BY <1>1 DEF Typed, InFlight, Creating, Reviving, Editing, Deleting, Deciding,
       Holds, Stored, MayEdit

LEMMA InitTyped == Init => Typed
  BY DEF Init, Typed

LEMMA NextTyped ==
  ASSUME ReportAssumption, Typed, [Next]_vars
  PROVE  Typed'
  <1>1. ASSUME NEW r \in Requests, Begin(r)
        PROVE  Typed'
    BY <1>1, BeginCreateTyped, BeginUpdateTyped, BeginDeleteTyped, BeginApprovalTyped
       DEF Begin
  <1>2. ASSUME NEW r \in Requests, Continue(r)
        PROVE  Typed'
    BY <1>2, InsertReportTyped, CheckDateTyped, UpdateReportTyped, AnswerTyped
       DEF Continue, FailOnDuplicate, Announce
  <1>3. CASE UNCHANGED vars
    BY <1>3 DEF vars, Typed, InFlight, Creating, Reviving, Editing, Deleting, Deciding,
       Holds, Stored, MayEdit
  <1>. QED
    BY <1>1, <1>2, <1>3, AddCommentTyped DEF Next

LEMMA AlwaysTyped == Spec => []Typed
  <1>1. Typed /\ [Next]_vars => Typed'
    BY ReportAssumption, NextTyped
  <1>. QED
    BY InitTyped, <1>1, PTL DEF Spec

(* Rows, comments and handlers in flight have their types: what a handler  *)
(* holds between its guard read and its write included.                    *)
THEOREM TypesHold == Spec => []TypeOK
  <1>1. Typed => TypeOK
    <2>1. ASSUME Typed, NEW r \in Requests, task[r] # Idle
          PROVE  /\ task[r].op \in {"insert", "check", "update", "announce"}
                 /\ task[r].user \in Users
                 /\ task[r].id \in Reports \cup {NULL}
      BY <2>1 DEF Typed, InFlight, Creating, Reviving, Editing, Deleting, Deciding
    <2>. QED
      BY <2>1 DEF Typed, TypeOK
  <1>. QED
    BY AlwaysTyped, <1>1, PTL

-----------------------------------------------------------------------------
(* Frames: reports change by the two writes only, each a Store by the      *)
(* handler whose step it is.                                               *)

Writes(r, x, new) ==
  /\ task[r] # Idle
  /\ InFlight(task[r])
  /\ Store(r, x, new)
  /\ report' = [report EXCEPT ![x] = new]
  /\ \/ task[r].op = "insert" /\ ~Stored(x) /\ new = task[r].data
     \/ /\ task[r].op = "update"
        /\ x = task[r].id
        /\ report[x] \in Row
        /\ new = Written(report[x], task[r].data)
        /\ new.branch = report[x].branch

LEMMA WritersWrite ==
  ASSUME Typed, NEW r \in Requests, InsertReport(r) \/ UpdateReport(r)
  PROVE  \E x \in Reports, new \in Row : Writes(r, x, new)
  <1>1. task[r] # Idle /\ InFlight(task[r])
    BY DEF InsertReport, UpdateReport, Typed, Idle
  <1>2. CASE InsertReport(r)
    <2>1. task[r].op = "insert"
      BY <1>2 DEF InsertReport
    <2>2. PICK x \in Reports : ~Stored(x) /\ Store(r, x, task[r].data)
      BY <1>2 DEF InsertReport
    <2>3. PICK b \in Branches, d \in Dates : task[r].data = NewReport(task[r].user, b, d)
      BY <1>1, <2>1 DEF InFlight, Creating, Reviving, Editing, Deleting, Deciding
    <2>4. task[r].data \in Row
      BY <1>1, <2>3, NewReportIsRow DEF InFlight
    <2>5. report' = [report EXCEPT ![x] = task[r].data]
      BY <2>2 DEF Store
    <2>6. Writes(r, x, task[r].data)
      BY <1>1, <2>1, <2>2, <2>5 DEF Writes
    <2>. QED
      BY <2>4, <2>6
  <1>3. CASE UpdateReport(r)
    <2>. DEFINE x == task[r].id
                new == Written(report[x], task[r].data)
    <2>1. task[r].op = "update" /\ Store(r, x, new)
      BY <1>3 DEF UpdateReport
    <2>2. x \in Reports /\ report[x] \in Row /\ new \in Row /\ new.branch = report[x].branch
      BY <2>1, UpdateKeepsBranch
    <2>3. report' = [report EXCEPT ![x] = new]
      BY <2>1 DEF Store
    <2>4. Writes(r, x, new)
      BY <1>1, <2>1, <2>2, <2>3 DEF Writes
    <2>. QED
      BY <2>2, <2>4
  <1>. QED
    BY <1>2, <1>3

LEMMA ReportFrame ==
  ASSUME Typed, [Next]_vars, report' # report
  PROVE  \E r \in Requests, x \in Reports, new \in Row : Writes(r, x, new)
  <1>1. PICK r \in Requests : InsertReport(r) \/ UpdateReport(r)
    BY DEF Next, vars, Begin, BeginCreate, BeginUpdate, BeginDelete, BeginApproval,
       Accept, Continue, CheckDate, FailOnDuplicate, Announce, AddComment
  <1>. QED
    BY <1>1, WritersWrite

(* When the handler of r goes on and the report changes, r is the writer.  *)
LEMMA HandlerFrame ==
  ASSUME Typed, [Next]_vars, NEW r \in Requests,
         task[r] # Idle, task[r].op # task'[r].op, report' # report
  PROVE  \E x \in Reports, new \in Row : Writes(r, x, new)
  <1>1. PICK w \in Requests, x \in Reports, new \in Row : Writes(w, x, new)
    BY ReportFrame
  <1>2. ASSUME w # r
        PROVE  FALSE
    <2>1. InFlight(task[r])
      BY DEF Typed
    <2>2. task'[r].op = task[r].op
      BY <1>1, <1>2, <2>1 DEF Writes, Store, InFlight, TaskFields
    <2>. QED
      BY <2>2
  <1>. QED
    BY <1>1, <1>2

-----------------------------------------------------------------------------
(* Only the columns of a revival unmark a deleted report, so whatever else *)
(* lands after a deletion leaves the report deleted.                       *)

Returned(r, x, row) ==
  /\ row.status = "PENDING"
  /\ row.approvedBy = NULL
  /\ row.branch = report[x].branch
  /\ task[r].data = Revived(task[r].user, report[x].branch, row.date)

LEMMA UnmarkedByRevival ==
  ASSUME Typed, NEW r \in Requests, NEW x \in Reports, NEW new \in Row,
         Writes(r, x, new), task[r].op = "update", report[x].isDeleted, ~new.isDeleted
  PROVE  Reviving(task[r]) /\ Returned(r, x, new)
  <1>. DEFINE t == task[r]
              row == report[x]
  <1>1. /\ InFlight(t)
        /\ x = t.id
        /\ row \in Row
        /\ new = Written(row, t.data)
        /\ new.branch = row.branch
    BY DEF Writes
  <1>2. /\ new.isDeleted = IF "isDeleted" \in DOMAIN t.data THEN t.data.isDeleted ELSE row.isDeleted
        /\ new.status = IF "status" \in DOMAIN t.data THEN t.data.status ELSE row.status
        /\ new.approvedBy = IF "approvedBy" \in DOMAIN t.data THEN t.data.approvedBy ELSE row.approvedBy
        /\ new.date = IF "date" \in DOMAIN t.data THEN t.data.date ELSE row.date
    BY <1>1 DEF Written, Row
  <1>3. "isDeleted" \in DOMAIN t.data /\ ~t.data.isDeleted
    BY <1>2
  <1>4. CASE Reviving(t)
    <2>1. PICK d \in Dates : t.data = Revived(t.user, row.branch, d)
      BY <1>1, <1>4 DEF Reviving
    <2>2. t.user \in Users /\ row.branch \in Branches
      BY <1>1 DEF InFlight, Row
    <2>3. /\ DOMAIN t.data = {"branch", "date", "status", "approvedBy", "isDeleted"}
          /\ t.data.date = d
          /\ t.data.status = "PENDING"
          /\ t.data.approvedBy = NULL
      BY <2>1, <2>2, RevivedColumns
    <2>4. new.status = "PENDING" /\ new.approvedBy = NULL /\ new.date = d
      BY <1>2, <2>3
    <2>. QED
      BY <1>1, <1>4, <2>1, <2>4 DEF Returned
  <1>5. CASE Editing(t)
    BY <1>3, <1>5 DEF Editing, Decision
  <1>6. CASE Deleting(t)
    BY <1>3, <1>6 DEF Deleting
  <1>7. CASE Deciding(t)
    BY <1>1, <1>3, <1>7, VerdictColumns DEF Deciding, InFlight
  <1>. QED
    BY <1>1, <1>4, <1>5, <1>6, <1>7 DEF InFlight, Creating, Writes

LEMMA RevivalStep ==
  ASSUME Typed, [Next]_vars, NEW x \in Reports, Removed[x], ~Removed'[x]
  PROVE  \E r \in Requests :
           /\ task[r].op = "update"
           /\ task[r].id = x
           /\ Returned(r, x, report'[x])
           /\ task'[r].op = IF task[r].user \in Managers THEN "announce" ELSE "idle"
  <1>1. report[x] # NoRow /\ report[x].isDeleted
    BY DEF Removed, Stored
  <1>2. report'[x] # report[x]
    BY <1>1 DEF Removed, Stored
  <1>3. PICK r \in Requests, y \in Reports, new \in Row : Writes(r, y, new)
    BY <1>2, ReportFrame
  <1>4. y = x /\ report'[x] = new
    BY <1>2, <1>3 DEF Writes, Typed
  <1>5. ~new.isDeleted
    BY <1>4, NoRowIsNoRow DEF Removed, Stored
  <1>6. task[r].op = "update" /\ task[r].id = x
    BY <1>1, <1>3, <1>4 DEF Writes, Stored
  <1>7. Reviving(task[r]) /\ Returned(r, x, new)
    BY <1>1, <1>3, <1>4, <1>5, <1>6, UnmarkedByRevival
  <1>8. task'[r].op = IF task[r].user \in Managers THEN "announce" ELSE "idle"
    <2>1. task'[r] = IF task[r].submits THEN [task[r] EXCEPT !.op = "announce"] ELSE Idle
      BY <1>3 DEF Writes, Store
    <2>2. InFlight(task[r]) /\ (task[r].submits <=> task[r].user \in Managers)
      BY <1>3, <1>7 DEF Writes, Reviving
    <2>. QED
      BY <2>1, <2>2 DEF InFlight, TaskFields, Idle
  <1>. QED
    BY <1>4, <1>6, <1>7, <1>8

(* A deleted report returns only as the submission of a creation, whatever *)
(* edits, verdicts and deletions had read it before.                       *)
THEOREM DeletedReportsStayDeleted == Spec => OnlyCreationRevives
  <1>1. Typed /\ [Next]_vars =>
          [\A x \in Reports : Removed[x] /\ ~Removed'[x] =>
             /\ report'[x].status = "PENDING"
             /\ report'[x].approvedBy = NULL
             /\ report'[x].branch = report[x].branch
             /\ \E r \in Requests :
                  /\ task[r].op = "update"
                  /\ task[r].id = x
                  /\ task[r].data = Revived(task[r].user, report[x].branch, report'[x].date)
                  /\ task'[r].op = IF task[r].user \in Managers THEN "announce" ELSE "idle"]_vars
    BY RevivalStep DEF Returned
  <1>. QED
    BY <1>1, AlwaysTyped, PTL DEF Spec, OnlyCreationRevives

-----------------------------------------------------------------------------
(* Each kind of write keeps status, decider and signature together: it     *)
(* writes all of them or none, or takes the decision back with its decider. *)

Signed(row) ==
  /\ row.approvedBy = NULL <=> row.status = "PENDING"
  /\ row.status = "APPROVED" =>
       /\ row.signature \in {row.approvedBy, NULL}
       /\ row.signature = NULL <=> row.approvedBy \notin Signers
       /\ ~row.comment
  /\ row.status = "REJECTED" => row.signature = NULL

LEMMA NewReportIsSigned ==
  ASSUME NEW u \in Users, NEW b \in Branches, NEW d \in Dates
  PROVE  Signed(NewReport(u, b, d))
  BY DEF NewReport, Signed

LEMMA UpdateIsSigned ==
  ASSUME ReportAssumption, Typed, NEW r \in Requests, task[r] # Idle,
         task[r].op = "update", Signed(report[task[r].id])
  PROVE  Signed(Written(report[task[r].id], task[r].data))
  <1>. DEFINE t == task[r]
              row == report[t.id]
              new == Written(row, t.data)
  <1>1. InFlight(t)
    BY DEF Typed
  <1>2. row \in Row
    BY UpdateKeepsBranch
  <1>3. /\ new.status = IF "status" \in DOMAIN t.data THEN t.data.status ELSE row.status
        /\ new.approvedBy
             = IF "approvedBy" \in DOMAIN t.data THEN t.data.approvedBy ELSE row.approvedBy
        /\ new.comment = IF "comment" \in DOMAIN t.data THEN t.data.comment ELSE row.comment
        /\ new.signature
             = IF "signature" \in DOMAIN t.data THEN t.data.signature ELSE row.signature
    BY <1>2 DEF Written, Row
  <1>. SUFFICES Signed(new)
    OBVIOUS
  <1>. HIDE DEF new
  <1>4. CASE Reviving(t)
    <2>1. PICK d \in Dates : t.data = Revived(t.user, row.branch, d)
      BY <1>4 DEF Reviving
    <2>2. /\ DOMAIN t.data = {"branch", "date", "status", "approvedBy", "isDeleted"}
          /\ t.data.status = "PENDING"
          /\ t.data.approvedBy = NULL
      BY <1>1, <1>2, <2>1, RevivedColumns DEF InFlight, Row
    <2>. QED
      BY <1>3, <2>2 DEF Signed
  <1>5. CASE Editing(t)
    <2>1. "signature" \notin DOMAIN t.data
      BY <1>5 DEF Editing, Decision
    <2>2. CASE DOMAIN t.data \cap Decision = {}
      BY <1>3, <2>1, <2>2 DEF Signed, Decision
    <2>3. CASE DOMAIN t.data \cap Decision # {}
      BY <1>3, <1>5, <2>3 DEF Signed, Decision, Editing
    <2>. QED
      BY <2>2, <2>3
  <1>6. CASE Deleting(t)
    BY <1>3, <1>6 DEF Deleting, Signed
  <1>7. CASE Deciding(t)
    <2>1. t.user \in Users /\ t.user # NULL
      BY <1>1 DEF InFlight, ReportAssumption
    <2>2. PICK to \in {"APPROVED", "REJECTED"}, note \in BOOLEAN :
            t.data = Verdict(t.user, to, note)
      BY <1>7 DEF Deciding
    <2>3. /\ new.status = to
          /\ new.approvedBy = t.user
          /\ to = "APPROVED" => ~new.comment
          /\ new.signature = IF to = "APPROVED" /\ t.user \in Signers THEN t.user ELSE NULL
      BY <1>3, <2>1, <2>2, VerdictColumns
    <2>. QED
      BY <2>1, <2>3 DEF Signed
  <1>. QED
    BY <1>1, <1>4, <1>5, <1>6, <1>7 DEF InFlight, Creating

LEMMA SignedRows ==
  DecisionsAreSigned <=> \A x \in Reports : Stored(x) => Signed(report[x])
  BY DEF DecisionsAreSigned, Signed

LEMMA SignedNext ==
  ASSUME ReportAssumption, Typed, DecisionsAreSigned, [Next]_vars
  PROVE  DecisionsAreSigned'
  <1>. SUFFICES ASSUME NEW x \in Reports, Stored(x)'
                PROVE  Signed(report[x])'
    BY DEF DecisionsAreSigned, Signed
  <1>1. Stored(x) => Signed(report[x])
    BY SignedRows
  <1>2. CASE report'[x] = report[x]
    BY <1>1, <1>2 DEF Stored, Signed
  <1>3. CASE report'[x] # report[x]
    <2>1. PICK r \in Requests, y \in Reports, new \in Row : Writes(r, y, new)
      BY <1>3, ReportFrame
    <2>2. y = x /\ report'[x] = new
      BY <1>3, <2>1 DEF Writes, Typed
    <2>3. CASE task[r].op = "insert" /\ new = task[r].data
      <3>1. PICK b \in Branches, d \in Dates : new = NewReport(task[r].user, b, d)
        BY <2>1, <2>3 DEF Writes, InFlight, Creating, Reviving, Editing, Deleting, Deciding
      <3>2. task[r].user \in Users
        BY <2>1 DEF Writes, InFlight
      <3>3. Signed(new)
        BY <3>1, <3>2, NewReportIsSigned
      <3>. QED
        BY <2>2, <3>3 DEF Signed
    <2>4. CASE task[r].op = "update"
      <3>1. /\ x = task[r].id
            /\ report[x] \in Row
            /\ new = Written(report[x], task[r].data)
            /\ task[r] # Idle
        BY <2>1, <2>2, <2>4 DEF Writes
      <3>2. Signed(new)
        BY <1>1, <2>4, <3>1, UpdateIsSigned, NoRowIsNoRow DEF Stored
      <3>. QED
        BY <2>2, <3>2 DEF Signed
    <2>. QED
      BY <2>1, <2>3, <2>4 DEF Writes
  <1>. QED
    BY <1>2, <1>3

(* Status, decider and signature of a report agree, whatever writes raced. *)
THEOREM DecisionsBearTheirSigner == Spec => []DecisionsAreSigned
  <1>1. Init => DecisionsAreSigned
    BY DEF Init, DecisionsAreSigned, Stored
  <1>2. Typed /\ DecisionsAreSigned /\ [Next]_vars => DecisionsAreSigned'
    BY ReportAssumption, SignedNext
  <1>. QED
    BY <1>1, <1>2, AlwaysTyped, PTL DEF Spec

-----------------------------------------------------------------------------
(* A manager's handler holds a report of the manager's branch from its     *)
(* guard to its write: the branch is one thing no write changes.           *)

StaysHome(r, x) ==
  /\ report'[x].branch = Home[task[r].user]
  /\ Stored(x) => report[x].branch = report'[x].branch

LEMMA ManagersStayHome ==
  ASSUME Typed, [Next]_vars, NEW r \in Requests, NEW x \in Reports,
         task[r].op # task'[r].op, task[r] # Idle, task[r].user \in Managers,
         report'[x] # report[x]
  PROVE  StaysHome(r, x)
  <1>1. PICK y \in Reports, new \in Row : Writes(r, y, new)
    BY HandlerFrame
  <1>2. y = x /\ report'[x] = new
    BY <1>1 DEF Writes, Typed
  <1>3. CASE task[r].op = "insert" /\ ~Stored(x) /\ new = task[r].data
    <2>1. PICK b \in Branches, d \in Dates :
            OwnBranch(task[r].user, b) /\ new = NewReport(task[r].user, b, d)
      BY <1>1, <1>3 DEF Writes, InFlight, Creating, Reviving, Editing, Deleting, Deciding
    <2>2. new.branch = b
      BY <2>1 DEF NewReport
    <2>. QED
      BY <1>2, <1>3, <2>1, <2>2 DEF StaysHome, OwnBranch
  <1>4. CASE task[r].op = "update" /\ x = task[r].id /\ new.branch = report[x].branch
    <2>1. Holds(task[r])
      BY <1>1, <1>4 DEF Writes, InFlight, Creating, Reviving, Editing, Deleting, Deciding
    <2>. QED
      BY <1>2, <1>4, <2>1 DEF StaysHome, Holds, OwnBranch
  <1>. QED
    BY <1>1, <1>2, <1>3, <1>4 DEF Writes

(* Whatever a manager's request writes, first or last in a race, is a      *)
(* report of the manager's branch.                                         *)
THEOREM ManagersStayInTheirBranch == Spec => ManagersKeepToTheirBranch
  <1>1. Typed /\ [Next]_vars =>
          [\A r \in Requests, x \in Reports :
             /\ task[r].op # task'[r].op
             /\ task[r] # Idle
             /\ task[r].user \in Managers
             /\ report'[x] # report[x]
             => /\ report'[x].branch = Home[task[r].user]
                /\ Stored(x) => report[x].branch = report'[x].branch]_vars
    BY ManagersStayHome DEF StaysHome
  <1>. QED
    BY <1>1, AlwaysTyped, PTL DEF Spec, ManagersKeepToTheirBranch

-----------------------------------------------------------------------------
(* A write that nothing overtook still has its whole guard, and is then a  *)
(* step of the approval workflow.                                          *)

(* What the workflow sees of a row that is written. *)
LEMMA StoredView ==
  ASSUME Typed, NEW r \in Requests, NEW x \in Reports, NEW new \in Row, Writes(r, x, new)
  PROVE  /\ Status' = [Status EXCEPT ![x] = new.status]
         /\ Removed' = [Removed EXCEPT ![x] = new.isDeleted]
  <1>1. new # NoRow /\ new.isDeleted \in BOOLEAN
    BY NoRowIsNoRow DEF Row
  <1>2. report' = [report EXCEPT ![x] = new] /\ DOMAIN report = Reports
    BY DEF Writes, Typed
  <1>. QED
    BY <1>1, <1>2 DEF Status, Removed, Stored

LEMMA FreshWriteFollowsTheRules ==
  ASSUME Typed, NEW r \in Requests, NEW x \in Reports, NEW new \in Row,
         Writes(r, x, new), task[r].fresh
  PROVE  [Rules!Next]_<<Status, Removed>>
  <1>. DEFINE t == task[r]
              row == report[x]
  <1>1. /\ Status' = [Status EXCEPT ![x] = new.status]
        /\ Removed' = [Removed EXCEPT ![x] = new.isDeleted]
    BY StoredView
  <1>2. /\ Status \in [Reports -> Statuses \cup {"NONE"}]
        /\ Removed \in [Reports -> BOOLEAN]
    BY DEF Status, Removed, Typed, Stored, Row
  <1>3. CASE t.op = "insert" /\ ~Stored(x) /\ new = t.data
    <2>1. PICK b \in Branches, d \in Dates : new = NewReport(t.user, b, d)
      BY <1>3 DEF Writes, InFlight, Creating, Reviving, Editing, Deleting, Deciding
    <2>2. new.status = "PENDING" /\ new.isDeleted = FALSE
      BY <2>1 DEF NewReport
    <2>3. Status[x] = "NONE" /\ Removed[x] = FALSE
      BY <1>3 DEF Status, Removed
    <2>4. Rules!Submit(x)
      BY <1>1, <1>2, <2>2, <2>3 DEF Rules!Submit
    <2>. QED
      BY <2>4 DEF Rules!Next
  <1>4. CASE /\ t.op = "update"
             /\ x = t.id
             /\ row \in Row
             /\ new = Written(row, t.data)
    <2>1. InFlight(t) /\ t.op # "insert" /\ t.op # "announce"
      BY <1>4 DEF Writes
    <2>2. /\ new.status = IF "status" \in DOMAIN t.data THEN t.data.status ELSE row.status
          /\ new.isDeleted
               = IF "isDeleted" \in DOMAIN t.data THEN t.data.isDeleted ELSE row.isDeleted
      BY <1>4 DEF Written, Row
    <2>3. /\ Status[x] = row.status
          /\ Removed[x] = row.isDeleted
          /\ row.status \in Statuses
          /\ row.isDeleted \in BOOLEAN
      BY <1>4, NoRowIsNoRow DEF Status, Removed, Stored, Row
    <2>4. CASE Reviving(t)
      <3>1. PICK d \in Dates : t.data = Revived(t.user, row.branch, d)
        BY <1>4, <2>4 DEF Reviving
      <3>2. /\ new.status = "PENDING"
            /\ new.isDeleted \in BOOLEAN
            /\ ~new.isDeleted
        BY <1>4, <2>1, <2>2, <3>1, RevivedColumns DEF InFlight, Row
      <3>3. row.isDeleted
        BY <1>4, <2>4 DEF Reviving
      <3>4. Rules!Revive(x)
        BY <1>1, <1>2, <2>3, <3>2, <3>3 DEF Rules!Revive
      <3>. QED
        BY <3>4 DEF Rules!Next
    <2>5. CASE Editing(t)
      <3>1. /\ new.isDeleted = row.isDeleted
            /\ ~row.isDeleted
            /\ "status" \in DOMAIN t.data =>
                 t.data.status = "PENDING" /\ row.status = "REJECTED"
        BY <1>4, <2>2, <2>5 DEF Editing, Decision
      <3>2. CASE "status" \in DOMAIN t.data
        <4>1. Rules!Resubmit(x)
          BY <1>1, <1>2, <2>2, <2>3, <3>1, <3>2 DEF Rules!Resubmit
        <4>. QED
          BY <4>1 DEF Rules!Next
      <3>3. CASE "status" \notin DOMAIN t.data
        BY <1>1, <1>2, <2>2, <2>3, <3>1, <3>3
      <3>. QED
        BY <3>2, <3>3
    <2>6. CASE Deleting(t)
      <3>1. /\ new.isDeleted \in BOOLEAN /\ new.isDeleted
            /\ new.status = row.status
            /\ ~row.isDeleted
        BY <1>4, <2>2, <2>6 DEF Deleting
      <3>2. Rules!Remove(x)
        BY <1>1, <1>2, <2>3, <3>1 DEF Rules!Remove, Statuses
      <3>. QED
        BY <3>2 DEF Rules!Next
    <2>7. CASE Deciding(t)
      <3>1. PICK to \in {"APPROVED", "REJECTED"}, note \in BOOLEAN :
              t.data = Verdict(t.user, to, note)
        BY <2>7 DEF Deciding
      <3>2. /\ new.status = to
            /\ new.isDeleted = row.isDeleted
            /\ ~row.isDeleted
            /\ row.status # "APPROVED"
        BY <1>4, <2>1, <2>2, <2>7, <3>1, VerdictColumns DEF Deciding, InFlight
      <3>3. Rules!Decide(x)
        BY <1>1, <1>2, <2>3, <3>2 DEF Rules!Decide, Statuses
      <3>. QED
        BY <3>3 DEF Rules!Next
    <2>. QED
      BY <2>1, <2>4, <2>5, <2>6, <2>7 DEF InFlight, Creating
  <1>. QED
    BY <1>3, <1>4 DEF Writes

(* ... and one on an approved report is no manager's, a deletion of it a   *)
(* super admin's.                                                          *)
LEMMA FreshWriteOnApproved ==
  ASSUME ReportAssumption, Typed, NEW r \in Requests, NEW x \in Reports, NEW new \in Row,
         Writes(r, x, new), task[r].fresh, Status[x] = "APPROVED", ~Removed[x]
  PROVE  /\ task[r].user \notin Managers
         /\ new.isDeleted => task[r].user \in SuperAdmins
  <1>. DEFINE t == task[r]
              row == report[x]
  <1>1. /\ t.op = "update"
        /\ x = t.id
        /\ row \in Row
        /\ new = Written(row, t.data)
        /\ InFlight(t)
    BY DEF Writes, Status
  <1>2. /\ row.status = "APPROVED"
        /\ ~row.isDeleted
    BY <1>1, NoRowIsNoRow DEF Status, Removed, Stored
  <1>3. new.isDeleted
          = IF "isDeleted" \in DOMAIN t.data THEN t.data.isDeleted ELSE row.isDeleted
    BY <1>1 DEF Written, Row
  <1>4. CASE Reviving(t)
    BY <1>1, <1>2, <1>4 DEF Reviving
  <1>5. CASE Editing(t)
    BY <1>1, <1>2, <1>3, <1>5 DEF Editing, MayEdit, Decision
  <1>6. CASE Deleting(t)
    BY <1>1, <1>2, <1>6 DEF Deleting, ReportAssumption
  <1>7. CASE Deciding(t)
    BY <1>1, <1>2, <1>7 DEF Deciding
  <1>. QED
    BY <1>1, <1>4, <1>5, <1>6, <1>7 DEF InFlight, Creating

LEMMA UnracedStep ==
  ASSUME ReportAssumption, Typed, [Next]_vars, NEW r \in Requests,
         task[r].op # task'[r].op, task[r] # Idle, task[r].fresh
  PROVE  /\ [Rules!Next]_<<Status, Removed>>
         /\ \A x \in Reports :
              /\ report'[x] # report[x]
              /\ Status[x] = "APPROVED"
              /\ ~Removed[x]
              => /\ task[r].user \notin Managers
                 /\ report'[x].isDeleted => task[r].user \in SuperAdmins
  <1>1. CASE report' = report
    BY <1>1 DEF Status, Removed, Stored
  <1>2. CASE report' # report
    <2>1. PICK y \in Reports, new \in Row : Writes(r, y, new)
      BY <1>2, HandlerFrame
    <2>2. \A x \in Reports : report'[x] = IF x = y THEN new ELSE report[x]
      BY <2>1 DEF Writes, Typed
    <2>3. ASSUME Status[y] = "APPROVED", ~Removed[y]
          PROVE  /\ task[r].user \notin Managers
                 /\ new.isDeleted => task[r].user \in SuperAdmins
      BY <2>1, <2>3, FreshWriteOnApproved
    <2>4. [Rules!Next]_<<Status, Removed>>
      BY <2>1, FreshWriteFollowsTheRules
    <2>. QED
      BY <2>2, <2>3, <2>4
  <1>. QED
    BY <1>1, <1>2

(* A write that nothing overtook since its guard read keeps the approval   *)
(* workflow.                                                               *)
THEOREM UnracedWritesKeepTheRules == Spec => UnracedWritesFollowTheRules
  <1>1. Typed /\ [Next]_vars =>
          [\A r \in Requests :
             task[r].op # task'[r].op /\ task[r] # Idle /\ task[r].fresh =>
               /\ [Rules!Next]_<<Status, Removed>>
               /\ \A x \in Reports :
                    /\ report'[x] # report[x]
                    /\ Status[x] = "APPROVED"
                    /\ ~Removed[x]
                    => /\ task[r].user \notin Managers
                       /\ report'[x].isDeleted => task[r].user \in SuperAdmins]_vars
    <2>. SUFFICES ASSUME Typed, [Next]_vars
                  PROVE  \A r \in Requests :
             task[r].op # task'[r].op /\ task[r] # Idle /\ task[r].fresh =>
               /\ [Rules!Next]_<<Status, Removed>>
               /\ \A x \in Reports :
                    /\ report'[x] # report[x]
                    /\ Status[x] = "APPROVED"
                    /\ ~Removed[x]
                    => /\ task[r].user \notin Managers
                       /\ report'[x].isDeleted => task[r].user \in SuperAdmins
      OBVIOUS
    <2>. QED
      BY ReportAssumption, UnracedStep
  <1>. QED
    BY <1>1, AlwaysTyped, PTL DEF Spec, UnracedWritesFollowTheRules

=============================================================================
