--------------------------- MODULE ManagerReports ---------------------------
(***************************************************************************)
(* Daily manager reports (manager-report.service.ts).                      *)
(*                                                                         *)
(* Every handler reads the report, applies its rules and only then writes  *)
(* WHERE id.  "Begin" actions are the guard reads; they leave in task[r]   *)
(* the columns the handler is going to write.  Nothing is fair: a request  *)
(* that dies is one that takes no further step.                            *)
(***************************************************************************)
EXTENDS Integers, FiniteSets

CONSTANTS
  Reports,      \* report ids the table can hand out
  Users,
  Managers,     \* users whose role is BRANCH_MANAGER
  SuperAdmins,  \* users whose role is SUPER_ADMIN
  Approvers,    \* users who pass approveGuard
  Signers,      \* users with a signature image in their profile
  Home,         \* Home[m]: the branch of manager m
  Branches,
  Dates,        \* report dates clients send
  Notes,        \* whether a rejection comes with a comment
  Requests,     \* slots for handlers in flight at the same time
  NULL

ASSUME ReportAssumption ==
  /\ Managers \subseteq Users
  /\ SuperAdmins \subseteq Approvers
  /\ Approvers \subseteq Users \ Managers
  /\ Home \in [Managers -> Branches]
  /\ Notes \subseteq BOOLEAN
  /\ NULL \notin Users

VARIABLES
  report,    \* report[x]: the row of manager_reports with id x
  comments,  \* rows of manager_report_comments: <<report, author>>
  task       \* task[r]: the handler running in slot r

vars == <<report, comments, task>>

Statuses == {"PENDING", "APPROVED", "REJECTED"}

NoRow == [id |-> NULL]

Row ==
  [branch : Branches, date : Dates, status : Statuses, isDeleted : BOOLEAN,
   approvedBy : Users \cup {NULL}, comment : BOOLEAN, signature : Users \cup {NULL}]

Idle == [op |-> "idle"]

TypeOK ==
  /\ report \in [Reports -> Row \cup {NoRow}]
  /\ comments \subseteq Reports \X Approvers
  /\ \A r \in Requests : task[r] # Idle =>
       /\ task[r].op \in {"insert", "check", "update", "announce"}
       /\ task[r].user \in Users
       /\ task[r].id \in Reports \cup {NULL}

Init ==
  /\ report = [x \in Reports |-> NoRow]
  /\ comments = {}
  /\ task = [r \in Requests |-> Idle]

-----------------------------------------------------------------------------

Stored(x) == report[x] # NoRow
Live(x) == Stored(x) /\ ~report[x].isDeleted

At(b, d) == {x \in Reports : Stored(x) /\ report[x].branch = b /\ report[x].date = d}

OwnBranch(u, b) == u \in Managers => b = Home[u]

(* data: the columns the handler will write; submits: it then announces a  *)
(* submission; fresh: no other write has reached the report since.         *)
Accept(r, op, u, x, data, submits) ==
  /\ task[r] = Idle
  /\ task' = [task EXCEPT ![r] =
       [op |-> op, user |-> u, id |-> x, data |-> data, submits |-> submits,
        fresh |-> TRUE]]
  /\ UNCHANGED <<report, comments>>

Answer(r) == task' = [task EXCEPT ![r] = Idle]

(* createReport: reads the report of the day, which must be deleted or     *)
(* missing; the deleted one is revived, with its comment and signature.    *)
NewReport(u, b, d) ==
  [branch |-> b, date |-> d, status |-> "PENDING", approvedBy |-> NULL,
   comment |-> FALSE, signature |-> NULL, isDeleted |-> FALSE]

(* Mutant: the revived report keeps the decider of the deleted one. *)
RevivedAsIs(u, b, d) ==
  [c \in {"branch", "date", "status", "isDeleted"} |-> NewReport(u, b, d)[c]]

Revived(u, b, d) ==
  [c \in {"branch", "date", "status", "approvedBy", "isDeleted"} |->
     NewReport(u, b, d)[c]]

(* Mutant: managers name any branch. *)
resolveAnyBranch(u, b) == TRUE

resolveBranchId(u, b) == OwnBranch(u, b)

BeginCreate(r) ==
  \E u \in Users, b \in Branches, d \in Dates :
    /\ resolveBranchId(u, b)
    /\ \A x \in At(b, d) : ~Live(x)
    /\ \/ /\ At(b, d) = {}
          /\ Accept(r, "insert", u, NULL, NewReport(u, b, d), u \in Managers)
       \/ \E x \in At(b, d) :
            Accept(r, "update", u, x, Revived(u, b, d), u \in Managers)

(* updateReport: a manager edits reports of the own branch that are not    *)
(* approved, and thereby resubmits a rejected one.                         *)
MayEdit(u, x) ==
  u \in Managers => report[x].branch = Home[u] /\ report[x].status # "APPROVED"

Resubmits(u, x) == u \in Managers /\ report[x].status = "REJECTED"

(* Mutant: an edit writes back the whole row it has read. *)
EditsWholeRow(u, x, d) ==
  [report[x] EXCEPT !.date = IF d = NULL THEN @ ELSE d,
                    !.status = IF Resubmits(u, x) THEN "PENDING" ELSE @,
                    !.approvedBy = IF Resubmits(u, x) THEN NULL ELSE @,
                    !.comment = @ /\ ~Resubmits(u, x)]

Edits(u, x, d) ==
  [c \in (IF d = NULL THEN {} ELSE {"date"}) \cup
         (IF Resubmits(u, x) THEN {"status", "approvedBy", "comment"} ELSE {}) |->
     CASE c = "date"    -> d
       [] c = "status"  -> "PENDING"
       [] c = "comment" -> FALSE
       [] OTHER         -> NULL]

BeginUpdate(r) ==
  \E u \in Users, x \in Reports, d \in Dates \cup {NULL} :
    /\ Live(x)
    /\ MayEdit(u, x)
    /\ Accept(r, IF d \in {NULL, report[x].date} THEN "update" ELSE "check",
              u, x, Edits(u, x, d), Resubmits(u, x))

(* The day the report moves to must have no report, not even a deleted one. *)
CheckDate(r) ==
  LET t == task[r]
  IN  /\ t.op = "check"
      /\ \/ /\ At(report[t.id].branch, t.data.date) \subseteq {t.id}
            /\ task' = [task EXCEPT ![r].op = "update"]
         \/ /\ ~(At(report[t.id].branch, t.data.date) \subseteq {t.id})
            /\ Answer(r)
      /\ UNCHANGED <<report, comments>>

(* deleteReport *)
BeginDelete(r) ==
  \E u \in Users, x \in Reports :
    /\ Live(x)
    /\ OwnBranch(u, report[x].branch)
    /\ report[x].status = "APPROVED" => u \in SuperAdmins
    /\ Accept(r, "update", u, x, [isDeleted |-> TRUE], FALSE)

(* Mutant: a decision can be made on an approved report. *)
OpenToAll(x) == Live(x)

OpenToDecision(x) == Live(x) /\ report[x].status # "APPROVED"

(* setReportApproval *)
Verdict(u, to, note) ==
  [status |-> to, approvedBy |-> u, comment |-> to = "REJECTED" /\ note,
   signature |-> IF to = "APPROVED" /\ u \in Signers THEN u ELSE NULL]

BeginApproval(r) ==
  \E u \in Approvers, x \in Reports, to \in {"APPROVED", "REJECTED"},
     note \in Notes :
    /\ OpenToDecision(x)
    /\ Accept(r, "update", u, x, Verdict(u, to, note), FALSE)

-----------------------------------------------------------------------------
(* The writes.  The unique index covers deleted rows too. *)

DuplicateKey(x, new) == At(new.branch, new.date) \ {x} # {}

Written(row, data) ==
  [c \in DOMAIN row |-> IF c \in DOMAIN data THEN data[c] ELSE row[c]]

(* The write lands; a submission by a manager is announced next. *)
Store(r, x, new) ==
  /\ ~DuplicateKey(x, new)
  /\ report' = [report EXCEPT ![x] = new]
  /\ task' = [q \in Requests |->
       IF q = r
       THEN IF task[r].submits THEN [task[r] EXCEPT !.op = "announce"] ELSE Idle
       ELSE IF task[q] # Idle /\ task[q].id = x
            THEN [task[q] EXCEPT !.fresh = FALSE]
            ELSE task[q]]
  /\ UNCHANGED comments

InsertReport(r) ==
  /\ task[r].op = "insert"
  /\ \E x \in Reports : ~Stored(x) /\ Store(r, x, task[r].data)

UpdateReport(r) ==
  /\ task[r].op = "update"
  /\ Store(r, task[r].id, Written(report[task[r].id], task[r].data))

FailOnDuplicate(r) ==
  LET t == task[r]
  IN  /\ \/ t.op = "insert" /\ DuplicateKey(NULL, t.data)
         \/ t.op = "update" /\ DuplicateKey(t.id, Written(report[t.id], t.data))
      /\ Answer(r)
      /\ UNCHANGED <<report, comments>>

(* addReportComment: the report was live when its guard read it, which any *)
(* stored report once was; by now it may be deleted.                       *)
AddComment(x) ==
  /\ Stored(x)
  /\ \E u \in Approvers : comments' = comments \cup {<<x, u>>}
  /\ UNCHANGED <<report, task>>

(* createSubmissionNotification: its row is of another table. *)
Announce(r) ==
  /\ task[r].op = "announce"
  /\ Answer(r)
  /\ UNCHANGED <<report, comments>>

Begin(r) ==
  \/ BeginCreate(r)
  \/ BeginUpdate(r)
  \/ BeginDelete(r)
  \/ BeginApproval(r)

Continue(r) ==
  \/ InsertReport(r)
  \/ CheckDate(r)
  \/ UpdateReport(r)
  \/ FailOnDuplicate(r)
  \/ Announce(r)

Next ==
  \/ \E r \in Requests : Begin(r) \/ Continue(r)
  \/ \E x \in Reports : AddComment(x)

Spec == Init /\ [][Next]_vars

-----------------------------------------------------------------------------

(* Status, decider and signature agree whatever writes raced: a decided    *)
(* report names its decider, a pending one nobody, and an approved one     *)
(* bears the signature of the user it names.                               *)
DecisionsAreSigned ==
  \A x \in Reports : Stored(x) =>
    /\ (report[x].approvedBy = NULL) = (report[x].status = "PENDING")
    /\ report[x].status = "APPROVED" =>
         /\ report[x].signature \in {report[x].approvedBy, NULL}
         /\ (report[x].signature = NULL) = (report[x].approvedBy \notin Signers)
         /\ ~report[x].comment
    /\ report[x].status = "REJECTED" => report[x].signature = NULL

(* Whatever a manager's request writes, first or last in a race, is a      *)
(* report of the manager's branch, before and after.                       *)
ManagersKeepToTheirBranch ==
  [][\A r \in Requests, x \in Reports :
       /\ task[r].op # task'[r].op
       /\ task[r] # Idle
       /\ task[r].user \in Managers
       /\ report'[x] # report[x]
       => /\ report'[x].branch = Home[task[r].user]
          /\ Stored(x) => report[x].branch = report'[x].branch]_vars

Status == [x \in Reports |-> IF Stored(x) THEN report[x].status ELSE "NONE"]
Removed == [x \in Reports |-> Stored(x) /\ report[x].isDeleted]

(* A handler that read a report before its deletion and writes after it    *)
(* never brings it back: a deleted report returns only as the submission   *)
(* of a creation, pending and decided by nobody, for the branch it was of; *)
(* and a manager's, once it is back, is announced next.                    *)
OnlyCreationRevives ==
  [][\A x \in Reports : Removed[x] /\ ~Removed'[x] =>
       /\ report'[x].status = "PENDING"
       /\ report'[x].approvedBy = NULL
       /\ report'[x].branch = report[x].branch
       /\ \E r \in Requests :
            /\ task[r].op = "update"
            /\ task[r].id = x
            /\ task[r].data = Revived(task[r].user, report[x].branch, report'[x].date)
            /\ task'[r].op = IF task[r].user \in Managers THEN "announce" ELSE "idle"]_vars

Rules == INSTANCE ApprovalRules
  WITH Records <- Reports, Renewable <- TRUE, status <- Status, removed <- Removed

(* A write that nothing overtook since its guard read keeps the approval   *)
(* workflow; an approved report is then edited by no manager and deleted   *)
(* by a super admin only.                                                  *)
UnracedWritesFollowTheRules ==
  [][\A r \in Requests :
       task[r].op # task'[r].op /\ task[r] # Idle /\ task[r].fresh =>
         /\ [Rules!Next]_<<Status, Removed>>
         /\ \A x \in Reports :
              /\ report'[x] # report[x]
              /\ Status[x] = "APPROVED"
              /\ ~Removed[x]
              => /\ task[r].user \notin Managers
                 /\ report'[x].isDeleted => task[r].user \in SuperAdmins]_vars

=============================================================================
