----------------------------- MODULE GuestOffers -----------------------------
(***************************************************************************)
(* Guest discounts and entertainments (guest-offer.service.ts).            *)
(*                                                                         *)
(* As in ManagerReports every handler reads the log, applies its rules and *)
(* only then writes WHERE id; "Begin" actions are the guard reads and      *)
(* leave in task[r] the columns to write.  Nothing is fair.                *)
(***************************************************************************)
EXTENDS Integers

CONSTANTS
  Logs,         \* ids the two tables can hand out
  Users,        \* users who pass writeGuard
  Managers,     \* users whose role is BRANCH_MANAGER
  SuperAdmins,  \* users whose role is SUPER_ADMIN
  Approvers,    \* users who pass approveGuard
  Signers,      \* users with a signature image in their profile
  Home,         \* Home[m]: the branch of manager m
  Branches,
  Bills,        \* bills clients send, in hundredths
  Percents,     \* discounts clients send, in percent
  Costs,        \* food costs clients send, in hundredths
  Meals,        \* values clients send for hadLunch
  Requests,     \* slots for handlers in flight at the same time
  NULL

ASSUME OfferAssumption ==
  /\ Managers \subseteq Users
  /\ SuperAdmins \subseteq Approvers
  /\ Approvers \subseteq Users \ Managers
  /\ Home \in [Managers -> Branches]
  /\ Bills \cup Costs \subseteq Nat \ {0}
  /\ Percents \subseteq 1..100
  /\ Meals \subseteq BOOLEAN
  /\ NULL \notin Users \cup Nat

VARIABLES
  log,   \* log[x]: the row with id x of either table
  task   \* task[r]: the handler running in slot r

vars == <<log, task>>

NoRow == [kind |-> "none"]
Idle == [op |-> "idle"]

(* Columns of both tables; a discount has its bill besides, an             *)
(* entertainment its cost.                                                 *)
Shared ==
  [kind : {"discount", "entertainment"}, branch : Branches, hadLunch : BOOLEAN,
   approvalStatus : {"PENDING", "APPROVED", "REJECTED"}, isDeleted : BOOLEAN,
   approvedBy : Users \cup {NULL}, signature : Users \cup {NULL}]

Part(row, columns) == [c \in DOMAIN row \cap columns |-> row[c]]

TypeOK ==
  \A x \in Logs : log[x] # NoRow =>
    /\ Part(log[x], {"kind", "branch", "hadLunch", "approvalStatus", "isDeleted",
                     "approvedBy", "signature"}) \in Shared
    /\ log[x].kind = "discount" =>
         /\ log[x].totalBill \in Bills
         /\ log[x].discountPercent \in Percents
         /\ log[x].discountAmount \in Nat
    /\ log[x].kind = "entertainment" => log[x].foodCost \in Costs

Init ==
  /\ log = [x \in Logs |-> NoRow]
  /\ task = [r \in Requests |-> Idle]

-----------------------------------------------------------------------------

Live(x) == log[x] # NoRow /\ ~log[x].isDeleted

OwnBranch(u, b) == u \in Managers => b = Home[u]

(* Mutant: managers name any branch. *)
resolveAnyBranch(u, b) == TRUE

resolveBranchScope(u, b) == OwnBranch(u, b)

(* Mutant: the amount is cut to hundredths. *)
truncMoney(n) == n \div 100

(* Hundredths of n / 100, rounded half up. *)
roundMoney(n) == (n + 50) \div 100

Amount(bill, percent) == roundMoney(bill * percent)

Accept(r, op, u, x, data) ==
  /\ task[r] = Idle
  /\ task' = [task EXCEPT ![r] =
       [op |-> op, user |-> u, id |-> x, data |-> data, fresh |-> TRUE]]
  /\ UNCHANGED log

NewLog(kind, b, lunch) ==
  [kind |-> kind, branch |-> b, hadLunch |-> lunch, approvalStatus |-> "PENDING",
   isDeleted |-> FALSE, approvedBy |-> NULL, signature |-> NULL]

With(row, more) ==
  [c \in DOMAIN row \cup DOMAIN more |-> IF c \in DOMAIN more THEN more[c] ELSE row[c]]

CreateDiscountLog(r) ==
  \E u \in Users, b \in Branches, lunch \in Meals, bill \in Bills, p \in Percents :
    /\ resolveBranchScope(u, b)
    /\ Accept(r, "insert", u, NULL,
              With(NewLog("discount", b, lunch),
                   [totalBill |-> bill, discountPercent |-> p,
                    discountAmount |-> Amount(bill, p)]))

CreateEntertainmentLog(r) ==
  \E u \in Users, b \in Branches, lunch \in Meals, cost \in Costs :
    /\ resolveBranchScope(u, b)
    /\ Accept(r, "insert", u, NULL,
              With(NewLog("entertainment", b, lunch), [foodCost |-> cost]))

(* Mutant: a manager edits logs already decided. *)
MayEditDecided(u, x) == OwnBranch(u, log[x].branch)

MayEdit(u, x) ==
  u \in Managers =>
    log[x].branch = Home[u] /\ log[x].approvalStatus = "PENDING"

(* The columns of a request, NULL where it names none.  The partial schema *)
(* keeps the default of hadLunch, so an update that does not name it       *)
(* writes FALSE.                                                           *)
Named(values) == [c \in {k \in DOMAIN values : values[k] # NULL} |-> values[c]]

hadLunch(lunch) == [hadLunch |-> IF lunch = NULL THEN FALSE ELSE lunch]

(* Mutant: the amount is recomputed from the stored factors. *)
OldAmount(x, bill, p) == Amount(log[x].totalBill, log[x].discountPercent)

NewAmount(x, bill, p) ==
  Amount(IF bill = NULL THEN log[x].totalBill ELSE bill,
         IF p = NULL THEN log[x].discountPercent ELSE p)

(* The amount is always written, the factors only when the request names   *)
(* them: the other one is the one just read.                               *)
UpdateDiscountLog(r) ==
  \E u \in Users, x \in Logs, lunch \in Meals \cup {NULL},
     bill \in Bills \cup {NULL}, p \in Percents \cup {NULL} :
    /\ Live(x)
    /\ log[x].kind = "discount"
    /\ MayEdit(u, x)
    /\ Accept(r, "update", u, x,
              With(Named([totalBill |-> bill, discountPercent |-> p,
                          discountAmount |-> NewAmount(x, bill, p)]),
                   hadLunch(lunch)))

UpdateEntertainmentLog(r) ==
  \E u \in Users, x \in Logs, lunch \in Meals \cup {NULL}, cost \in Costs \cup {NULL} :
    /\ Live(x)
    /\ log[x].kind = "entertainment"
    /\ MayEdit(u, x)
    /\ Accept(r, "update", u, x, With(Named([foodCost |-> cost]), hadLunch(lunch)))

OpenToDecision(x) == Live(x) /\ log[x].approvalStatus # "APPROVED"

(* Mutant: the signature stays when an approval becomes a rejection. *)
SignedVerdict(u, to) ==
  [approvalStatus |-> to, approvedBy |-> u, signature |-> u]

Verdict(u, to) ==
  [approvalStatus |-> to, approvedBy |-> u,
   signature |-> IF to = "APPROVED" /\ u \in Signers THEN u ELSE NULL]

Decides(r, kind) ==
  \E u \in Approvers, x \in Logs, to \in {"APPROVED", "REJECTED"} :
    /\ OpenToDecision(x)
    /\ log[x].kind = kind
    /\ Accept(r, "update", u, x, Verdict(u, to))

SetDiscountLogApproval(r) == Decides(r, "discount")

(* The approver is read in a later call; profiles do not change here. *)
SetEntertainmentLogApproval(r) == Decides(r, "entertainment")

Removes(r, kind) ==
  \E u \in Users, x \in Logs :
    /\ Live(x)
    /\ log[x].kind = kind
    /\ OwnBranch(u, log[x].branch)
    /\ log[x].approvalStatus = "APPROVED" => u \in SuperAdmins
    /\ Accept(r, "update", u, x, [isDeleted |-> TRUE])

DeleteDiscountLog(r) == Removes(r, "discount")

DeleteEntertainmentLog(r) == Removes(r, "entertainment")

-----------------------------------------------------------------------------
(* The writes: WHERE id, whatever has become of the log. *)

Store(r, x, row) ==
  /\ log' = [log EXCEPT ![x] = row]
  /\ task' = [q \in Requests |->
       IF q = r THEN Idle
       ELSE IF task[q] # Idle /\ task[q].id = x
            THEN [task[q] EXCEPT !.fresh = FALSE]
            ELSE task[q]]

InsertLog(r) ==
  /\ task[r].op = "insert"
  /\ \E x \in Logs : log[x] = NoRow /\ Store(r, x, task[r].data)

UpdateLog(r) ==
  /\ task[r].op = "update"
  /\ Store(r, task[r].id, With(log[task[r].id], task[r].data))

Next ==
  \E r \in Requests :
    \/ CreateDiscountLog(r)
    \/ CreateEntertainmentLog(r)
    \/ UpdateDiscountLog(r)
    \/ UpdateEntertainmentLog(r)
    \/ SetDiscountLogApproval(r)
    \/ SetEntertainmentLogApproval(r)
    \/ DeleteDiscountLog(r)
    \/ DeleteEntertainmentLog(r)
    \/ InsertLog(r)
    \/ UpdateLog(r)

Spec == Init /\ [][Next]_vars

-----------------------------------------------------------------------------

(* Status, decider and signature agree whatever writes raced, and stay so  *)
(* when the log is edited or deleted.                                      *)
DecisionsAreSigned ==
  \A x \in Logs : log[x] # NoRow =>
    /\ (log[x].approvedBy = NULL) = (log[x].approvalStatus = "PENDING")
    /\ log[x].signature =
         IF log[x].approvalStatus = "APPROVED" /\ log[x].approvedBy \in Signers
         THEN log[x].approvedBy
         ELSE NULL

(* Whatever a manager's request writes, first or last in a race, is a log  *)
(* of the manager's branch, and no write moves a log to another branch.    *)
ManagersKeepToTheirBranch ==
  [][\A r \in Requests, x \in Logs :
       /\ task[r] # Idle
       /\ task'[r] = Idle
       /\ log'[x] # log[x]
       => /\ OwnBranch(task[r].user, log'[x].branch)
          /\ log[x] # NoRow => log'[x].branch = log[x].branch]_vars

(* updateDiscountLog recomputes the amount from the request and an earlier *)
(* read but writes only the factors it was given: an edit that nothing     *)
(* overtook leaves the amount right, even when it was wrong before.        *)
UnracedEditsMendTheAmount ==
  [][\A r \in Requests, x \in Logs :
       /\ task[r] # Idle
       /\ task'[r] = Idle
       /\ task[r].fresh
       /\ "discountAmount" \in DOMAIN task[r].data
       /\ log'[x] # log[x]
       => log'[x].discountAmount =
            Amount(log'[x].totalBill, log'[x].discountPercent)]_vars

(* The amount of a discount is always bill times percent.  It is not when  *)
(* two edits race: one writes the bill, the other the percent and an       *)
(* amount made from the bill it read before.                               *)
AmountIsTheProduct ==
  \A x \in Logs : log[x].kind = "discount" =>
    log[x].discountAmount = Amount(log[x].totalBill, log[x].discountPercent)

(* A log says the guest had lunch as some client said it.  It does not: an *)
(* update that leaves the meal out clears it.                              *)
MealsAreAsSent ==
  \A x \in Logs : log[x] # NoRow => log[x].hadLunch \in Meals

Status == [x \in Logs |-> IF log[x] = NoRow THEN "NONE" ELSE log[x].approvalStatus]
Removed == [x \in Logs |-> log[x] # NoRow /\ log[x].isDeleted]

Rules == INSTANCE ApprovalRules
  WITH Records <- Logs, Renewable <- FALSE, status <- Status, removed <- Removed

(* A write that nothing overtook since its guard read keeps the approval   *)
(* workflow: only pending logs are edited by managers, and an approved log *)
(* is deleted by a super admin only.                                       *)
UnracedWritesFollowTheRules ==
  [][\A r \in Requests :
       task[r] # Idle /\ task'[r] = Idle /\ task[r].fresh =>
         /\ [Rules!Next]_<<Status, Removed>>
         /\ \A x \in Logs :
              log[x] # NoRow /\ log'[x] # log[x] =>
                /\ ~Removed[x]
                /\ task[r].user \in Managers => Status[x] # "APPROVED"
                /\ task[r].user \in Managers /\ ~log'[x].isDeleted =>
                     Status[x] = "PENDING"
                /\ Status[x] = "APPROVED" /\ log'[x].isDeleted =>
                     task[r].user \in SuperAdmins]_vars

=============================================================================
