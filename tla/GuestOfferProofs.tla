-------------------------- MODULE GuestOfferProofs --------------------------
(***************************************************************************)
(* Theorems about GuestOffers, for every value of its constants.           *)
(*                                                                         *)
(* As in ManagerReportProofs the invariant is about handlers in flight:    *)
(* what each kind is going to write, and what of its guard still holds as  *)
(* long as no other write has come between (fresh).  It adds the money: an *)
(* edit that nothing has overtaken holds an amount that is right for the   *)
(* factors the log will have.                                              *)
(***************************************************************************)
EXTENDS GuestOffers, TLAPS

TaskFields == {"op", "user", "id", "data", "fresh"}

Fixed == {"kind", "branch"}
Decision == {"approvalStatus", "approvedBy", "signature"}
Money == {"totalBill", "discountPercent", "discountAmount"}

Columns(kind) ==
  Fixed \cup Decision \cup {"hadLunch", "isDeleted"} \cup
  (IF kind = "discount" THEN Money ELSE {"foodCost"})

(* The columns a record has are of their types. *)
Valued(data) ==
  /\ "kind" \in DOMAIN data => data.kind \in {"discount", "entertainment"}
  /\ "branch" \in DOMAIN data => data.branch \in Branches
  /\ "hadLunch" \in DOMAIN data => data.hadLunch \in BOOLEAN
  /\ "isDeleted" \in DOMAIN data => data.isDeleted \in BOOLEAN
  /\ "approvalStatus" \in DOMAIN data =>
       data.approvalStatus \in {"PENDING", "APPROVED", "REJECTED"}
  /\ "approvedBy" \in DOMAIN data => data.approvedBy \in Users \cup {NULL}
  /\ "signature" \in DOMAIN data => data.signature \in Users \cup {NULL}
  /\ "totalBill" \in DOMAIN data => data.totalBill \in Bills
  /\ "discountPercent" \in DOMAIN data => data.discountPercent \in Percents
  /\ "discountAmount" \in DOMAIN data => data.discountAmount \in Nat
  /\ "foodCost" \in DOMAIN data => data.foodCost \in Costs

OfferRow(row) == DOMAIN row = Columns(row.kind) /\ Valued(row)

(* A handler that will write columns of a stored log. *)
Holds(t) ==
  /\ t.id \in Logs
  /\ log[t.id] # NoRow
  /\ OwnBranch(t.user, log[t.id].branch)

(* The amount in data is the product of the factors the log will have. *)
Mends(data, row) ==
  data.discountAmount =
    Amount(IF "totalBill" \in DOMAIN data THEN data.totalBill ELSE row.totalBill,
           IF "discountPercent" \in DOMAIN data
           THEN data.discountPercent ELSE row.discountPercent)

Creating(t) ==
  /\ t.op = "insert"
  /\ OfferRow(t.data)
  /\ OwnBranch(t.user, t.data.branch)
  /\ t.data.approvalStatus = "PENDING"
  /\ t.data.approvedBy = NULL
  /\ t.data.signature = NULL
  /\ ~t.data.isDeleted
  /\ t.data.kind = "discount" => Mends(t.data, t.data)

Editing(t) ==
  /\ t.op = "update"
  /\ Holds(t)
  /\ Valued(t.data)
  /\ DOMAIN t.data \subseteq Columns(log[t.id].kind) \cap (Money \cup {"hadLunch", "foodCost"})
  /\ t.fresh =>
       /\ ~log[t.id].isDeleted
       /\ MayEdit(t.user, t.id)
       /\ "discountAmount" \in DOMAIN t.data => Mends(t.data, log[t.id])

Deciding(t) ==
  /\ t.op = "update"
  /\ Holds(t)
  /\ t.user \in Approvers
  /\ \E to \in {"APPROVED", "REJECTED"} : t.data = Verdict(t.user, to)
  /\ t.fresh => ~log[t.id].isDeleted /\ log[t.id].approvalStatus # "APPROVED"

Deleting(t) ==
  /\ t.op = "update"
  /\ Holds(t)
  /\ t.data = [isDeleted |-> TRUE]
  /\ t.fresh => /\ ~log[t.id].isDeleted
                /\ log[t.id].approvalStatus = "APPROVED" => t.user \in SuperAdmins

InFlight(t) ==
  /\ DOMAIN t = TaskFields
  /\ t.user \in Users
  /\ t.id \in Logs \cup {NULL}
  /\ Creating(t) \/ Editing(t) \/ Deciding(t) \/ Deleting(t)

(* The inductive form of the type invariant. *)
Typed ==
  /\ DOMAIN log = Logs
  /\ \A x \in Logs : log[x] # NoRow => OfferRow(log[x])
  /\ DOMAIN task = Requests
  /\ \A r \in Requests : task[r] # Idle => InFlight(task[r])

-----------------------------------------------------------------------------
(* Records and money. *)

LEMMA OfferRowIsARow ==
  ASSUME NEW row, OfferRow(row)
  PROVE  row # NoRow
  BY DEF OfferRow, Columns, Fixed, NoRow

LEMMA AmountIsNat ==
  ASSUME OfferAssumption, NEW bill \in Bills, NEW percent \in Percents
  PROVE  Amount(bill, percent) \in Nat
  <1>1. bill \in Nat /\ percent \in Nat
    BY DEF OfferAssumption
  <1>2. bill * percent \in Nat
    BY <1>1
  <1>. QED
    BY <1>2 DEF Amount, roundMoney

(* A write of some columns leaves a row, of the same kind and branch. *)
LEMMA WithIsARow ==
  ASSUME NEW row, OfferRow(row), NEW data, Valued(data),
         DOMAIN data \subseteq Columns(row.kind) \ Fixed
  PROVE  /\ OfferRow(With(row, data))
         /\ With(row, data).kind = row.kind
         /\ With(row, data).branch = row.branch
  <1>. DEFINE new == With(row, data)
  <1>1. DOMAIN new = DOMAIN row
    BY DEF With, OfferRow
  <1>2. \A c \in DOMAIN new : new[c] = IF c \in DOMAIN data THEN data[c] ELSE row[c]
    BY DEF With
  <1>. HIDE DEF new
  <1>3. "kind" \in DOMAIN new /\ "branch" \in DOMAIN new
    BY <1>1 DEF OfferRow, Columns, Fixed
  <1>4. "kind" \notin DOMAIN data /\ "branch" \notin DOMAIN data
    BY DEF Fixed
  <1>5. new.kind = row.kind /\ new.branch = row.branch
    BY <1>2, <1>3, <1>4
  <1>6. Valued(new)
    BY <1>1, <1>2 DEF OfferRow, Valued
  <1>. QED
    BY <1>1, <1>5, <1>6 DEF OfferRow, new

LEMMA VerdictColumns ==
  ASSUME NEW u \in Users, NEW to \in {"APPROVED", "REJECTED"}
  PROVE  /\ DOMAIN Verdict(u, to) = Decision
         /\ Verdict(u, to).approvalStatus = to
         /\ Verdict(u, to).approvedBy = u
         /\ Verdict(u, to).signature
              = IF to = "APPROVED" /\ u \in Signers THEN u ELSE NULL
  BY DEF Verdict, Decision

LEMMA NewDiscount ==
  ASSUME OfferAssumption, NEW b \in Branches, NEW lunch \in Meals,
         NEW bill \in Bills, NEW p \in Percents, NEW row,
         row = With(NewLog("discount", b, lunch),
                    [totalBill |-> bill, discountPercent |-> p,
                     discountAmount |-> Amount(bill, p)])
  PROVE  /\ OfferRow(row)
         /\ row.branch = b
         /\ row.approvalStatus = "PENDING"
         /\ row.approvedBy = NULL
         /\ row.signature = NULL
         /\ ~row.isDeleted
         /\ Mends(row, row)
  <1>1. Amount(bill, p) \in Nat /\ lunch \in BOOLEAN
    BY AmountIsNat DEF OfferAssumption
  <1>2. /\ DOMAIN row = Columns("discount")
        /\ row.kind = "discount"
        /\ row.branch = b
        /\ row.hadLunch = lunch
        /\ row.approvalStatus = "PENDING"
        /\ row.isDeleted \in BOOLEAN
        /\ ~row.isDeleted
        /\ row.approvedBy = NULL
        /\ row.signature = NULL
        /\ row.totalBill = bill
        /\ row.discountPercent = p
        /\ row.discountAmount = Amount(bill, p)
    BY DEF With, NewLog, Columns, Fixed, Decision, Money
  <1>3. Mends(row, row)
    BY <1>2 DEF Mends
  <1>. QED
    BY <1>1, <1>2, <1>3 DEF OfferRow, Valued, Columns, Fixed, Decision, Money

LEMMA NewEntertainment ==
  ASSUME OfferAssumption, NEW b \in Branches, NEW lunch \in Meals,
         NEW cost \in Costs, NEW row,
         row = With(NewLog("entertainment", b, lunch), [foodCost |-> cost])
  PROVE  /\ OfferRow(row)
         /\ row.kind = "entertainment"
         /\ row.branch = b
         /\ row.approvalStatus = "PENDING"
         /\ row.approvedBy = NULL
         /\ row.signature = NULL
         /\ ~row.isDeleted
  <1>1. lunch \in BOOLEAN
    BY DEF OfferAssumption
  <1>2. /\ DOMAIN row = Columns("entertainment")
        /\ row.kind = "entertainment"
        /\ row.branch = b
        /\ row.hadLunch = lunch
        /\ row.approvalStatus = "PENDING"
        /\ row.isDeleted \in BOOLEAN
        /\ ~row.isDeleted
        /\ row.approvedBy = NULL
        /\ row.signature = NULL
        /\ row.foodCost = cost
    BY DEF With, NewLog, Columns, Fixed, Decision
  <1>. QED
    BY <1>1, <1>2 DEF OfferRow, Valued, Columns, Fixed, Decision

-----------------------------------------------------------------------------
(* Every step keeps Typed: first the handlers that begin. *)

LEMMA AcceptTyped ==
  ASSUME Typed, NEW r \in Requests, NEW op, NEW u \in Users,
         NEW x \in Logs \cup {NULL}, NEW data, Accept(r, op, u, x, data),
         \/ Creating(task'[r]) \/ Editing(task'[r])
         \/ Deciding(task'[r]) \/ Deleting(task'[r])
  PROVE  Typed'
  <1>1. /\ UNCHANGED log
        /\ DOMAIN task' = Requests
        /\ \A q \in Requests \ {r} : task'[q] = task[q]
        /\ task'[r] = [op |-> op, user |-> u, id |-> x, data |-> data, fresh |-> TRUE]
    BY DEF Accept, Typed
  <1>2. ASSUME NEW q \in Requests, q # r, task'[q] # Idle
        PROVE  InFlight(task[q])'
    BY <1>1, <1>2 DEF Typed, InFlight, Creating, Editing, Deciding, Deleting,
       Holds, MayEdit
  <1>3. /\ DOMAIN task'[r] = TaskFields
        /\ task'[r].user = u
        /\ task'[r].id = x
    BY <1>1 DEF TaskFields
  <1>4. Creating(task[r])' \/ Editing(task[r])' \/ Deciding(task[r])' \/ Deleting(task[r])'
    BY <1>1 DEF Creating, Editing, Deciding, Deleting, Holds, MayEdit
  <1>5. InFlight(task[r])'
    BY <1>3, <1>4 DEF InFlight
  <1>. QED
    BY <1>1, <1>2, <1>5 DEF Typed

LEMMA CreateDiscountTyped ==
  ASSUME OfferAssumption, Typed, NEW r \in Requests, CreateDiscountLog(r)
  PROVE  Typed'
  <1>1. PICK u \in Users, b \in Branches, lunch \in Meals, bill \in Bills, p \in Percents :
          /\ resolveBranchScope(u, b)
          /\ Accept(r, "insert", u, NULL,
                    With(NewLog("discount", b, lunch),
                         [totalBill |-> bill, discountPercent |-> p,
                          discountAmount |-> Amount(bill, p)]))
    BY DEF CreateDiscountLog
  <1>. DEFINE row == With(NewLog("discount", b, lunch),
                          [totalBill |-> bill, discountPercent |-> p,
                           discountAmount |-> Amount(bill, p)])
  <1>2. /\ OfferRow(row)
        /\ row.branch = b
        /\ row.approvalStatus = "PENDING"
        /\ row.approvedBy = NULL
        /\ row.signature = NULL
        /\ ~row.isDeleted
        /\ Mends(row, row)
    BY NewDiscount
  <1>. HIDE DEF row
  <1>3. task'[r] = [op |-> "insert", user |-> u, id |-> NULL, data |-> row, fresh |-> TRUE]
    BY <1>1 DEF Accept, Typed, row
  <1>4. Creating(task'[r])
    BY <1>1, <1>2, <1>3 DEF Creating, resolveBranchScope
  <1>. QED
    BY <1>1, <1>4, AcceptTyped DEF row

LEMMA CreateEntertainmentTyped ==
  ASSUME OfferAssumption, Typed, NEW r \in Requests, CreateEntertainmentLog(r)
  PROVE  Typed'
  <1>1. PICK u \in Users, b \in Branches, lunch \in Meals, cost \in Costs :
          /\ resolveBranchScope(u, b)
          /\ Accept(r, "insert", u, NULL,
                    With(NewLog("entertainment", b, lunch), [foodCost |-> cost]))
    BY DEF CreateEntertainmentLog
  <1>. DEFINE row == With(NewLog("entertainment", b, lunch), [foodCost |-> cost])
  <1>2. /\ OfferRow(row)
        /\ row.kind = "entertainment"
        /\ row.branch = b
        /\ row.approvalStatus = "PENDING"
        /\ row.approvedBy = NULL
        /\ row.signature = NULL
        /\ ~row.isDeleted
    BY NewEntertainment
  <1>. HIDE DEF row
  <1>3. task'[r] = [op |-> "insert", user |-> u, id |-> NULL, data |-> row, fresh |-> TRUE]
    BY <1>1 DEF Accept, Typed, row
  <1>4. Creating(task'[r])
    BY <1>1, <1>2, <1>3 DEF Creating, resolveBranchScope
  <1>. QED
    BY <1>1, <1>4, AcceptTyped DEF row

(* The columns an edit of a discount writes. *)
LEMMA DiscountEdit ==
  ASSUME OfferAssumption, NEW x \in Logs, OfferRow(log[x]), log[x].kind = "discount",
         NEW lunch \in Meals \cup {NULL}, NEW bill \in Bills \cup {NULL},
         NEW p \in Percents \cup {NULL}, NEW data,
         data = With(Named([totalBill |-> bill, discountPercent |-> p,
                            discountAmount |-> NewAmount(x, bill, p)]),
                     hadLunch(lunch))
  PROVE  /\ Valued(data)
         /\ DOMAIN data \subseteq Money \cup {"hadLunch"}
         /\ Mends(data, log[x])
  <1>1. /\ Bills \subseteq Nat
        /\ Percents \subseteq Nat
        /\ NULL \notin Nat
        /\ \A m \in Meals : m \in BOOLEAN
    BY DEF OfferAssumption
  <1>2. log[x].totalBill \in Bills /\ log[x].discountPercent \in Percents
    BY DEF OfferRow, Valued, Columns, Money
  <1>. DEFINE factor == IF bill = NULL THEN log[x].totalBill ELSE bill
              percent == IF p = NULL THEN log[x].discountPercent ELSE p
  <1>3. NewAmount(x, bill, p) = Amount(factor, percent)
    BY DEF NewAmount
  <1>4. NewAmount(x, bill, p) \in Nat
    BY <1>2, <1>3, AmountIsNat
  <1>5. /\ DOMAIN data = {"discountAmount", "hadLunch"}
                         \cup (IF bill = NULL THEN {} ELSE {"totalBill"})
                         \cup (IF p = NULL THEN {} ELSE {"discountPercent"})
        /\ bill # NULL => data.totalBill = bill
        /\ p # NULL => data.discountPercent = p
        /\ data.discountAmount = NewAmount(x, bill, p)
        /\ data.hadLunch = IF lunch = NULL THEN FALSE ELSE lunch
    <2>. DEFINE amount == NewAmount(x, bill, p)
                values == [totalBill |-> bill, discountPercent |-> p,
                           discountAmount |-> amount]
    <2>1. amount # NULL
      BY <1>1, <1>4
    <2>. HIDE DEF amount
    <2>2. /\ DOMAIN Named(values) = {"discountAmount"}
                         \cup (IF bill = NULL THEN {} ELSE {"totalBill"})
                         \cup (IF p = NULL THEN {} ELSE {"discountPercent"})
          /\ \A c \in DOMAIN Named(values) : Named(values)[c] = values[c]
      BY <2>1 DEF Named
    <2>3. /\ DOMAIN hadLunch(lunch) = {"hadLunch"}
          /\ hadLunch(lunch).hadLunch = IF lunch = NULL THEN FALSE ELSE lunch
      BY DEF hadLunch
    <2>. HIDE DEF values
    <2>4. /\ DOMAIN data = DOMAIN Named(values) \cup {"hadLunch"}
          /\ data.hadLunch = IF lunch = NULL THEN FALSE ELSE lunch
          /\ \A c \in DOMAIN Named(values) : c # "hadLunch" => data[c] = Named(values)[c]
      BY <2>3 DEF With, values, amount
    <2>. QED
      BY <2>2, <2>4 DEF values, amount
  <1>. QED
    BY <1>1, <1>2, <1>3, <1>4, <1>5 DEF Valued, Money, Mends

LEMMA EntertainmentEdit ==
  ASSUME OfferAssumption, NEW lunch \in Meals \cup {NULL}, NEW cost \in Costs \cup {NULL},
         NEW data, data = With(Named([foodCost |-> cost]), hadLunch(lunch))
  PROVE  /\ Valued(data)
         /\ DOMAIN data \subseteq {"foodCost", "hadLunch"}
  <1>1. /\ DOMAIN Named([foodCost |-> cost]) = IF cost = NULL THEN {} ELSE {"foodCost"}
        /\ cost # NULL => Named([foodCost |-> cost]).foodCost = cost
    BY DEF Named
  <1>2. /\ DOMAIN hadLunch(lunch) = {"hadLunch"}
        /\ hadLunch(lunch).hadLunch \in BOOLEAN
    BY DEF hadLunch, OfferAssumption
  <1>3. /\ DOMAIN data \subseteq {"foodCost", "hadLunch"}
        /\ data.hadLunch \in BOOLEAN
        /\ "foodCost" \in DOMAIN data => data.foodCost = cost /\ cost # NULL
    BY <1>1, <1>2 DEF With
  <1>. QED
    BY <1>3 DEF Valued

LEMMA UpdateDiscountTyped ==
  ASSUME OfferAssumption, Typed, NEW r \in Requests, UpdateDiscountLog(r)
  PROVE  Typed'
  <1>1. PICK u \in Users, x \in Logs, lunch \in Meals \cup {NULL},
             bill \in Bills \cup {NULL}, p \in Percents \cup {NULL} :
          /\ Live(x)
          /\ log[x].kind = "discount"
          /\ MayEdit(u, x)
          /\ Accept(r, "update", u, x,
                    With(Named([totalBill |-> bill, discountPercent |-> p,
                                discountAmount |-> NewAmount(x, bill, p)]),
                         hadLunch(lunch)))
    BY DEF UpdateDiscountLog
  <1>. DEFINE data == With(Named([totalBill |-> bill, discountPercent |-> p,
                                  discountAmount |-> NewAmount(x, bill, p)]),
                           hadLunch(lunch))
  <1>2. log[x] # NoRow /\ OfferRow(log[x])
    BY <1>1 DEF Live, Typed
  <1>3. /\ Valued(data)
        /\ DOMAIN data \subseteq Money \cup {"hadLunch"}
        /\ Mends(data, log[x])
    BY <1>1, <1>2, DiscountEdit
  <1>. HIDE DEF data
  <1>4. task'[r] = [op |-> "update", user |-> u, id |-> x, data |-> data, fresh |-> TRUE]
    BY <1>1 DEF Accept, Typed, data
  <1>5. Columns(log[x].kind) \cap (Money \cup {"hadLunch", "foodCost"})
          = Money \cup {"hadLunch"}
    BY <1>1 DEF Columns, Fixed, Decision, Money
  <1>6. Editing(task'[r])
    BY <1>1, <1>2, <1>3, <1>4, <1>5 DEF Editing, Holds, Live, MayEdit, OwnBranch
  <1>. QED
    BY <1>1, <1>6, AcceptTyped DEF data

LEMMA UpdateEntertainmentTyped ==
  ASSUME OfferAssumption, Typed, NEW r \in Requests, UpdateEntertainmentLog(r)
  PROVE  Typed'
  <1>1. PICK u \in Users, x \in Logs, lunch \in Meals \cup {NULL},
             cost \in Costs \cup {NULL} :
          /\ Live(x)
          /\ log[x].kind = "entertainment"
          /\ MayEdit(u, x)
          /\ Accept(r, "update", u, x,
                    With(Named([foodCost |-> cost]), hadLunch(lunch)))
    BY DEF UpdateEntertainmentLog
  <1>. DEFINE data == With(Named([foodCost |-> cost]), hadLunch(lunch))
  <1>2. Valued(data) /\ DOMAIN data \subseteq {"foodCost", "hadLunch"}
    BY EntertainmentEdit
  <1>. HIDE DEF data
  <1>3. task'[r] = [op |-> "update", user |-> u, id |-> x, data |-> data, fresh |-> TRUE]
    BY <1>1 DEF Accept, Typed, data
  <1>4. Columns(log[x].kind) \cap (Money \cup {"hadLunch", "foodCost"})
          = {"hadLunch", "foodCost"}
    BY <1>1 DEF Columns, Fixed, Decision, Money
  <1>5. Editing(task'[r])
    BY <1>1, <1>2, <1>3, <1>4 DEF Editing, Holds, Live, MayEdit, OwnBranch
  <1>. QED
    BY <1>1, <1>5, AcceptTyped DEF data

LEMMA DecidesTyped ==
  ASSUME OfferAssumption, Typed, NEW r \in Requests, NEW kind, Decides(r, kind)
  PROVE  Typed'
  <1>1. PICK u \in Approvers, x \in Logs, to \in {"APPROVED", "REJECTED"} :
          OpenToDecision(x) /\ Accept(r, "update", u, x, Verdict(u, to))
    BY DEF Decides
  <1>2. u \in Users /\ u \notin Managers
    BY DEF OfferAssumption
  <1>3. task'[r] = [op |-> "update", user |-> u, id |-> x,
                    data |-> Verdict(u, to), fresh |-> TRUE]
    BY <1>1 DEF Accept, Typed
  <1>4. Deciding(task'[r])
    BY <1>1, <1>2, <1>3 DEF Deciding, Holds, OpenToDecision, Live, OwnBranch
  <1>. QED
    BY <1>1, <1>2, <1>4, AcceptTyped

LEMMA RemovesTyped ==
  ASSUME Typed, NEW r \in Requests, NEW kind, Removes(r, kind)
  PROVE  Typed'
  <1>1. PICK u \in Users, x \in Logs :
          /\ Live(x)
          /\ OwnBranch(u, log[x].branch)
          /\ log[x].approvalStatus = "APPROVED" => u \in SuperAdmins
          /\ Accept(r, "update", u, x, [isDeleted |-> TRUE])
    BY DEF Removes
  <1>2. task'[r] = [op |-> "update", user |-> u, id |-> x,
                    data |-> [isDeleted |-> TRUE], fresh |-> TRUE]
    BY <1>1 DEF Accept, Typed
  <1>3. Deleting(task'[r])
    BY <1>1, <1>2 DEF Deleting, Holds, Live
  <1>. QED
    BY <1>1, <1>3, AcceptTyped

-----------------------------------------------------------------------------
(* The writes. *)

(* What a step that writes x writes there, and for whom. *)
Writes(r, x, new) ==
  /\ task[r] # Idle
  /\ InFlight(task[r])
  /\ Store(r, x, new)
  /\ \/ /\ log[x] = NoRow
        /\ new = task[r].data
        /\ Creating(task[r])
     \/ /\ log[x] # NoRow
        /\ x = task[r].id
        /\ OfferRow(log[x])
        /\ new = With(log[x], task[r].data)
        /\ new.kind = log[x].kind
        /\ new.branch = log[x].branch
        /\ Editing(task[r]) \/ Deciding(task[r]) \/ Deleting(task[r])

(* What an update holds are columns of its log, never kind or branch. *)
LEMMA UpdateChanges ==
  ASSUME OfferAssumption, Typed, NEW r \in Requests, task[r] # Idle,
         task[r].op = "update"
  PROVE  /\ Holds(task[r])
         /\ Editing(task[r]) \/ Deciding(task[r]) \/ Deleting(task[r])
         /\ Valued(task[r].data)
         /\ DOMAIN task[r].data \subseteq Columns(log[task[r].id].kind) \ Fixed
  <1>. DEFINE t == task[r]
  <1>1. InFlight(t) /\ ~Creating(t)
    BY DEF Typed, Creating
  <1>2. CASE Editing(t)
    BY <1>2 DEF Editing, Money, Fixed
  <1>3. CASE Deciding(t)
    <2>1. PICK to \in {"APPROVED", "REJECTED"} : t.data = Verdict(t.user, to)
      BY <1>3 DEF Deciding
    <2>2. t.user \in Users
      BY <1>1 DEF InFlight
    <2>3. /\ DOMAIN t.data = Decision
          /\ t.data.approvalStatus = to
          /\ t.data.approvedBy = t.user
          /\ t.data.signature \in {t.user, NULL}
      BY <2>1, <2>2, VerdictColumns
    <2>4. Valued(t.data)
      BY <2>2, <2>3 DEF Valued, Decision
    <2>5. Decision \subseteq Columns(log[t.id].kind) \ Fixed
      BY DEF Columns, Decision, Fixed
    <2>. QED
      BY <1>3, <2>3, <2>4, <2>5 DEF Deciding
  <1>4. CASE Deleting(t)
    <2>1. {"isDeleted"} \subseteq Columns(log[t.id].kind) \ Fixed
      BY DEF Columns, Fixed
    <2>. QED
      BY <1>4, <2>1 DEF Deleting, Valued
  <1>. QED
    BY <1>1, <1>2, <1>3, <1>4 DEF InFlight

LEMMA WritersWrite ==
  ASSUME OfferAssumption, Typed, NEW r \in Requests, InsertLog(r) \/ UpdateLog(r)
  PROVE  \E x \in Logs : \E new : OfferRow(new) /\ Writes(r, x, new)
  <1>1. task[r] # Idle /\ InFlight(task[r])
    BY DEF InsertLog, UpdateLog, Typed, Idle
  <1>2. CASE InsertLog(r)
    <2>1. Creating(task[r])
      BY <1>1, <1>2 DEF InsertLog, InFlight, Editing, Deciding, Deleting
    <2>2. PICK x \in Logs : log[x] = NoRow /\ Store(r, x, task[r].data)
      BY <1>2 DEF InsertLog
    <2>3. OfferRow(task[r].data) /\ Writes(r, x, task[r].data)
      BY <1>1, <2>1, <2>2 DEF Writes, Creating
    <2>. QED
      BY <2>3
  <1>3. CASE UpdateLog(r)
    <2>. DEFINE x == task[r].id
                new == With(log[x], task[r].data)
    <2>1. task[r].op = "update" /\ Store(r, x, new)
      BY <1>3 DEF UpdateLog
    <2>2. /\ Holds(task[r])
          /\ Editing(task[r]) \/ Deciding(task[r]) \/ Deleting(task[r])
          /\ Valued(task[r].data)
          /\ DOMAIN task[r].data \subseteq Columns(log[x].kind) \ Fixed
      BY <1>1, <2>1, UpdateChanges
    <2>3. x \in Logs /\ log[x] # NoRow /\ OfferRow(log[x])
      BY <2>2 DEF Holds, Typed
    <2>4. OfferRow(new) /\ new.kind = log[x].kind /\ new.branch = log[x].branch
      BY <2>2, <2>3, WithIsARow
    <2>5. Writes(r, x, new)
      BY <1>1, <2>1, <2>2, <2>3, <2>4 DEF Writes
    <2>. QED
      BY <2>3, <2>4, <2>5
  <1>. QED
    BY <1>2, <1>3

(* A handler loses by the write of another only what it knows of a log     *)
(* nothing has overtaken.                                                  *)
LEMMA OthersStayInFlight ==
  ASSUME Typed, NEW r \in Requests, NEW x \in Logs, NEW new, OfferRow(new),
         Writes(r, x, new), NEW q \in Requests, q # r, task'[q] # Idle
  PROVE  InFlight(task[q])'
  <1>. DEFINE t == task[q]
              u == task'[q]
  <1>1. t # Idle /\ InFlight(t)
    BY DEF Writes, Store, Typed
  <1>2. new # NoRow /\ \A y \in Logs : log'[y] = IF y = x THEN new ELSE log[y]
    BY OfferRowIsARow DEF Writes, Store, Typed
  <1>3. /\ DOMAIN u = TaskFields
        /\ u.op = t.op
        /\ u.user = t.user
        /\ u.id = t.id
        /\ u.data = t.data
        /\ u.fresh => t.fresh /\ t.id # x
    BY <1>1 DEF Writes, Store, Typed, InFlight, TaskFields
  <1>4. ASSUME Holds(t)
        PROVE  /\ Holds(t)'
               /\ log'[t.id].branch = log[t.id].branch
               /\ log'[t.id].kind = log[t.id].kind
               /\ u.fresh => log'[t.id] = log[t.id]
    BY <1>2, <1>3, <1>4 DEF Holds, Writes
  <1>5. CASE Creating(t)
    BY <1>1, <1>3, <1>5 DEF Creating, InFlight
  <1>6. CASE Editing(t)
    BY <1>1, <1>3, <1>4, <1>6 DEF Editing, InFlight, MayEdit
  <1>7. CASE Deciding(t)
    BY <1>1, <1>3, <1>4, <1>7 DEF Deciding, InFlight
  <1>8. CASE Deleting(t)
    BY <1>1, <1>3, <1>4, <1>8 DEF Deleting, InFlight
  <1>. QED
    BY <1>1, <1>5, <1>6, <1>7, <1>8 DEF InFlight

LEMMA WriteTyped ==
  ASSUME OfferAssumption, Typed, NEW r \in Requests, InsertLog(r) \/ UpdateLog(r)
  PROVE  Typed'
  <1>1. PICK x \in Logs : \E new : OfferRow(new) /\ Writes(r, x, new)
    BY WritersWrite
  <1>2. PICK new : OfferRow(new) /\ Writes(r, x, new)
    BY <1>1
  <1>3. /\ DOMAIN log' = Logs
        /\ \A y \in Logs : log'[y] = IF y = x THEN new ELSE log[y]
        /\ DOMAIN task' = Requests
        /\ task'[r] = Idle
    BY <1>2 DEF Writes, Store, Typed
  <1>4. ASSUME NEW q \in Requests, task'[q] # Idle
        PROVE  InFlight(task[q])'
    BY <1>2, <1>3, <1>4, OthersStayInFlight
  <1>5. \A y \in Logs : log'[y] # NoRow => OfferRow(log'[y])
    BY <1>2, <1>3 DEF Typed
  <1>. QED
    BY <1>3, <1>4, <1>5 DEF Typed, OfferRow, Valued

LEMMA InitTyped == Init => Typed
  BY DEF Init, Typed

LEMMA NextTyped ==
  ASSUME OfferAssumption, Typed, [Next]_vars
  PROVE  Typed'
  <1>1. CASE UNCHANGED vars
    BY <1>1 DEF vars, Typed, OfferRow, Valued, InFlight, Creating, Editing, Deciding,
       Deleting, Holds, MayEdit
  <1>2. CASE Next
    BY <1>2, CreateDiscountTyped, CreateEntertainmentTyped, UpdateDiscountTyped,
       UpdateEntertainmentTyped, DecidesTyped, RemovesTyped, WriteTyped
    DEF Next, SetDiscountLogApproval, SetEntertainmentLogApproval, DeleteDiscountLog,
        DeleteEntertainmentLog
  <1>. QED
    BY <1>1, <1>2

LEMMA AlwaysTyped == Spec => []Typed
  <1>1. Typed /\ [Next]_vars => Typed'
    BY OfferAssumption, NextTyped
  <1>. QED
    BY InitTyped, <1>1, PTL DEF Spec

(* Rows of both tables have the columns of their kind, each of its type.   *)
THEOREM TypesHold == Spec => []TypeOK
  <1>. DEFINE columns == {"kind", "branch", "hadLunch", "approvalStatus", "isDeleted",
                          "approvedBy", "signature"}
  <1>1. ASSUME Typed, NEW x \in Logs, log[x] # NoRow
        PROVE  /\ Part(log[x], columns) \in Shared
               /\ log[x].kind = "discount" =>
                    /\ log[x].totalBill \in Bills
                    /\ log[x].discountPercent \in Percents
                    /\ log[x].discountAmount \in Nat
               /\ log[x].kind = "entertainment" => log[x].foodCost \in Costs
    <2>1. OfferRow(log[x])
      BY <1>1 DEF Typed
    <2>2. DOMAIN log[x] \cap columns = columns
      BY <2>1 DEF OfferRow, Columns, Fixed, Decision
    <2>3. Part(log[x], columns) \in Shared
      BY <2>1, <2>2 DEF Part, Shared, OfferRow, Valued
    <2>. QED
      BY <2>1, <2>3 DEF OfferRow, Valued, Columns, Money
  <1>2. Typed => TypeOK
    BY <1>1 DEF TypeOK
  <1>. QED
    BY AlwaysTyped, <1>2, PTL

-----------------------------------------------------------------------------
(* Frames. *)

LEMMA LogFrame ==
  ASSUME OfferAssumption, Typed, [Next]_vars, log' # log
  PROVE  \E r \in Requests, x \in Logs : \E new : OfferRow(new) /\ Writes(r, x, new)
  <1>1. PICK r \in Requests : InsertLog(r) \/ UpdateLog(r)
    BY DEF Next, vars, CreateDiscountLog, CreateEntertainmentLog, UpdateDiscountLog,
       UpdateEntertainmentLog, SetDiscountLogApproval, SetEntertainmentLogApproval,
       DeleteDiscountLog, DeleteEntertainmentLog, Decides, Removes, Accept
  <1>. QED
    BY <1>1, WritersWrite

(* A handler ends by writing. *)
LEMMA HandlerFrame ==
  ASSUME OfferAssumption, Typed, [Next]_vars, NEW r \in Requests,
         task[r] # Idle, task'[r] = Idle
  PROVE  \E x \in Logs : \E new : OfferRow(new) /\ Writes(r, x, new)
  <1>1. InFlight(task[r]) /\ task' # task
    BY DEF Typed
  <1>2. Next
    BY <1>1 DEF vars
  <1>3. ASSUME NEW q \in Requests, NEW op, NEW u, NEW x, NEW data, Accept(q, op, u, x, data)
        PROVE  FALSE
    BY <1>1, <1>3 DEF Accept, Typed
  <1>4. PICK w \in Requests : InsertLog(w) \/ UpdateLog(w)
    BY <1>2, <1>3 DEF Next, CreateDiscountLog, CreateEntertainmentLog, UpdateDiscountLog,
       UpdateEntertainmentLog, SetDiscountLogApproval, SetEntertainmentLogApproval,
       DeleteDiscountLog, DeleteEntertainmentLog, Decides, Removes
  <1>5. PICK x \in Logs : \E new : OfferRow(new) /\ Writes(w, x, new)
    BY <1>4, WritersWrite
  <1>6. ASSUME w # r
        PROVE  FALSE
    <2>1. DOMAIN task'[r] = TaskFields
      BY <1>1, <1>5, <1>6 DEF Writes, Store, InFlight, TaskFields
    <2>. QED
      BY <2>1 DEF Idle, TaskFields
  <1>. QED
    BY <1>5, <1>6

-----------------------------------------------------------------------------
(* Status, decider and signature are written together or not at all. *)

Signed(row) ==
  /\ row.approvedBy = NULL <=> row.approvalStatus = "PENDING"
  /\ row.signature =
       IF row.approvalStatus = "APPROVED" /\ row.approvedBy \in Signers
       THEN row.approvedBy
       ELSE NULL

LEMMA WriteIsSigned ==
  ASSUME OfferAssumption, Typed, NEW r \in Requests, NEW x \in Logs, NEW new,
         Writes(r, x, new), log[x] # NoRow => Signed(log[x])
  PROVE  Signed(new)
  <1>. DEFINE t == task[r]
  <1>1. CASE new = t.data /\ Creating(t)
    BY <1>1 DEF Creating, Signed
  <1>2. CASE log[x] # NoRow /\ OfferRow(log[x]) /\ new = With(log[x], t.data)
    <2>1. Decision \subseteq DOMAIN log[x]
      BY <1>2 DEF OfferRow, Columns
    <2>2. \A c \in Decision : new[c] = IF c \in DOMAIN t.data THEN t.data[c] ELSE log[x][c]
      BY <1>2, <2>1 DEF With
    <2>3. CASE DOMAIN t.data \cap Decision = {}
      <3>1. /\ new.approvalStatus = log[x].approvalStatus
            /\ new.approvedBy = log[x].approvedBy
            /\ new.signature = log[x].signature
        BY <2>2, <2>3 DEF Decision
      <3>. QED
        BY <1>2, <3>1 DEF Signed
    <2>4. CASE Deciding(t)
      <3>1. PICK to \in {"APPROVED", "REJECTED"} : t.data = Verdict(t.user, to)
        BY <2>4 DEF Deciding
      <3>2. t.user \in Users /\ t.user # NULL
        BY DEF Writes, InFlight, OfferAssumption
      <3>3. /\ DOMAIN t.data = Decision
            /\ t.data.approvalStatus = to
            /\ t.data.approvedBy = t.user
            /\ t.data.signature = IF to = "APPROVED" /\ t.user \in Signers THEN t.user ELSE NULL
        BY <3>1, <3>2, VerdictColumns
      <3>4. /\ new.approvalStatus = to
            /\ new.approvedBy = t.user
            /\ new.signature = t.data.signature
        BY <2>2, <3>3 DEF Decision
      <3>. QED
        BY <3>2, <3>3, <3>4 DEF Signed
    <2>5. Editing(t) \/ Deleting(t) => DOMAIN t.data \cap Decision = {}
      BY DEF Editing, Deleting, Money, Decision
    <2>. QED
      BY <1>2, <2>3, <2>4, <2>5 DEF Writes
  <1>. QED
    BY <1>1, <1>2 DEF Writes

LEMMA SignedNext ==
  ASSUME OfferAssumption, Typed, DecisionsAreSigned, [Next]_vars
  PROVE  DecisionsAreSigned'
  <1>. SUFFICES ASSUME NEW x \in Logs, log'[x] # NoRow
                PROVE  Signed(log[x])'
    BY DEF DecisionsAreSigned, Signed
  <1>1. log[x] # NoRow => Signed(log[x])
    BY DEF DecisionsAreSigned, Signed
  <1>2. CASE log'[x] = log[x]
    BY <1>1, <1>2 DEF Signed
  <1>3. CASE log'[x] # log[x]
    <2>1. PICK r \in Requests, y \in Logs : \E new : OfferRow(new) /\ Writes(r, y, new)
      BY <1>3, LogFrame
    <2>2. PICK new : Writes(r, y, new)
      BY <2>1
    <2>3. y = x /\ log'[x] = new
      BY <1>3, <2>2 DEF Writes, Store, Typed
    <2>4. Signed(new)
      BY <1>1, <2>2, <2>3, WriteIsSigned
    <2>. QED
      BY <2>3, <2>4 DEF Signed
  <1>. QED
    BY <1>2, <1>3

(* A decided log names its decider, and an approved one bears the          *)
(* signature of the user it names, whatever writes raced.                  *)
THEOREM DecisionsBearTheirSigner == Spec => []DecisionsAreSigned
  <1>1. Init => DecisionsAreSigned
    BY DEF Init, DecisionsAreSigned
  <1>2. Typed /\ DecisionsAreSigned /\ [Next]_vars => DecisionsAreSigned'
    BY OfferAssumption, SignedNext
  <1>. QED
    BY <1>1, <1>2, AlwaysTyped, PTL DEF Spec

-----------------------------------------------------------------------------
(* The branch a manager's handler was allowed is the branch it writes. *)

LEMMA WritesStayHome ==
  ASSUME OfferAssumption, Typed, [Next]_vars, NEW r \in Requests, NEW x \in Logs,
         task[r] # Idle, task'[r] = Idle, log'[x] # log[x]
  PROVE  /\ OwnBranch(task[r].user, log'[x].branch)
         /\ log[x] # NoRow => log'[x].branch = log[x].branch
  <1>1. PICK y \in Logs : \E new : OfferRow(new) /\ Writes(r, y, new)
    BY HandlerFrame
  <1>2. PICK new : Writes(r, y, new)
    BY <1>1
  <1>3. y = x /\ log'[x] = new
    BY <1>2 DEF Writes, Store, Typed
  <1>. QED
    BY <1>2, <1>3 DEF Writes, Creating, Editing, Deciding, Deleting, Holds

(* Managers write logs of their branch only, and no write moves a log.     *)
THEOREM ManagersStayInTheirBranch == Spec => ManagersKeepToTheirBranch
  <1>1. Typed /\ [Next]_vars =>
          [\A r \in Requests, x \in Logs :
             /\ task[r] # Idle
             /\ task'[r] = Idle
             /\ log'[x] # log[x]
             => /\ OwnBranch(task[r].user, log'[x].branch)
                /\ log[x] # NoRow => log'[x].branch = log[x].branch]_vars
    BY OfferAssumption, WritesStayHome
  <1>. QED
    BY <1>1, AlwaysTyped, PTL DEF Spec, ManagersKeepToTheirBranch

-----------------------------------------------------------------------------
(* Money. *)

LEMMA FreshEditMends ==
  ASSUME OfferAssumption, Typed, [Next]_vars, NEW r \in Requests, NEW x \in Logs,
         task[r] # Idle, task'[r] = Idle, task[r].fresh,
         "discountAmount" \in DOMAIN task[r].data, log'[x] # log[x]
  PROVE  log'[x].discountAmount = Amount(log'[x].totalBill, log'[x].discountPercent)
  <1>. DEFINE t == task[r]
  <1>1. PICK y \in Logs : \E new : OfferRow(new) /\ Writes(r, y, new)
    BY HandlerFrame
  <1>2. PICK new : OfferRow(new) /\ Writes(r, y, new)
    BY <1>1
  <1>3. y = x /\ log'[x] = new
    BY <1>2 DEF Writes, Store, Typed
  <1>4. CASE new = t.data /\ Creating(t)
    <2>1. DOMAIN t.data = Columns(t.data.kind)
      BY <1>4 DEF Creating, OfferRow
    <2>2. t.data.kind = "discount"
      BY <2>1 DEF Columns, Fixed, Decision
    <2>3. {"totalBill", "discountPercent"} \subseteq DOMAIN t.data
      BY <2>1, <2>2 DEF Columns, Money
    <2>. QED
      BY <1>3, <1>4, <2>2, <2>3 DEF Creating, Mends
  <1>5. CASE log[x] # NoRow /\ OfferRow(log[x]) /\ new = With(log[x], t.data)
    <2>1. ~Deciding(t) /\ ~Deleting(t)
      <3>1. ASSUME Deciding(t)
            PROVE  FALSE
        BY <1>2, <3>1, VerdictColumns DEF Deciding, Writes, InFlight, Decision
      <3>. QED
        BY <3>1 DEF Deleting
    <2>2. Editing(t) /\ x = t.id
      BY <1>2, <1>3, <1>5, <2>1 DEF Writes
    <2>3. Mends(t.data, log[x])
      BY <2>2 DEF Editing
    <2>4. "discountAmount" \in Columns(log[x].kind)
      BY <2>2 DEF Editing
    <2>5. Money \subseteq DOMAIN log[x]
      BY <1>5, <2>4 DEF OfferRow, Columns, Fixed, Decision
    <2>6. \A c \in Money : new[c] = IF c \in DOMAIN t.data THEN t.data[c] ELSE log[x][c]
      BY <1>5, <2>5 DEF With
    <2>7. /\ new.discountAmount = t.data.discountAmount
          /\ new.totalBill
               = IF "totalBill" \in DOMAIN t.data THEN t.data.totalBill ELSE log[x].totalBill
          /\ new.discountPercent
               = IF "discountPercent" \in DOMAIN t.data
                 THEN t.data.discountPercent ELSE log[x].discountPercent
      BY <2>6 DEF Money
    <2>. QED
      BY <1>3, <2>3, <2>7 DEF Mends
  <1>. QED
    BY <1>2, <1>3, <1>4, <1>5 DEF Writes

(* An edit that nothing overtook leaves the amount right, even if it was   *)
(* wrong before.                                                           *)
THEOREM UnracedEditsKeepTheAmount == Spec => UnracedEditsMendTheAmount
  <1>1. Typed /\ [Next]_vars =>
          [\A r \in Requests, x \in Logs :
             /\ task[r] # Idle
             /\ task'[r] = Idle
             /\ task[r].fresh
             /\ "discountAmount" \in DOMAIN task[r].data
             /\ log'[x] # log[x]
             => log'[x].discountAmount =
                  Amount(log'[x].totalBill, log'[x].discountPercent)]_vars
    BY OfferAssumption, FreshEditMends
  <1>. QED
    BY <1>1, AlwaysTyped, PTL DEF Spec, UnracedEditsMendTheAmount

-----------------------------------------------------------------------------
(* A write that nothing overtook still has its whole guard, and is then a  *)
(* step of the approval workflow.                                          *)

Allowed(u, x, new) ==
  /\ ~Removed[x]
  /\ u \in Managers => Status[x] # "APPROVED"
  /\ u \in Managers /\ ~new.isDeleted => Status[x] = "PENDING"
  /\ Status[x] = "APPROVED" /\ new.isDeleted => u \in SuperAdmins

LEMMA FreshWrite ==
  ASSUME OfferAssumption, Typed, NEW r \in Requests, NEW x \in Logs, NEW new,
         OfferRow(new), Writes(r, x, new), task[r].fresh
  PROVE  /\ [Rules!Next]_<<Status, Removed>>
         /\ log[x] # NoRow => Allowed(task[r].user, x, new)
  <1>. DEFINE t == task[r]
              row == log[x]
  <1>1. /\ new # NoRow
        /\ new.isDeleted \in BOOLEAN
        /\ log' = [log EXCEPT ![x] = new]
        /\ DOMAIN log = Logs
    BY OfferRowIsARow DEF Writes, Store, Typed, OfferRow, Valued, Columns
  <1>2. /\ Status' = [Status EXCEPT ![x] = new.approvalStatus]
        /\ Removed' = [Removed EXCEPT ![x] = new.isDeleted]
    BY <1>1 DEF Status, Removed
  <1>3. /\ Status \in [Logs -> {"NONE", "PENDING", "APPROVED", "REJECTED"}]
        /\ Removed \in [Logs -> BOOLEAN]
    BY DEF Status, Removed, Typed, OfferRow, Valued, Columns, Decision
  <1>4. CASE row = NoRow /\ new = t.data /\ Creating(t)
    <2>1. Status[x] = "NONE" /\ Removed[x] = FALSE
      BY <1>4 DEF Status, Removed
    <2>2. new.approvalStatus = "PENDING" /\ ~new.isDeleted
      BY <1>4 DEF Creating
    <2>3. Rules!Submit(x)
      BY <1>1, <1>2, <1>3, <2>1, <2>2 DEF Rules!Submit
    <2>. QED
      BY <1>4, <2>3 DEF Rules!Next
  <1>5. CASE row # NoRow /\ x = t.id /\ OfferRow(row) /\ new = With(row, t.data)
    <2>1. /\ Status[x] = row.approvalStatus
          /\ Removed[x] = row.isDeleted
          /\ row.approvalStatus \in {"PENDING", "APPROVED", "REJECTED"}
          /\ row.isDeleted \in BOOLEAN
      BY <1>5 DEF Status, Removed, OfferRow, Valued, Columns, Decision
    <2>2. {"approvalStatus", "isDeleted"} \subseteq DOMAIN row
      BY <1>5 DEF OfferRow, Columns, Decision
    <2>3. /\ new.approvalStatus
               = IF "approvalStatus" \in DOMAIN t.data
                 THEN t.data.approvalStatus ELSE row.approvalStatus
          /\ new.isDeleted
               = IF "isDeleted" \in DOMAIN t.data THEN t.data.isDeleted ELSE row.isDeleted
      BY <1>5, <2>2 DEF With
    <2>4. CASE Editing(t)
      <3>1. new.approvalStatus = row.approvalStatus /\ new.isDeleted = row.isDeleted
        BY <2>3, <2>4 DEF Editing, Money
      <3>2. UNCHANGED <<Status, Removed>>
        BY <1>2, <1>3, <2>1, <3>1
      <3>3. Allowed(t.user, x, new)
        BY <1>5, <2>1, <2>4, <3>1 DEF Editing, MayEdit, Allowed
      <3>. QED
        BY <3>2, <3>3
    <2>5. CASE Deciding(t)
      <3>1. PICK to \in {"APPROVED", "REJECTED"} : t.data = Verdict(t.user, to)
        BY <2>5 DEF Deciding
      <3>2. new.approvalStatus = to /\ new.isDeleted = row.isDeleted
        BY <2>3, <3>1, VerdictColumns DEF Writes, InFlight, Decision
      <3>3. ~row.isDeleted /\ row.approvalStatus # "APPROVED" /\ t.user \notin Managers
        BY <1>5, <2>5 DEF Deciding, OfferAssumption
      <3>4. Rules!Decide(x)
        BY <1>2, <1>3, <2>1, <3>2, <3>3 DEF Rules!Decide
      <3>5. Allowed(t.user, x, new)
        BY <2>1, <3>2, <3>3 DEF Allowed
      <3>. QED
        BY <3>4, <3>5 DEF Rules!Next
    <2>6. CASE Deleting(t)
      <3>1. /\ new.approvalStatus = row.approvalStatus
            /\ new.isDeleted
            /\ ~row.isDeleted
            /\ row.approvalStatus = "APPROVED" => t.user \in SuperAdmins
        BY <1>5, <2>3, <2>6 DEF Deleting
      <3>2. Rules!Remove(x)
        BY <1>1, <1>2, <1>3, <2>1, <3>1 DEF Rules!Remove
      <3>3. Allowed(t.user, x, new)
        BY <2>1, <3>1 DEF Allowed, OfferAssumption
      <3>. QED
        BY <3>2, <3>3 DEF Rules!Next
    <2>. QED
      BY <1>5, <2>4, <2>5, <2>6 DEF Writes
  <1>. QED
    BY <1>4, <1>5 DEF Writes

LEMMA UnracedStep ==
  ASSUME OfferAssumption, Typed, [Next]_vars, NEW r \in Requests,
         task[r] # Idle, task'[r] = Idle, task[r].fresh
  PROVE  /\ [Rules!Next]_<<Status, Removed>>
         /\ \A x \in Logs :
              log[x] # NoRow /\ log'[x] # log[x] => Allowed(task[r].user, x, log'[x])
  <1>1. PICK y \in Logs : \E new : OfferRow(new) /\ Writes(r, y, new)
    BY HandlerFrame
  <1>2. PICK new : OfferRow(new) /\ Writes(r, y, new)
    BY <1>1
  <1>3. \A x \in Logs : log'[x] = IF x = y THEN new ELSE log[x]
    BY <1>2 DEF Writes, Store, Typed
  <1>4. /\ [Rules!Next]_<<Status, Removed>>
        /\ log[y] # NoRow => Allowed(task[r].user, y, new)
    BY <1>2, FreshWrite
  <1>. QED
    BY <1>3, <1>4

(* A write that nothing overtook since its guard read keeps the approval   *)
(* workflow: managers edit pending logs only, and a super admin alone      *)
(* deletes an approved one.                                                *)
THEOREM UnracedWritesKeepTheRules == Spec => UnracedWritesFollowTheRules
  <1>1. Typed /\ [Next]_vars =>
          [\A r \in Requests :
             task[r] # Idle /\ task'[r] = Idle /\ task[r].fresh =>
               /\ [Rules!Next]_<<Status, Removed>>
               /\ \A x \in Logs :
                    log[x] # NoRow /\ log'[x] # log[x] =>
                      /\ ~Removed[x]
                      /\ task[r].user \in Managers => Status[x] # "APPROVED"
                      /\ task[r].user \in Managers /\ ~log'[x].isDeleted =>
                           Status[x] = "PENDING"
                      /\ Status[x] = "APPROVED" /\ log'[x].isDeleted =>
                           task[r].user \in SuperAdmins]_vars
    <2>1. ASSUME Typed, [Next]_vars, NEW r \in Requests,
                 task[r] # Idle, task'[r] = Idle, task[r].fresh
          PROVE  /\ [Rules!Next]_<<Status, Removed>>
                 /\ \A x \in Logs :
                      log[x] # NoRow /\ log'[x] # log[x] =>
                        Allowed(task[r].user, x, log'[x])
      BY <2>1, OfferAssumption, UnracedStep
    <2>. QED
      BY <2>1 DEF Allowed
  <1>. QED
    BY <1>1, AlwaysTyped, PTL DEF Spec, UnracedWritesFollowTheRules

=============================================================================
