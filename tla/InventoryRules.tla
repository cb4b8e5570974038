--------------------------- MODULE InventoryRules ---------------------------
(***************************************************************************)
(* The rules of monthly statements as the handlers state them, each        *)
(* operation one atomic step on the current statement: what a caller may   *)
(* rely on when requests are handled one at a time.                        *)
(***************************************************************************)
EXTENDS Integers

CONSTANTS Items, Branches, MaxMonth, Inputs, NULL

VARIABLE sheet  \* sheet[s]: statement s = <<branch, month>>, or NULL

Statements == Branches \X (1 .. MaxMonth)

Earlier(s) ==
  {e \in Statements : e[1] = s[1] /\ e[2] < s[2] /\ sheet[e] # NULL}

Latest(s) == CHOOSE e \in Earlier(s) : \A f \in Earlier(s) : f[2] <= e[2]

Carried(s, i) ==
  IF Earlier(s) = {} \/ sheet[Latest(s)].line[i] = NULL THEN 0
  ELSE sheet[Latest(s)].line[i].closingStock

Init == sheet = [s \in Statements |-> NULL]

(* A new statement lists some items and opens them with what the branch's  *)
(* latest earlier statement closed them with.                              *)
Create(s) ==
  \E listed \in SUBSET Items :
    /\ sheet[s] = NULL
    /\ sheet' = [sheet EXCEPT ![s] =
         [status |-> "DRAFT",
          line |-> [i \in Items |->
                      IF i \notin listed THEN NULL
                      ELSE [openingStock |-> Carried(s, i), added |-> 0,
                            brokenLost |-> 0, reject |-> 0,
                            closingStock |-> 0]]]]

(* A line whose counts an edit leaves as they are keeps its closing stock; *)
(* any other edit recomputes it from the line's current counts.            *)
Revised(old, input) ==
  LET current(count, stored) == IF count = NULL THEN stored ELSE count
      new == [old EXCEPT !.openingStock = current(input.openingStock, @),
                         !.added        = current(input.added, @),
                         !.brokenLost   = current(input.brokenLost, @),
                         !.reject       = current(input.reject, @)]
  IN  IF new = old THEN old
      ELSE [new EXCEPT !.closingStock =
              new.openingStock + new.added - new.brokenLost - new.reject]

Edit(s) ==
  \E named \in SUBSET Items : \E input \in [named -> Inputs] :
    /\ sheet[s] # NULL
    /\ sheet[s].status # "LOCKED"
    /\ \A i \in named :
         /\ sheet[s].line[i] # NULL
         /\ Revised(sheet[s].line[i], input[i]).closingStock >= 0
         /\ input[i].openingStock # NULL => Earlier(s) = {}
    /\ sheet' = [sheet EXCEPT ![s].line =
         [i \in Items |-> IF i \in named THEN Revised(@[i], input[i]) ELSE @[i]]]

Become(s, status) ==
  /\ sheet[s] # NULL
  /\ sheet' = [sheet EXCEPT ![s].status = status]

Reopen(s) == Become(s, "DRAFT")

Submit(s) == Become(s, "SUBMITTED") /\ sheet[s].status # "LOCKED"

Lock(s) == Become(s, "LOCKED") /\ sheet[s].status # "DRAFT"

Next ==
  \E s \in Statements :
    Create(s) \/ Edit(s) \/ Reopen(s) \/ Submit(s) \/ Lock(s)

Spec == Init /\ [][Next]_sheet

=============================================================================
