------------------------- MODULE InventoryRefinement -------------------------
(***************************************************************************)
(* Inventory implements InventoryRules when at most one request is in      *)
(* flight.                                                                 *)
(***************************************************************************)
EXTENDS Inventory

(* What the rules are about. *)
Sheet == [status : Statuses, line : [Items -> Line \cup {NULL}]]

ASSUME SheetAssumption == NULL \notin Sheet \cup Line

sheetView ==
  [s \in Statements |->
     IF Exists(s)
     THEN [status |-> statement[s].status,
           line |-> [i \in Items |->
                       IF line[s][i] = NoRow THEN NULL ELSE line[s][i]]]
     ELSE NULL]

Rules == INSTANCE InventoryRules WITH sheet <- sheetView

(* One request at a time, every handler follows the stated rules: a        *)
(* statement opens with the latest earlier closing stock, edits keep the   *)
(* counts they do not name and add up, opening stock is the first          *)
(* statement's only, and locked statements are neither edited nor          *)
(* resubmitted.                                                            *)
ImplementsInventoryRules == Rules!Spec

=============================================================================
