----------------------------- MODULE MCEconomy -----------------------------
(***************************************************************************)
(* Small instances of the whole shop for TLC: two students and an          *)
(* administrator, one product, one key and one event.  Each run picks the  *)
(* requests that bring the services it is about into contact.              *)
(***************************************************************************)
EXTENDS TokenEconomy, TLC

CONSTANTS alice, bob, root, soap, k1, e1, photo, late, gift, bonus

NoCalls == {}

MCSymmetry == Permutations(Slots)

MCInitialBalance == alice :> 2 @@ bob :> 0 @@ root :> 0

SoapRow ==
  [price |-> 2, stock |-> 1, orderable |-> TRUE, published |-> TRUE,
   described |-> TRUE, image |-> photo]

MCInitialProducts == soap :> SoapRow

MCInitialFiles ==
  photo :> [owner |-> root, purpose |-> "PRODUCT_IMAGE", status |-> "COMPLETED"]

-----------------------------------------------------------------------------
(* The whole shop: one purchase and its cancellation among grants, a reset, *)
(* price and stock edits, and account changes.                             *)

MCPurchaseCalls ==
  {[user |-> alice, product |-> soap, quantity |-> 1, key |-> k1]}

MCStatusCalls ==
  {[admin |-> root, order |-> k1, target |-> "CANCELED", reason |-> late]}

NoEdit ==
  [op |-> "update", product |-> soap, price |-> Keep, stock |-> Keep,
   orderable |-> Keep, published |-> Keep, described |-> Keep, image |-> Keep]

MCProductCalls ==
  {[NoEdit EXCEPT !.price = 1], [NoEdit EXCEPT !.stock = 3], [NoEdit EXCEPT !.orderable = FALSE]}

MCEventCalls == {[op |-> "create", event |-> e1, name |-> "fair"]}

Grant(n) == [amount |-> n, reason |-> gift]

GrantBoth == [event |-> e1, grants |-> alice :> Grant(2) @@ bob :> Grant(1)]
TakeBack  == [event |-> e1, grants |-> alice :> Grant(0)]

MCGrantCalls == {GrantBoth, TakeBack}

MCResetCalls == {[confirmation |-> "right"]}

Access(u, ro, st) == [admin |-> root, user |-> u, role |-> ro, status |-> st]

MCAccessCalls == {Access(alice, Keep, "BLOCKED"), Access(bob, "ADMIN", Keep)}

-----------------------------------------------------------------------------
(* Grants alone: raised, lowered, repeated with another reason, against    *)
(* resets, renames, deletion and a member who gets blocked.                *)

GrantsEventCalls ==
  MCEventCalls \cup {[op |-> "rename", event |-> e1, name |-> "gala"],
                     [op |-> "delete", event |-> e1, name |-> "fair"]}

GrantsGrantCalls ==
  MCGrantCalls \cup {[event |-> e1, grants |-> alice :> [Grant(2) EXCEPT !.reason = bonus]]}

GrantsResetCalls == {[confirmation |-> "right"], [confirmation |-> "wrong"]}

GrantsAccessCalls == {Access(bob, Keep, "BLOCKED")}

=============================================================================
