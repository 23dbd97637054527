------------------------------ MODULE MCOrders ------------------------------
(***************************************************************************)
(* Small instances of the order service for TLC.                           *)
(*                                                                         *)
(* Two buyers and one product at price 2; alice can afford two units, bob  *)
(* one and a half.  Key k1 is sent by alice twice, once for one unit and   *)
(* once for two, and by bob, so it is retried, reused and raced.           *)
(***************************************************************************)
EXTENDS Orders, TLC

CONSTANTS alice, bob, root, soap, k1, k2, badFit, changedMind, photo

MCInitialBalance == alice :> 4 @@ bob :> 3 @@ root :> 0

MCInitialProducts ==
  soap :> [price |-> 2, stock |-> 2, orderable |-> TRUE, published |-> TRUE,
           described |-> TRUE, image |-> photo]

Purchase(u, q, k) == [user |-> u, product |-> soap, quantity |-> q, key |-> k]
Update(k, s, why) ==
  [admin |-> root, order |-> k, target |-> s, reason |-> why]

MCPurchaseCalls ==
  {Purchase(alice, 1, k1), Purchase(alice, 2, k1), Purchase(bob, 1, k1),
   Purchase(alice, 1, k2), Purchase(bob, 1, k2)}

MCStatusCalls ==
  {Update(k1, "ACCEPTED", NoReason), Update(k1, "DELIVERED", NoReason),
   Update(k1, "CANCELED", badFit), Update(k1, "CANCELED", changedMind),
   Update(k1, "CANCELED", NoReason), Update(k2, "CANCELED", badFit)}

MCSymmetry == Permutations(Slots)

=============================================================================
