---------------------------- MODULE OrderProofs ----------------------------
(***************************************************************************)
(* The orders of the token shop, for any numbers of users, products, keys, *)
(* events and requests and any interleaving of their steps: an order is    *)
(* paid exactly once and refunded exactly when it is cancelled, it moves   *)
(* along legal transitions that its logs record, and every request is told *)
(* the truth about it.                                                     *)
(***************************************************************************)
EXTENDS EconomyProofs

\* A ledger grows, if at all, by one entry, and not one of the given type.
GrowsWithout(type) ==
  \A u \in Users :
    \/ tokenLogs'[u] = tokenLogs[u]
    \/ \E entry \in TokenLog :
         entry.type # type /\ tokenLogs'[u] = Append(tokenLogs[u], entry)

\* A longer ledger has the old entries, and one more.
LEMMA GrownLedger ==
  ASSUME TypeInv, NEW u \in Users, NEW entry \in TokenLog,
         tokenLogs'[u] = Append(tokenLogs[u], entry)
  PROVE  /\ Len(tokenLogs[u]) \in Nat
         /\ DOMAIN tokenLogs[u] = 1..Len(tokenLogs[u])
         /\ DOMAIN tokenLogs'[u] = 1..(Len(tokenLogs[u]) + 1)
         /\ \A i \in DOMAIN tokenLogs[u] : tokenLogs'[u][i] = tokenLogs[u][i]
         /\ tokenLogs'[u][Len(tokenLogs[u]) + 1] = entry
<1>1. tokenLogs[u] \in Seq(TokenLog)
  BY DEF TypeInv, EconomyTypeOK, DatabaseTypeOK
<1> QED
  BY <1>1

\* Growing without entries of a type leaves the entries of that type alone.
LEMMA EntriesKept ==
  ASSUME TypeInv, NEW type, GrowsWithout(type), NEW u \in Users
  PROVE  /\ DOMAIN tokenLogs[u] \subseteq DOMAIN tokenLogs'[u]
         /\ \A i \in DOMAIN tokenLogs[u] : tokenLogs'[u][i] = tokenLogs[u][i]
         /\ \A i \in DOMAIN tokenLogs'[u] :
              tokenLogs'[u][i].type = type => i \in DOMAIN tokenLogs[u]
<1>1. CASE tokenLogs'[u] = tokenLogs[u]
  BY <1>1
<1>2. ASSUME NEW entry \in TokenLog, entry.type # type,
             tokenLogs'[u] = Append(tokenLogs[u], entry)
      PROVE  /\ DOMAIN tokenLogs[u] \subseteq DOMAIN tokenLogs'[u]
             /\ \A i \in DOMAIN tokenLogs[u] : tokenLogs'[u][i] = tokenLogs[u][i]
             /\ \A i \in DOMAIN tokenLogs'[u] :
                  tokenLogs'[u][i].type = type => i \in DOMAIN tokenLogs[u]
  <2> DEFINE n == Len(tokenLogs[u])
  <2>1. /\ n \in Nat
        /\ DOMAIN tokenLogs[u] = 1..n
        /\ DOMAIN tokenLogs'[u] = 1..(n + 1)
        /\ \A i \in DOMAIN tokenLogs[u] : tokenLogs'[u][i] = tokenLogs[u][i]
        /\ tokenLogs'[u][n + 1] = entry
    BY <1>2, GrownLedger
  <2> HIDE DEF n
  <2>2. 1..n \subseteq 1..(n + 1) /\ \A i \in 1..(n + 1) : i \in 1..n \/ i = n + 1
    BY <2>1
  <2> QED
    BY <1>2, <2>1, <2>2
<1> QED
  BY <1>1, <1>2 DEF GrowsWithout

\* Services that move a ledger by other types leave one type alone.
LEMMA MovesWithout ==
  ASSUME NEW T, NEW type, type \notin T, LedgerMoves(T)
  PROVE  GrowsWithout(type)
BY DEF LedgerMoves, MovesByEntry, GrowsWithout

-----------------------------------------------------------------------------
(* Payments *)

\* A step that writes no payment and keeps the terms of the orders keeps
\* PaidOnce.
LEMMA PaidOnceFrame ==
  ASSUME TypeInv, PaidOnce, GrowsWithout("ORDER_PAYMENT"),
         \A k \in Keys :
           /\ orders'[k] # NoOrder <=> orders[k] # NoOrder
           /\ orders[k] # NoOrder => /\ orders'[k].user = orders[k].user
                                     /\ orders'[k].total = orders[k].total
  PROVE  PaidOnce'
<1> SUFFICES ASSUME NEW k \in Keys
             PROVE
    /\ \A u \in Users : \A i \in DOMAIN tokenLogs'[u] :
         IsPaymentOf(k, tokenLogs'[u][i]) =>
           /\ orders'[k] # NoOrder
           /\ orders'[k].user = u
           /\ tokenLogs'[u][i].delta = -orders'[k].total
           /\ \A j \in DOMAIN tokenLogs'[u] :
                IsPaymentOf(k, tokenLogs'[u][j]) => i = j
    /\ orders'[k] # NoOrder =>
         \E i \in DOMAIN tokenLogs'[orders'[k].user] :
           IsPaymentOf(k, tokenLogs'[orders'[k].user][i])
  BY DEF PaidOnce, IsPaymentOf
<1>1. ASSUME NEW u \in Users, NEW i \in DOMAIN tokenLogs'[u],
             IsPaymentOf(k, tokenLogs'[u][i])
      PROVE  /\ i \in DOMAIN tokenLogs[u]
             /\ tokenLogs[u][i] = tokenLogs'[u][i]
             /\ IsPaymentOf(k, tokenLogs[u][i])
  BY <1>1, EntriesKept DEF IsPaymentOf
<1>2. ASSUME NEW u \in Users, NEW i \in DOMAIN tokenLogs'[u],
             IsPaymentOf(k, tokenLogs'[u][i])
      PROVE  /\ orders'[k] # NoOrder
             /\ orders'[k].user = u
             /\ tokenLogs'[u][i].delta = -orders'[k].total
             /\ \A j \in DOMAIN tokenLogs'[u] :
                  IsPaymentOf(k, tokenLogs'[u][j]) => i = j
  <2>1. /\ i \in DOMAIN tokenLogs[u]
        /\ tokenLogs[u][i] = tokenLogs'[u][i]
        /\ IsPaymentOf(k, tokenLogs[u][i])
    BY <1>1, <1>2
  <2>2. /\ orders[k] # NoOrder
        /\ orders[k].user = u
        /\ tokenLogs[u][i].delta = -orders[k].total
        /\ \A j \in DOMAIN tokenLogs[u] :
             IsPaymentOf(k, tokenLogs[u][j]) => i = j
    BY <2>1 DEF PaidOnce
  <2> QED
    BY <1>1, <2>1, <2>2
<1>3. ASSUME orders'[k] # NoOrder
      PROVE  \E i \in DOMAIN tokenLogs'[orders'[k].user] :
               IsPaymentOf(k, tokenLogs'[orders'[k].user][i])
  <2>1. orders[k] # NoOrder /\ orders'[k].user = orders[k].user
    BY <1>3
  <2>2. orders[k].user \in Users
    BY <2>1 DEF TypeInv, EconomyTypeOK, OrdersTypeOK, Order
  <2> PICK i \in DOMAIN tokenLogs[orders[k].user] :
             IsPaymentOf(k, tokenLogs[orders[k].user][i])
    BY <2>1 DEF PaidOnce
  <2> QED
    BY <2>1, <2>2, EntriesKept
<1> QED
  BY <1>2, <1>3

\* A step that only a purchase or a status update makes to orders.
LEMMA OrdersKept ==
  ASSUME TypeInv, [EconomyNext]_economyVars
  PROVE  \/ \E r \in Slots : PlaceOrder(r)
         \/ \E r \in Slots : AdvanceOrder(r) /\ tokenLogs' = tokenLogs
         \/ \E r \in Slots : CancelOrder(r)
         \/ orders' = orders /\ GrowsWithout("ORDER_PAYMENT")
                             /\ GrowsWithout("ORDER_REFUND")
<1>1. ASSUME NEW r \in Slots, SaveGrants(r), UNCHANGED orderVars
      PROVE  orders' = orders /\ GrowsWithout("ORDER_PAYMENT")
                              /\ GrowsWithout("ORDER_REFUND")
  BY <1>1, SaveGrantsMoves, MovesWithout DEF EventTypes, orderVars
<1>2. ASSUME NEW r \in Slots, ResetTokenBalances(r), UNCHANGED orderVars
      PROVE  orders' = orders /\ GrowsWithout("ORDER_PAYMENT")
                              /\ GrowsWithout("ORDER_REFUND")
  BY <1>2, ResetMoves, MovesWithout DEF orderVars
<1>3. ASSUME NEW r \in Slots, CreateProduct(r) \/ UpdateProduct(r)
      PROVE  orders' = orders /\ tokenLogs' = tokenLogs
  BY <1>3 DEF CreateProduct, UpdateProduct, orderVars, ledgerVars
<1>4. CASE WritesNoMoney
  BY <1>4 DEF WritesNoMoney, ledgerVars, GrowsWithout
<1>5. ASSUME NEW r \in Slots, AdvanceOrder(r)
      PROVE  tokenLogs' = tokenLogs
  BY <1>5 DEF AdvanceOrder, ledgerVars
<1> QED
  BY <1>1, <1>2, <1>3, <1>4, <1>5, EconomyStep DEF GrowsWithout

\* The purchase that takes a free key pays it for the first time.
LEMMA PaidOncePlaced ==
  ASSUME TypeInv, PaidOnce, NEW r \in Slots, PlaceOrder(r)
  PROVE  PaidOnce'
<1> DEFINE c == call[r]
<1>1. /\ c.user \in Users /\ c.key \in Keys
      /\ NewOrder(c).user = c.user
  BY PlaceOrderMoves
<1> PICK entry \in TokenLog :
      /\ IsPaymentOf(c.key, entry)
      /\ entry.delta = -NewOrder(c).total
      /\ tokenLogs' = [tokenLogs EXCEPT ![c.user] = Append(@, entry)]
  BY PlaceOrderMoves
<1> DEFINE n == Len(tokenLogs[c.user])
<1>2. /\ tokenLogs'[c.user] = Append(tokenLogs[c.user], entry)
      /\ \A u \in Users \ {c.user} : tokenLogs'[u] = tokenLogs[u]
  BY <1>1 DEF TypeInv, EconomyTypeOK, DatabaseTypeOK
<1>3. /\ n \in Nat
      /\ DOMAIN tokenLogs[c.user] = 1..n
      /\ DOMAIN tokenLogs'[c.user] = 1..(n + 1)
      /\ \A i \in DOMAIN tokenLogs[c.user] :
           tokenLogs'[c.user][i] = tokenLogs[c.user][i]
      /\ tokenLogs'[c.user][n + 1] = entry
  BY <1>1, <1>2, GrownLedger
<1>4. /\ orders[c.key] = NoOrder
      /\ orders' = [orders EXCEPT ![c.key] = NewOrder(c)]
  BY DEF PlaceOrder, KeyIsFree
<1>5. /\ orders'[c.key] = NewOrder(c)
      /\ \A k \in Keys \ {c.key} : orders'[k] = orders[k]
  BY <1>1, <1>4 DEF TypeInv, EconomyTypeOK, OrdersTypeOK
<1>6. NewOrder(c) # NoOrder
  BY AcceptedPurchase, OrdersAssumption DEF PlaceOrder
<1>7. \A i \in DOMAIN tokenLogs'[c.user] : i \in 1..n \/ i = n + 1
  BY <1>3
<1>8. n + 1 \in DOMAIN tokenLogs'[c.user]
  BY <1>3
<1> HIDE DEF n, c
<1> SUFFICES ASSUME NEW k \in Keys
             PROVE
    /\ \A u \in Users : \A i \in DOMAIN tokenLogs'[u] :
         IsPaymentOf(k, tokenLogs'[u][i]) =>
           /\ orders'[k] # NoOrder
           /\ orders'[k].user = u
           /\ tokenLogs'[u][i].delta = -orders'[k].total
           /\ \A j \in DOMAIN tokenLogs'[u] :
                IsPaymentOf(k, tokenLogs'[u][j]) => i = j
    /\ orders'[k] # NoOrder =>
         \E i \in DOMAIN tokenLogs'[orders'[k].user] :
           IsPaymentOf(k, tokenLogs'[orders'[k].user][i])
  BY DEF PaidOnce, IsPaymentOf
<1>9. CASE k = c.key
  <2>1. ASSUME NEW u \in Users, NEW i \in DOMAIN tokenLogs'[u],
               IsPaymentOf(k, tokenLogs'[u][i])
        PROVE  u = c.user /\ i = n + 1
    <3>1. \A j \in DOMAIN tokenLogs[u] : ~IsPaymentOf(k, tokenLogs[u][j])
      BY <1>4, <1>9 DEF PaidOnce
    <3>2. u = c.user
      BY <1>2, <2>1, <3>1
    <3> QED
      BY <1>3, <1>7, <2>1, <3>1, <3>2
  <2> QED
    BY <1>1, <1>3, <1>5, <1>6, <1>8, <1>9, <2>1
<1>10. CASE k # c.key
  <2>1. ~IsPaymentOf(k, entry)
    BY <1>10 DEF IsPaymentOf
  <2>2. ASSUME NEW u \in Users
        PROVE  /\ DOMAIN tokenLogs[u] \subseteq DOMAIN tokenLogs'[u]
               /\ \A i \in DOMAIN tokenLogs[u] :
                    tokenLogs'[u][i] = tokenLogs[u][i]
               /\ \A i \in DOMAIN tokenLogs'[u] :
                    IsPaymentOf(k, tokenLogs'[u][i]) => i \in DOMAIN tokenLogs[u]
    <3>1. CASE u = c.user
      BY <1>3, <1>7, <2>1, <3>1
    <3>2. CASE u # c.user
      BY <1>2, <3>2
    <3> QED
      BY <3>1, <3>2
  <2>3. orders'[k] = orders[k]
    BY <1>5, <1>10
  <2>4. orders[k] # NoOrder => orders[k].user \in Users
    BY DEF TypeInv, EconomyTypeOK, OrdersTypeOK, Order
  <2>5. /\ \A u \in Users : \A i \in DOMAIN tokenLogs[u] :
             IsPaymentOf(k, tokenLogs[u][i]) =>
               /\ orders[k] # NoOrder
               /\ orders[k].user = u
               /\ tokenLogs[u][i].delta = -orders[k].total
               /\ \A j \in DOMAIN tokenLogs[u] :
                    IsPaymentOf(k, tokenLogs[u][j]) => i = j
        /\ orders[k] # NoOrder =>
             \E i \in DOMAIN tokenLogs[orders[k].user] :
               IsPaymentOf(k, tokenLogs[orders[k].user][i])
    BY DEF PaidOnce
  <2> QED
    BY <2>2, <2>3, <2>4, <2>5
<1> QED
  BY <1>9, <1>10

\* However often a purchase is sent, raced or retried, its order is paid once.
THEOREM OrdersPaidOnce == EconomySpec => []PaidOnce
<1>1. EconomyInit => PaidOnce
  BY DEF EconomyInit, DatabaseInit, OrdersInit, InitialLogs, PaidOnce,
         IsPaymentOf
<1>2. TypeInv /\ PaidOnce /\ [EconomyNext]_economyVars => PaidOnce'
  <2> SUFFICES ASSUME TypeInv, PaidOnce, [EconomyNext]_economyVars
               PROVE  PaidOnce'
    OBVIOUS
  <2>1. ASSUME NEW r \in Slots, PlaceOrder(r)
        PROVE  PaidOnce'
    BY <2>1, PaidOncePlaced
  <2>2. ASSUME NEW r \in Slots, AdvanceOrder(r), tokenLogs' = tokenLogs
        PROVE  PaidOnce'
    BY <2>2, StatusChangeKeepsTerms, PaidOnceFrame DEF GrowsWithout
  <2>3. ASSUME NEW r \in Slots, CancelOrder(r)
        PROVE  PaidOnce'
    BY <2>3, CancelOrderMoves, MovesWithout, StatusChangeKeepsTerms,
       PaidOnceFrame
  <2>4. CASE orders' = orders /\ GrowsWithout("ORDER_PAYMENT")
    BY <2>4, PaidOnceFrame
  <2> QED
    BY <2>1, <2>2, <2>3, <2>4, OrdersKept
<1> QED
  BY <1>1, <1>2, TypeCorrect, PTL DEF EconomySpec

-----------------------------------------------------------------------------
(* Refunds *)

\* A cancelled order exists.
IsCanceled(k) == orders[k] # NoOrder /\ orders[k].status = "CANCELED"

\* A status update finds its order not cancelled, and cancels it exactly when
\* that is its target; no other order is touched.
LEMMA StatusChangeCancels ==
  ASSUME TypeInv, NEW r \in Slots, AdvanceOrder(r) \/ CancelOrder(r),
         NEW key \in Keys, key = call[r].order
  PROVE  /\ ~IsCanceled(key)
         /\ IsCanceled(key)' <=> CancelOrder(r)
         /\ \A k \in Keys \ {key} : orders'[k] = orders[k]
<1> DEFINE c == call[r]
<1>1. /\ c \in StatusCalls /\ StatusRefusal(c) = "none"
      /\ key = c.order
      /\ orders' = [orders EXCEPT ![c.order] = UpdatedOrder(c)]
      /\ CancelOrder(r) <=> c.target = "CANCELED"
  BY DEF AdvanceOrder, CancelOrder, RecordStatusChange
<1>2. /\ c \in StatusCall /\ orders[c.order] \in Order
      /\ UpdatedOrder(c) \in Order
  BY <1>1, AcceptedStatusUpdate
<1>3. c.order \in Keys
  BY <1>2 DEF StatusCall
<1>4. IsValidOrderStatusTransition(orders[c.order].status, c.target)
  BY <1>1 DEF StatusRefusal
<1>5. orders[c.order].status # "CANCELED"
  BY <1>4 DEF IsValidOrderStatusTransition
<1>6. UpdatedOrder(c).status = c.target /\ UpdatedOrder(c) # NoOrder
  BY <1>2, OrdersAssumption DEF UpdatedOrder, Order
<1>7. /\ orders'[key] = UpdatedOrder(c)
      /\ \A k \in Keys \ {key} : orders'[k] = orders[k]
  BY <1>1, <1>3 DEF TypeInv, EconomyTypeOK, OrdersTypeOK
<1> HIDE DEF c
<1> QED
  BY <1>1, <1>3, <1>5, <1>6, <1>7 DEF IsCanceled

\* RefundedOnce for one order.
OrderRefundedOnce(k) ==
  /\ \A u \in Users : \A i \in DOMAIN tokenLogs[u] :
       IsRefundOf(k, tokenLogs[u][i]) =>
         /\ IsCanceled(k)
         /\ orders[k].user = u
         /\ tokenLogs[u][i].delta = orders[k].total
         /\ \A j \in DOMAIN tokenLogs[u] :
              IsRefundOf(k, tokenLogs[u][j]) => i = j
  /\ IsCanceled(k) =>
       \E i \in DOMAIN tokenLogs[orders[k].user] :
         IsRefundOf(k, tokenLogs[orders[k].user][i])

\* RefundedOnce, order by order.
LEMMA RefundedOrderByOrder ==
  /\ RefundedOnce <=> \A k \in Keys : OrderRefundedOnce(k)
  /\ RefundedOnce' <=> \A k \in Keys : OrderRefundedOnce(k)'
<1>1. RefundedOnce <=> \A k \in Keys : OrderRefundedOnce(k)
  BY DEF RefundedOnce, OrderRefundedOnce, IsCanceled
<1>2. RefundedOnce' <=> \A k \in Keys : OrderRefundedOnce(k)'
  BY DEF RefundedOnce, OrderRefundedOnce, IsCanceled, IsRefundOf
<1> QED
  BY <1>1, <1>2

\* A step that adds no refund of an order and keeps its terms keeps
\* OrderRefundedOnce.
LEMMA RefundedFrame ==
  ASSUME TypeInv, NEW k \in Keys, OrderRefundedOnce(k),
         \A u \in Users :
           /\ DOMAIN tokenLogs[u] \subseteq DOMAIN tokenLogs'[u]
           /\ \A i \in DOMAIN tokenLogs[u] : tokenLogs'[u][i] = tokenLogs[u][i]
           /\ \A i \in DOMAIN tokenLogs'[u] :
                IsRefundOf(k, tokenLogs'[u][i]) => i \in DOMAIN tokenLogs[u],
         IsCanceled(k)' <=> IsCanceled(k),
         orders[k] # NoOrder => /\ orders'[k].user = orders[k].user
                                /\ orders'[k].total = orders[k].total
  PROVE  OrderRefundedOnce(k)'
<1>1. IsCanceled(k) => orders[k] # NoOrder /\ orders[k].user \in Users
  BY DEF IsCanceled, TypeInv, EconomyTypeOK, OrdersTypeOK, Order
<1>2. ASSUME NEW u \in Users, NEW i \in DOMAIN tokenLogs'[u],
             IsRefundOf(k, tokenLogs'[u][i])
      PROVE  /\ IsCanceled(k)'
             /\ orders'[k].user = u
             /\ tokenLogs'[u][i].delta = orders'[k].total
             /\ \A j \in DOMAIN tokenLogs'[u] :
                  IsRefundOf(k, tokenLogs'[u][j]) => i = j
  <2>1. /\ i \in DOMAIN tokenLogs[u] /\ tokenLogs'[u][i] = tokenLogs[u][i]
        /\ IsRefundOf(k, tokenLogs[u][i])
    BY <1>2
  <2>2. /\ IsCanceled(k)
        /\ orders[k].user = u
        /\ tokenLogs[u][i].delta = orders[k].total
        /\ \A j \in DOMAIN tokenLogs[u] :
             IsRefundOf(k, tokenLogs[u][j]) => i = j
    BY <2>1 DEF OrderRefundedOnce
  <2> QED
    BY <1>1, <2>1, <2>2
<1>3. ASSUME IsCanceled(k)'
      PROVE  \E i \in DOMAIN tokenLogs'[orders'[k].user] :
               IsRefundOf(k, tokenLogs'[orders'[k].user][i])
  <2>1. IsCanceled(k) /\ orders'[k].user = orders[k].user
    BY <1>1, <1>3
  <2> PICK i \in DOMAIN tokenLogs[orders[k].user] :
             IsRefundOf(k, tokenLogs[orders[k].user][i])
    BY <2>1 DEF OrderRefundedOnce
  <2> QED
    BY <1>1, <2>1
<1> QED
  BY <1>2, <1>3 DEF OrderRefundedOnce, IsRefundOf

\* The update that cancels an order refunds it for the first time.
LEMMA RefundedCanceled ==
  ASSUME TypeInv, RefundedOnce, NEW r \in Slots, CancelOrder(r)
  PROVE  RefundedOnce'
<1> PICK key \in Keys : key = call[r].order
  BY CancelOrderMoves
<1> PICK user \in Users : user = orders[key].user
  BY CancelOrderMoves
<1> DEFINE n == Len(tokenLogs[user])
<1>1. key = call[r].order /\ user = orders[key].user
  OBVIOUS
<1> PICK entry \in TokenLog :
      /\ IsRefundOf(key, entry)
      /\ entry.delta = orders[key].total
      /\ tokenLogs' = [tokenLogs EXCEPT ![user] = Append(@, entry)]
  BY CancelOrderMoves
<1>2. /\ tokenLogs'[user] = Append(tokenLogs[user], entry)
      /\ \A u \in Users \ {user} : tokenLogs'[u] = tokenLogs[u]
  BY <1>1 DEF TypeInv, EconomyTypeOK, DatabaseTypeOK
<1>3. /\ n \in Nat
      /\ DOMAIN tokenLogs[user] = 1..n
      /\ DOMAIN tokenLogs'[user] = 1..(n + 1)
      /\ \A i \in DOMAIN tokenLogs[user] :
           tokenLogs'[user][i] = tokenLogs[user][i]
      /\ tokenLogs'[user][n + 1] = entry
  BY <1>1, <1>2, GrownLedger
<1>4. /\ ~IsCanceled(key) /\ IsCanceled(key)'
      /\ \A k \in Keys \ {key} : orders'[k] = orders[k]
  BY StatusChangeCancels
<1>5. orders'[key].user = user /\ orders'[key].total = orders[key].total
  <2>1. orders[key] # NoOrder
    BY <1>1, <1>4, StatusChangeKeepsTerms DEF IsCanceled
  <2> QED
    BY <1>1, <2>1, StatusChangeKeepsTerms
<1>6. \A i \in DOMAIN tokenLogs'[user] : i \in 1..n \/ i = n + 1
  BY <1>3
<1>7. n + 1 \in DOMAIN tokenLogs'[user] /\ 1..n \subseteq DOMAIN tokenLogs'[user]
  BY <1>3
<1> HIDE DEF n
<1>8. OrderRefundedOnce(key)'
  <2>1. \A u \in Users : \A j \in DOMAIN tokenLogs[u] :
          ~IsRefundOf(key, tokenLogs[u][j])
    BY <1>1, <1>4, RefundedOrderByOrder DEF OrderRefundedOnce
  <2>2. ASSUME NEW u \in Users, NEW i \in DOMAIN tokenLogs'[u],
               IsRefundOf(key, tokenLogs'[u][i])
        PROVE  u = user /\ i = n + 1
    BY <1>2, <1>3, <1>6, <2>1, <2>2
  <2>3. ASSUME NEW u \in Users, NEW i \in DOMAIN tokenLogs'[u],
               IsRefundOf(key, tokenLogs'[u][i])
        PROVE  /\ IsCanceled(key)'
               /\ orders'[key].user = u
               /\ tokenLogs'[u][i].delta = orders'[key].total
               /\ \A j \in DOMAIN tokenLogs'[u] :
                    IsRefundOf(key, tokenLogs'[u][j]) => i = j
    <3>1. u = user /\ i = n + 1
      BY <2>2, <2>3
    <3>2. tokenLogs'[u][i] = entry
      BY <1>3, <3>1
    <3> QED
      BY <1>4, <1>5, <2>2, <3>1, <3>2
  <2>4. IsRefundOf(key, tokenLogs'[orders'[key].user][n + 1])
    BY <1>3, <1>5
  <2>5. n + 1 \in DOMAIN tokenLogs'[orders'[key].user]
    BY <1>5, <1>7
  <2> QED
    BY <2>3, <2>4, <2>5 DEF OrderRefundedOnce, IsRefundOf
<1>9. ASSUME NEW k \in Keys, k # key
      PROVE  OrderRefundedOnce(k)'
  <2>1. ~IsRefundOf(k, entry)
    BY <1>9 DEF IsRefundOf
  <2>2. ASSUME NEW u \in Users
        PROVE  /\ DOMAIN tokenLogs[u] \subseteq DOMAIN tokenLogs'[u]
               /\ \A i \in DOMAIN tokenLogs[u] :
                    tokenLogs'[u][i] = tokenLogs[u][i]
               /\ \A i \in DOMAIN tokenLogs'[u] :
                    IsRefundOf(k, tokenLogs'[u][i]) => i \in DOMAIN tokenLogs[u]
    <3>1. CASE u = user
      BY <1>3, <1>6, <1>7, <2>1, <3>1
    <3>2. CASE u # user
      BY <1>2, <3>2
    <3> QED
      BY <3>1, <3>2
  <2>3. orders'[k] = orders[k]
    BY <1>4, <1>9
  <2>4. IsCanceled(k)' <=> IsCanceled(k)
    BY <2>3 DEF IsCanceled
  <2>5. OrderRefundedOnce(k)
    BY RefundedOrderByOrder
  <2> QED
    BY <2>2, <2>3, <2>4, <2>5, RefundedFrame
<1>10. \A k \in Keys : OrderRefundedOnce(k)'
  BY <1>8, <1>9
<1> QED
  BY <1>10, RefundedOrderByOrder

\* A step without refunds that cancels nothing keeps RefundedOnce.
LEMMA RefundedOnceFrame ==
  ASSUME TypeInv, RefundedOnce, GrowsWithout("ORDER_REFUND"),
         \A k \in Keys :
           /\ IsCanceled(k)' <=> IsCanceled(k)
           /\ orders[k] # NoOrder => /\ orders'[k].user = orders[k].user
                                     /\ orders'[k].total = orders[k].total
  PROVE  RefundedOnce'
<1>1. ASSUME NEW k \in Keys
      PROVE  OrderRefundedOnce(k)'
  <2>1. ASSUME NEW u \in Users
        PROVE  /\ DOMAIN tokenLogs[u] \subseteq DOMAIN tokenLogs'[u]
               /\ \A i \in DOMAIN tokenLogs[u] :
                    tokenLogs'[u][i] = tokenLogs[u][i]
               /\ \A i \in DOMAIN tokenLogs'[u] :
                    IsRefundOf(k, tokenLogs'[u][i]) => i \in DOMAIN tokenLogs[u]
    BY EntriesKept DEF IsRefundOf
  <2>2. OrderRefundedOnce(k)
    BY RefundedOrderByOrder
  <2> QED
    BY <2>1, <2>2, RefundedFrame
<1> QED
  BY <1>1, RefundedOrderByOrder

\* An order's total goes back exactly once when it is cancelled, and never
\* otherwise.
THEOREM OrdersRefundedOnce == EconomySpec => []RefundedOnce
<1>1. EconomyInit => RefundedOnce
  BY DEF EconomyInit, DatabaseInit, OrdersInit, InitialLogs, RefundedOnce,
         IsRefundOf
<1>2. TypeInv /\ RefundedOnce /\ [EconomyNext]_economyVars => RefundedOnce'
  <2> SUFFICES ASSUME TypeInv, RefundedOnce, [EconomyNext]_economyVars
               PROVE  RefundedOnce'
    OBVIOUS
  <2>1. ASSUME NEW r \in Slots, PlaceOrder(r)
        PROVE  RefundedOnce'
    <3> PICK key \in Keys : key = call[r].key
      BY <2>1, PlaceOrderMoves
    <3>1. GrowsWithout("ORDER_REFUND")
      BY <2>1, PlaceOrderMoves, MovesWithout
    <3>2. /\ orders[key] = NoOrder
          /\ orders' = [orders EXCEPT ![key] = NewOrder(call[r])]
          /\ NewOrder(call[r]).status = "ORDERED"
      BY <2>1 DEF PlaceOrder, KeyIsFree, NewOrder
    <3>3. /\ orders'[key].status = "ORDERED"
          /\ \A k \in Keys \ {key} : orders'[k] = orders[k]
      BY <3>2 DEF TypeInv, EconomyTypeOK, OrdersTypeOK
    <3> QED
      BY <3>1, <3>2, <3>3, RefundedOnceFrame DEF IsCanceled
  <2>2. ASSUME NEW r \in Slots, AdvanceOrder(r), tokenLogs' = tokenLogs
        PROVE  RefundedOnce'
    <3> PICK key \in Keys : key = call[r].order
      BY <2>2, AcceptedStatusUpdate DEF AdvanceOrder, StatusCall
    <3>1. ~CancelOrder(r)
      BY <2>2 DEF AdvanceOrder, CancelOrder
    <3>2. /\ ~IsCanceled(key) /\ ~IsCanceled(key)'
          /\ \A k \in Keys \ {key} : orders'[k] = orders[k]
      BY <2>2, <3>1, StatusChangeCancels
    <3>3. \A k \in Keys : IsCanceled(k)' <=> IsCanceled(k)
      BY <3>2 DEF IsCanceled
    <3>4. GrowsWithout("ORDER_REFUND")
      BY <2>2 DEF GrowsWithout
    <3> QED
      BY <2>2, <3>3, <3>4, StatusChangeKeepsTerms, RefundedOnceFrame
  <2>3. ASSUME NEW r \in Slots, CancelOrder(r)
        PROVE  RefundedOnce'
    BY <2>3, RefundedCanceled
  <2>4. CASE orders' = orders /\ GrowsWithout("ORDER_REFUND")
    BY <2>4, RefundedOnceFrame DEF IsCanceled
  <2> QED
    BY <2>1, <2>2, <2>3, <2>4, OrdersKept
<1> QED
  BY <1>1, <1>2, TypeCorrect, PTL DEF EconomySpec

-----------------------------------------------------------------------------
(* Order status *)

\* What a status update writes, and what it found.
LEMMA StatusChange ==
  ASSUME TypeInv, NEW r \in Slots, AdvanceOrder(r) \/ CancelOrder(r)
  PROVE  LET c == call[r]
         IN  /\ c \in StatusCall /\ c.order \in Keys
             /\ IsValidOrderStatusTransition(orders[c.order].status, c.target)
             /\ orders[c.order] \in Order /\ orders[c.order] # NoOrder
             /\ orders'[c.order] = UpdatedOrder(c)
             /\ UpdatedOrder(c) \in Order
             /\ orderStatusLogs'[c.order] =
                  Append(orderStatusLogs[c.order],
                         [before |-> orders[c.order].status, after |-> c.target])
             /\ adminActionLogs'[c.order] = adminActionLogs[c.order] + 1
             /\ \A k \in Keys \ {c.order} :
                  /\ orders'[k] = orders[k]
                  /\ orderStatusLogs'[k] = orderStatusLogs[k]
                  /\ adminActionLogs'[k] = adminActionLogs[k]
<1> DEFINE c == call[r]
<1>1. c \in StatusCalls /\ StatusRefusal(c) = "none" /\ RecordStatusChange(c)
  BY DEF AdvanceOrder, CancelOrder
<1>2. /\ c \in StatusCall /\ orders[c.order] \in Order
      /\ orders[c.order] # NoOrder /\ UpdatedOrder(c) \in Order
  BY <1>1, AcceptedStatusUpdate
<1>3. c.order \in Keys
  BY <1>2 DEF StatusCall
<1>4. IsValidOrderStatusTransition(orders[c.order].status, c.target)
  BY <1>1 DEF StatusRefusal
<1> HIDE DEF c
<1>5. /\ orders' = [orders EXCEPT ![c.order] = UpdatedOrder(c)]
      /\ orderStatusLogs' =
           [orderStatusLogs EXCEPT ![c.order] =
              Append(@, [before |-> orders[c.order].status, after |-> c.target])]
      /\ adminActionLogs' = [adminActionLogs EXCEPT ![c.order] = @ + 1]
  BY <1>1 DEF RecordStatusChange, LogAdminAction
<1>6. /\ orders \in [Keys -> Order \cup {NoOrder}]
      /\ orderStatusLogs \in [Keys -> Seq(StatusLog)]
      /\ adminActionLogs \in [AuditTargets -> Nat] /\ Keys \subseteq AuditTargets
  BY DEF TypeInv, EconomyTypeOK, OrdersTypeOK, DatabaseTypeOK, AuditTargets, Sources
<1> QED
  BY <1>2, <1>3, <1>4, <1>5, <1>6 DEF c

\* Orders move along legal transitions and keep their terms.
THEOREM OrdersAdvanceLegally == EconomySpec => OrdersMoveForward
<1>1. TypeInv /\ [EconomyNext]_economyVars =>
        [\A k \in Keys :
           orders[k] # NoOrder /\ orders'[k] # orders[k] =>
             /\ orders[k].status \notin {"DELIVERED", "CANCELED"}
             /\ orders[k].status = "ORDERED" => orders'[k].status # "DELIVERED"
             /\ orders'[k] = [orders[k] EXCEPT !.status = orders'[k].status,
                                               !.stamps = orders'[k].stamps,
                                               !.reason = orders'[k].reason]
        ]_ordersAllVars
  <2> SUFFICES ASSUME TypeInv, [EconomyNext]_economyVars, NEW k \in Keys,
                      orders[k] # NoOrder, orders'[k] # orders[k]
               PROVE
             /\ orders[k].status \notin {"DELIVERED", "CANCELED"}
             /\ orders[k].status = "ORDERED" => orders'[k].status # "DELIVERED"
             /\ orders'[k] = [orders[k] EXCEPT !.status = orders'[k].status,
                                               !.stamps = orders'[k].stamps,
                                               !.reason = orders'[k].reason]
    OBVIOUS
  <2>1. ASSUME NEW r \in Slots, PlaceOrder(r)
        PROVE  FALSE
    BY <2>1, PlaceOrderMoves
       DEF PlaceOrder, KeyIsFree, TypeInv, EconomyTypeOK, OrdersTypeOK
  <2>2. PICK r \in Slots : AdvanceOrder(r) \/ CancelOrder(r)
    BY <2>1, OrdersKept
  <2> DEFINE c == call[r]
  <2>3. /\ k = c.order /\ c \in StatusCall
        /\ IsValidOrderStatusTransition(orders[k].status, c.target)
        /\ orders[k] \in Order
        /\ orders'[k] = UpdatedOrder(c)
    BY <2>2, StatusChange
  <2> HIDE DEF c
  <2>4. /\ orders[k].status \notin {"DELIVERED", "CANCELED"}
        /\ orders[k].status = "ORDERED" => c.target # "DELIVERED"
    BY <2>3 DEF IsValidOrderStatusTransition
  <2>5. orders'[k] = [orders[k] EXCEPT !.status = c.target,
                                       !.stamps = orders'[k].stamps,
                                       !.reason = orders'[k].reason]
    BY <2>3 DEF UpdatedOrder, Order
  <2>6. orders'[k].status = c.target
    BY <2>3 DEF UpdatedOrder, Order
  <2> QED
    BY <2>4, <2>5, <2>6
<1> QED
  BY <1>1, TypeCorrect, PTL DEF EconomySpec, OrdersMoveForward

\* Only order requests write about orders in the administrators' log.
LEMMA AuditOfOrders ==
  ASSUME TypeInv, [EconomyNext]_economyVars
  PROVE  \/ \E r \in Slots : PlaceOrder(r)
         \/ \E r \in Slots : AdvanceOrder(r) \/ CancelOrder(r)
         \/ /\ UNCHANGED orderVars
            /\ \A k \in Keys : adminActionLogs'[k] = adminActionLogs[k]
<1>1. RequestsTyped
  BY DEF TypeInv, EconomyTypeOK, RequestsTyped
<1>2. /\ Keys \subseteq AuditTargets
      /\ adminActionLogs \in [AuditTargets -> Nat]
  BY DEF TypeInv, EconomyTypeOK, DatabaseTypeOK, AuditTargets, Sources
<1>3. ASSUME NEW t, t \notin Keys, LogAdminAction(t), NEW k \in Keys
      PROVE  adminActionLogs'[k] = adminActionLogs[k]
  BY <1>2, <1>3 DEF LogAdminAction
<1>4. ASSUME NEW q \in Slots, OrderStep(q)
      PROVE  \/ PlaceOrder(q) \/ AdvanceOrder(q) \/ CancelOrder(q)
             \/ UNCHANGED <<databaseVars, orderVars>>
  BY <1>4 DEF OrderStep, ReceiveOrderRequest, ServeOrderRequest, ReceivePurchase,
       ReceiveStatusUpdate, LookUpKey, FindKeyTaken, RefusePurchase,
       CollideOnKey, RecoverFromCollision, AnswerStatusUpdate,
       CollideOnRefund, RecoverFromRefundCollision, OrderConflict,
       FailOrderRequest
<1>5. ASSUME NEW q \in Slots, ProductStep(q)
      PROVE  /\ UNCHANGED orderVars
             /\ \A k \in Keys : adminActionLogs'[k] = adminActionLogs[k]
  <2>1. \A c \in ProductCalls : c.product \in Products
    BY ProductsAssumption DEF ProductCall
  <2> QED
    BY <1>3, <1>5, <2>1, DistinctIds
       DEF ProductStep, ReceiveProductCall, RefuseProductCall, CreateProduct,
           UpdateProduct, ProductConflict, databaseVars
<1>6. ASSUME NEW q \in Slots, EventStep(q)
      PROVE  \A k \in Keys : adminActionLogs'[k] = adminActionLogs[k]
  <2>1. \A c \in EventCalls \cup GrantCalls : c.event \in Events
    BY TokenEventsAssumption DEF EventCall, GrantCall
  <2> QED
    BY <1>3, <1>6, <2>1, DistinctIds
       DEF EventStep, ReceiveTokenEventRequest, ServeTokenEventRequest,
           CreateEvent, ReceiveEventCall, ReceiveGrants, AnswerEventCall,
           RenameEvent, DeleteEvent, RefuseGrants, OverflowGrants, SaveGrants,
           TokenEventConflict, databaseVars
<1>7. ASSUME NEW q \in Slots, ResetStep(q)
      PROVE  \A k \in Keys : adminActionLogs'[k] = adminActionLogs[k]
  BY <1>3, <1>7, DistinctIds
     DEF ResetStep, ReceiveReset, ResetNothing, ResetTokenBalances,
         ResetConflict, databaseVars
<1>8. ASSUME NEW q \in Slots, AccessStep(q)
      PROVE  \A k \in Keys : adminActionLogs'[k] = adminActionLogs[k]
  <2>1. \A c \in AccessCalls : c.user \in Users
    BY AdminUsersAssumption DEF AccessCall
  <2>2. CASE WriteAccess(q)
    BY <1>2, <2>1, <2>2, DistinctIds DEF WriteAccess
  <2> QED
    BY <1>8, <2>2 DEF AccessStep, ReceiveAccess, ReadAccess, databaseVars
<1> QED
  BY <1>1, <1>4, <1>5, <1>6, <1>7, <1>8, OneRequestMoves
     DEF economyVars, databaseVars

\* The history of one order.
HistoryOf(k) ==
  LET log == orderStatusLogs[k]
      n   == Len(log)
  IN  IF orders[k] = NoOrder THEN n = 0
      ELSE /\ \A i \in 1..n :
                log[i].before = IF i = 1 THEN "ORDERED" ELSE log[i - 1].after
           /\ orders[k].status = IF n = 0 THEN "ORDERED" ELSE log[n].after
           /\ orders[k].stamps = {log[i].after : i \in 1..n}
           /\ adminActionLogs[k] = n
           /\ (orders[k].reason # NoReason) <=> (orders[k].status = "CANCELED")

\* No administrators' log mentions an order that does not exist.
Unmentioned == \A k \in Keys : orders[k] = NoOrder => adminActionLogs[k] = 0

\* A request for a status change that was not refused at once names a reason
\* exactly if it cancels.
ReasonsChecked ==
  \A r \in Slots : call[r] \in StatusCalls /\ pc[r] # "done" => ReasonIsValid(call[r])

\* The controller checks the reason before the service sees the request.
LEMMA ReasonsAreChecked == EconomySpec => []ReasonsChecked
<1>1. EconomyInit => ReasonsChecked
  BY OrdersAssumption DEF EconomyInit, RequestsInit, ReasonsChecked
<1>2. TypeInv /\ ReasonsChecked /\ [EconomyNext]_economyVars => ReasonsChecked'
  <2> SUFFICES ASSUME TypeInv, ReasonsChecked, [EconomyNext]_economyVars,
                      NEW r \in Slots, call'[r] \in StatusCalls, pc'[r] # "done"
               PROVE  ReasonIsValid(call'[r])
    BY DEF ReasonsChecked, ReasonIsValid
  <2>1. RequestsTyped
    BY DEF TypeInv, EconomyTypeOK, RequestsTyped
  <2>2. CASE Untouched(r) \/ UNCHANGED economyVars
    BY <2>2 DEF Untouched, economyVars, requestVars, ReasonsChecked
  <2>3. ASSUME Progress(r), pc[r] # "idle"
        PROVE  ReasonIsValid(call'[r])
    BY <2>3 DEF Progress, ReasonsChecked
  <2>4. ASSUME Progress(r), OrderStep(r), pc[r] = "idle"
        PROVE  ReasonIsValid(call'[r])
    <3>1. ReceiveOrderRequest(r)
      BY <2>4 DEF OrderStep, ServeOrderRequest, LookUpKey, FindKeyTaken,
           RefusePurchase, PlaceOrder, CollideOnKey, RecoverFromCollision,
           AnswerStatusUpdate, AdvanceOrder, CancelOrder, CollideOnRefund,
           RecoverFromRefundCollision, OrderConflict, RetryAfterConflict,
           FailOrderRequest
    <3>2. PICK c \in StatusCalls : ReceiveStatusUpdate(r, c)
      BY <2>1, <3>1, ServicesApart
         DEF ReceiveOrderRequest, ReceivePurchase, Receive, RequestsTyped,
             RequestsTypeOK
    <3> QED
      BY <2>1, <3>2 DEF ReceiveStatusUpdate, Receive, ReceiveAndRespond,
                        RequestsTyped, RequestsTypeOK
  <2>5. \A q \in Slots \ {r} : Progress(q) => Untouched(r)
    BY DEF Progress, OnlySlot
  <2> QED
    BY <2>1, <2>2, <2>3, <2>4, <2>5, OneRequestMoves, ProductProgress,
       EventProgress, ResetProgress, AccessProgress, ServicesApart
<1> QED
  BY <1>1, <1>2, TypeCorrect, PTL DEF EconomySpec

\* The first entry of a history is written with the order.
LEMMA HistoryBegins ==
  ASSUME TypeInv, StatusHistory, Unmentioned, NEW r \in Slots, PlaceOrder(r),
         NEW k \in Keys
  PROVE  HistoryOf(k)' /\ (orders'[k] = NoOrder => adminActionLogs'[k] = 0)
<1> DEFINE c == call[r]
<1>1. c \in PurchaseCalls /\ PurchaseRefusal(c) = "none" /\ orders[c.key] = NoOrder
  BY DEF PlaceOrder, KeyIsFree
<1>2. c.key \in Keys /\ NewOrder(c) \in Order /\ NewOrder(c) # NoOrder
  BY <1>1, AcceptedPurchase, OrdersAssumption DEF PurchaseCall
<1>3. /\ orders'[c.key] = NewOrder(c)
      /\ \A x \in Keys \ {c.key} : orders'[x] = orders[x]
      /\ orderStatusLogs' = orderStatusLogs /\ adminActionLogs' = adminActionLogs
  BY <1>2 DEF PlaceOrder, TypeInv, EconomyTypeOK, OrdersTypeOK
<1>4. HistoryOf(k)
  BY DEF StatusHistory, HistoryOf
<1>5. CASE k # c.key
  BY <1>3, <1>4, <1>5 DEF HistoryOf, Unmentioned
<1>6. CASE k = c.key
  <2>1. Len(orderStatusLogs[k]) = 0 /\ adminActionLogs[k] = 0
    BY <1>1, <1>4, <1>6 DEF HistoryOf, Unmentioned
  <2>2. /\ NewOrder(c).status = "ORDERED" /\ NewOrder(c).stamps = {}
        /\ NewOrder(c).reason = NoReason
    BY DEF NewOrder
  <2> HIDE DEF c
  <2> QED
    BY <1>2, <1>3, <1>6, <2>1, <2>2 DEF HistoryOf
<1> QED
  BY <1>5, <1>6

\* A status update extends the history of its order.
LEMMA HistoryExtends ==
  ASSUME TypeInv, StatusHistory, ReasonsChecked, NEW r \in Slots,
         AdvanceOrder(r) \/ CancelOrder(r), NEW k \in Keys
  PROVE  HistoryOf(k)' /\ (orders'[k] = NoOrder => orders[k] = NoOrder
                             /\ adminActionLogs'[k] = adminActionLogs[k])
<1> DEFINE c == call[r]
           log == orderStatusLogs[k]
           n == Len(log)
           entry == [before |-> orders[c.order].status, after |-> c.target]
<1>1. /\ c \in StatusCall /\ c.order \in Keys
      /\ IsValidOrderStatusTransition(orders[c.order].status, c.target)
      /\ orders[c.order] \in Order /\ orders[c.order] # NoOrder
      /\ orders'[c.order] = UpdatedOrder(c)
      /\ UpdatedOrder(c) \in Order
      /\ orderStatusLogs'[c.order] = Append(orderStatusLogs[c.order], entry)
      /\ adminActionLogs'[c.order] = adminActionLogs[c.order] + 1
      /\ \A x \in Keys \ {c.order} :
           /\ orders'[x] = orders[x]
           /\ orderStatusLogs'[x] = orderStatusLogs[x]
           /\ adminActionLogs'[x] = adminActionLogs[x]
  BY StatusChange
<1>2. HistoryOf(k)
  BY DEF StatusHistory, HistoryOf
<1>3. UpdatedOrder(c) # NoOrder
  BY <1>1, OrdersAssumption
<1>4. ReasonIsValid(c)
  BY DEF AdvanceOrder, CancelOrder, ReasonsChecked
<1>5. CASE k # c.order
  BY <1>1, <1>2, <1>5 DEF HistoryOf
<1>6. CASE k = c.order
  <2>1. log \in Seq(StatusLog)
    BY DEF TypeInv, EconomyTypeOK, OrdersTypeOK
  <2>2. orderStatusLogs'[k] = Append(log, entry)
    BY <1>1, <1>6
  <2> HIDE DEF entry
  <2>3. /\ n \in Nat /\ Len(orderStatusLogs'[k]) = n + 1
        /\ \A i \in 1..n : orderStatusLogs'[k][i] = log[i]
        /\ orderStatusLogs'[k][n + 1] = entry
    BY <2>1, <2>2
  <2>4. /\ \A i \in 1..n :
             log[i].before = IF i = 1 THEN "ORDERED" ELSE log[i - 1].after
        /\ orders[k].status = IF n = 0 THEN "ORDERED" ELSE log[n].after
        /\ orders[k].stamps = {log[i].after : i \in 1..n}
        /\ adminActionLogs[k] = n
        /\ (orders[k].reason # NoReason) <=> (orders[k].status = "CANCELED")
    BY <1>1, <1>2, <1>6 DEF HistoryOf
  <2>5. /\ UpdatedOrder(c).status = c.target
        /\ UpdatedOrder(c).stamps = orders[k].stamps \cup {c.target}
        /\ UpdatedOrder(c).reason = IF c.target = "CANCELED" THEN c.reason
                                    ELSE orders[k].reason
    BY <1>1, <1>6 DEF UpdatedOrder, Order
  <2>6. entry.before = orders[k].status /\ entry.after = c.target
    BY <1>6 DEF entry
  <2>7. orders[k].status # "CANCELED"
    BY <1>1, <1>6 DEF IsValidOrderStatusTransition
  <2> DEFINE newLog == orderStatusLogs'[k]
  <2>8. \A i \in 1..(n + 1) :
          newLog[i].before = IF i = 1 THEN "ORDERED" ELSE newLog[i - 1].after
    <3> SUFFICES ASSUME NEW i \in 1..(n + 1)
                 PROVE  newLog[i].before = IF i = 1 THEN "ORDERED"
                                           ELSE newLog[i - 1].after
      OBVIOUS
    <3> HIDE DEF n, log
    <3>1. CASE i \in 1..n
      <4>1. i = 1 \/ i - 1 \in 1..n
        BY <2>3, <3>1
      <4> QED
        BY <2>3, <2>4, <3>1, <4>1
    <3>2. CASE i = n + 1
      <4>1. n = 0 \/ (n \in 1..n /\ i - 1 = n /\ i # 1)
        BY <2>3, <3>2
      <4> QED
        BY <2>3, <2>4, <2>6, <3>2, <4>1
    <3> QED
      BY <2>3, <3>1, <3>2
  <2>9. UpdatedOrder(c).stamps = {newLog[i].after : i \in 1..(n + 1)}
    <3> HIDE DEF n, log
    <3>1. 1..(n + 1) = (1..n) \cup {n + 1}
      BY <2>3
    <3> HIDE DEF newLog
    <3>2. /\ \A i \in 1..n : newLog[i] = log[i]
          /\ newLog[n + 1] = entry
      BY <2>3 DEF newLog
    <3>3. {newLog[i].after : i \in 1..(n + 1)} = {log[i].after : i \in 1..n} \cup {c.target}
      BY <2>6, <3>1, <3>2
    <3> QED
      BY <2>4, <2>5, <3>3
  <2>10. (UpdatedOrder(c).reason # NoReason) <=> (c.target = "CANCELED")
    BY <1>4, <2>4, <2>5, <2>7 DEF ReasonIsValid
  <2>11. adminActionLogs'[k] = n + 1 /\ orders'[k] = UpdatedOrder(c)
    BY <1>1, <1>6, <2>4
  <2>12. n + 1 # 0 /\ newLog[n + 1].after = c.target
    BY <2>3, <2>6
  <2> HIDE DEF n, c, log
  <2> QED
    BY <1>3, <2>3, <2>5, <2>8, <2>9, <2>10, <2>11, <2>12 DEF HistoryOf
<1> HIDE DEF c
<1> QED
  BY <1>1, <1>3, <1>5, <1>6

\* The log of an order's statuses is the path it took.
THEOREM HistoriesTrue == EconomySpec => []StatusHistory
<1>1. EconomyInit => StatusHistory /\ Unmentioned
  BY DEF EconomyInit, DatabaseInit, OrdersInit, StatusHistory, Unmentioned,
         AuditTargets, Sources
<1>2. TypeInv /\ ReasonsChecked /\ StatusHistory /\ Unmentioned
        /\ [EconomyNext]_economyVars => StatusHistory' /\ Unmentioned'
  <2> SUFFICES ASSUME TypeInv, ReasonsChecked, StatusHistory, Unmentioned,
                      [EconomyNext]_economyVars
               PROVE  \A k \in Keys :
                        /\ HistoryOf(k)'
                        /\ orders'[k] = NoOrder => adminActionLogs'[k] = 0
    BY DEF StatusHistory, HistoryOf, Unmentioned
  <2>1. CASE \E r \in Slots : PlaceOrder(r)
    BY <2>1, HistoryBegins
  <2>2. CASE \E r \in Slots : AdvanceOrder(r) \/ CancelOrder(r)
    BY <2>2, HistoryExtends DEF Unmentioned
  <2>3. CASE /\ UNCHANGED orderVars
             /\ \A k \in Keys : adminActionLogs'[k] = adminActionLogs[k]
    <3>1. orders' = orders /\ orderStatusLogs' = orderStatusLogs
      BY <2>3 DEF orderVars
    <3> QED
      BY <2>3, <3>1 DEF StatusHistory, HistoryOf, Unmentioned
  <2> QED
    BY <2>1, <2>2, <2>3, AuditOfOrders
<1> QED
  BY <1>1, <1>2, TypeCorrect, ReasonsAreChecked, PTL DEF EconomySpec

-----------------------------------------------------------------------------
(* Answers *)

\* The order of purchase c is the one that c asks for.
IsFor(c) ==
  /\ orders[c.key].user = c.user
  /\ orders[c.key].product = c.product
  /\ orders[c.key].quantity = c.quantity

\* Answer a says what order k cost and what its payment left.
Tells(a, k) ==
  /\ a.code = "OK"
  /\ a.total = orders[k].total
  /\ \A i \in PaymentLogs(k) :
       a.remaining = tokenLogs[orders[k].user][i].after

\* What a purchase request was told and whether it is told the truth.
PurchaseTold(r) ==
  LET c == call[r]
      a == answer[r]
  IN  /\ pc[r] = "recover" => orders[c.key] # NoOrder
      /\ pc[r] = "done" /\ a.code = "OK" =>
           orders[c.key] # NoOrder /\ IsFor(c) /\ Tells(a, c.key)
      /\ pc[r] = "done" /\ a.code = "O409_IDEMPOTENCY_KEY_REUSED" =>
           orders[c.key] # NoOrder /\ ~IsFor(c)

PurchasesTold == \A r \in Slots : call[r] \in PurchaseCalls => PurchaseTold(r)

\* An order stays, with its terms and its payment, whatever the shop does.
LEMMA OrderLasts ==
  ASSUME TypeInv, PaidOnce, [EconomyNext]_economyVars,
         NEW k \in Keys, orders[k] # NoOrder
  PROVE  /\ orders'[k] # NoOrder
         /\ orders'[k].user = orders[k].user
         /\ orders'[k].product = orders[k].product
         /\ orders'[k].quantity = orders[k].quantity
         /\ orders'[k].total = orders[k].total
         /\ PaymentLogs(k)' = PaymentLogs(k)
         /\ \A i \in PaymentLogs(k) :
              tokenLogs'[orders[k].user][i] = tokenLogs[orders[k].user][i]
<1>0. orders[k].user \in Users
  BY DEF TypeInv, EconomyTypeOK, OrdersTypeOK, Order
<1>1. ASSUME orders'[k].user = orders[k].user,
             GrowsWithout("ORDER_PAYMENT")
      PROVE  /\ PaymentLogs(k)' = PaymentLogs(k)
             /\ \A i \in PaymentLogs(k) :
                  tokenLogs'[orders[k].user][i] = tokenLogs[orders[k].user][i]
  BY <1>0, <1>1, EntriesKept DEF PaymentLogs, IsPaymentOf
<1>2. ASSUME NEW r \in Slots, PlaceOrder(r)
      PROVE  /\ orders'[k] = orders[k]
             /\ PaymentLogs(k)' = PaymentLogs(k)
             /\ \A i \in PaymentLogs(k) :
                  tokenLogs'[orders[k].user][i] = tokenLogs[orders[k].user][i]
  <2> DEFINE c == call[r]
             u == orders[k].user
  <2>1. c.user \in Users /\ c.key \in Keys
    BY <1>2, PlaceOrderMoves
  <2>2. k # c.key /\ orders'[k] = orders[k]
    BY <1>2, <2>1 DEF PlaceOrder, KeyIsFree, TypeInv, EconomyTypeOK, OrdersTypeOK
  <2>3. PICK entry \in TokenLog :
          /\ IsPaymentOf(c.key, entry)
          /\ tokenLogs' = [tokenLogs EXCEPT ![c.user] = Append(@, entry)]
    BY <1>2, PlaceOrderMoves
  <2>4. ~IsPaymentOf(k, entry)
    BY <2>2, <2>3 DEF IsPaymentOf
  <2>5. CASE u # c.user
    <3>1. tokenLogs'[u] = tokenLogs[u]
      BY <1>0, <2>1, <2>3, <2>5 DEF TypeInv, EconomyTypeOK, DatabaseTypeOK
    <3> QED
      BY <2>2, <3>1 DEF PaymentLogs, IsPaymentOf
  <2>6. CASE u = c.user
    <3> DEFINE n == Len(tokenLogs[u])
    <3>1. tokenLogs'[u] = Append(tokenLogs[u], entry)
      BY <2>1, <2>3, <2>6 DEF TypeInv, EconomyTypeOK, DatabaseTypeOK
    <3>2. /\ n \in Nat
          /\ DOMAIN tokenLogs[u] = 1..n
          /\ DOMAIN tokenLogs'[u] = 1..(n + 1)
          /\ \A i \in DOMAIN tokenLogs[u] : tokenLogs'[u][i] = tokenLogs[u][i]
          /\ tokenLogs'[u][n + 1] = entry
      BY <1>0, <3>1, GrownLedger
    <3>3. /\ 1..n \subseteq 1..(n + 1)
          /\ \A i \in 1..(n + 1) : i \in 1..n \/ i = n + 1
      BY <3>2
    <3> HIDE DEF n
    <3> QED
      BY <2>2, <2>4, <3>2, <3>3 DEF PaymentLogs, IsPaymentOf
  <2> QED
    BY <2>2, <2>5, <2>6
<1>3. ASSUME NEW r \in Slots, AdvanceOrder(r) \/ CancelOrder(r)
      PROVE  GrowsWithout("ORDER_PAYMENT")
  <2>1. CASE AdvanceOrder(r)
    BY <2>1 DEF AdvanceOrder, ledgerVars, GrowsWithout
  <2>2. CASE CancelOrder(r)
    BY <2>2, CancelOrderMoves, MovesWithout
  <2> QED
    BY <1>3, <2>1, <2>2
<1>4. CASE orders' = orders /\ GrowsWithout("ORDER_PAYMENT")
  BY <1>1, <1>4
<1>5. CASE \E r \in Slots : PlaceOrder(r)
  BY <1>2, <1>5
<1>6. CASE \E r \in Slots : AdvanceOrder(r) \/ CancelOrder(r)
  BY <1>1, <1>3, <1>6, StatusChangeKeepsTerms
<1> QED
  BY <1>4, <1>5, <1>6, OrdersKept

\* A purchase's order has one payment entry.
LEMMA OnePayment ==
  ASSUME TypeInv, PaidOnce, NEW k \in Keys, orders[k] # NoOrder
  PROVE  /\ PaymentLogs(k) # {}
         /\ \A i, j \in PaymentLogs(k) : i = j
<1>1. orders[k].user \in Users
  BY DEF TypeInv, EconomyTypeOK, OrdersTypeOK, Order
<1> QED
  BY <1>1 DEF PaidOnce, PaymentLogs

\* The answer to a purchase whose key has an order.
LEMMA ResolvedTruly ==
  ASSUME TypeInv, PaidOnce, NEW c \in PurchaseCalls, orders[c.key] # NoOrder
  PROVE  LET a == ResolveExistingOrder(c)
         IN  \/ IsFor(c) /\ Tells(a, c.key)
             \/ ~IsFor(c) /\ a = Answered("O409_IDEMPOTENCY_KEY_REUSED")
<1>1. c.key \in Keys
  BY OrdersAssumption DEF PurchaseCall
<1>2. PaymentLogs(c.key) # {} /\ \A i, j \in PaymentLogs(c.key) : i = j
  BY <1>1, OnePayment
<1>3. CASE ~IsFor(c)
  BY <1>3 DEF IsFor, ResolveExistingOrder
<1>4. CASE IsFor(c)
  <2> DEFINE log == CHOOSE i \in PaymentLogs(c.key) : TRUE
  <2>1. log \in PaymentLogs(c.key)
    BY <1>2
  <2>2. ResolveExistingOrder(c) =
          [code |-> "OK", total |-> orders[c.key].total,
           remaining |-> tokenLogs[orders[c.key].user][log].after]
    BY <1>2, <1>4 DEF IsFor, ResolveExistingOrder
  <2>3. \A i \in PaymentLogs(c.key) : i = log
    BY <1>2, <2>1
  <2> HIDE DEF log
  <2> QED
    BY <1>4, <2>2, <2>3 DEF Tells
<1> QED
  BY <1>3, <1>4

\* A step that moves a purchase request is one of its service's.
LEMMA PurchaseServed ==
  ASSUME TypeInv, [EconomyNext]_economyVars, NEW r \in Slots,
         call'[r] \in PurchaseCalls, ~Untouched(r)
  PROVE  \/ \E c \in PurchaseCalls : ReceivePurchase(r, c)
         \/ /\ call'[r] = call[r]
            /\ \/ LookUpKey(r) \/ FindKeyTaken(r) \/ RefusePurchase(r)
               \/ PlaceOrder(r) \/ CollideOnKey(r) \/ RecoverFromCollision(r)
               \/ OrderConflict(r) \/ FailOrderRequest(r)
<1>1. RequestsTyped
  BY DEF TypeInv, EconomyTypeOK, RequestsTyped
<1>2. ~UNCHANGED economyVars
  BY DEF Untouched, economyVars, requestVars
<1>3. \A q \in Slots \ {r} : ~Progress(q)
  BY DEF Progress, OnlySlot
<1>4. Progress(r) /\ OrderStep(r)
  BY <1>1, <1>2, <1>3, OneRequestMoves, ProductProgress, EventProgress,
     ResetProgress, AccessProgress, ServicesApart
<1>5. call'[r] \notin StatusCalls
  BY ServicesApart
<1>6. CASE ReceiveOrderRequest(r)
  BY <1>1, <1>5, <1>6
     DEF ReceiveOrderRequest, ReceiveStatusUpdate, Receive, ReceiveAndRespond,
         RequestsTyped, RequestsTypeOK
<1>7. CASE ServeOrderRequest(r)
  <2>1. call'[r] = call[r]
    BY <1>1, <1>7
       DEF ServeOrderRequest, LookUpKey, FindKeyTaken, RefusePurchase,
           PlaceOrder, CollideOnKey, RecoverFromCollision, AnswerStatusUpdate,
           AdvanceOrder, CancelOrder, CollideOnRefund,
           RecoverFromRefundCollision, OrderConflict, FailOrderRequest,
           RespondAfterCommit, Respond, Goto, RetryAfterConflict
  <2> QED
    BY <1>5, <1>7, <2>1
       DEF ServeOrderRequest, AnswerStatusUpdate, AdvanceOrder, CancelOrder,
           CollideOnRefund, RecoverFromRefundCollision
<1> QED
  BY <1>4, <1>6, <1>7 DEF OrderStep

\* What a purchase was told stays true.
LEMMA ToldStaysTrue ==
  ASSUME TypeInv, PaidOnce, [EconomyNext]_economyVars, NEW r \in Slots,
         call[r] \in PurchaseCalls, PurchaseTold(r), Untouched(r)
  PROVE  PurchaseTold(r)'
<1>1. call[r].key \in Keys
  BY OrdersAssumption DEF PurchaseCall
<1>2. CASE orders[call[r].key] # NoOrder
  BY <1>1, <1>2, OrderLasts DEF PurchaseTold, Untouched, IsFor, Tells
<1>3. CASE orders[call[r].key] = NoOrder
  BY <1>3 DEF PurchaseTold, Untouched, IsFor, Tells
<1> QED
  BY <1>2, <1>3

\* A transaction that commits is answered with its result, or with the failure
\* of a purchase or of a status update.
LEMMA CommitAnswered ==
  ASSUME TypeInv, NEW r \in Slots, NEW a, pc[r] = "tx", RespondAfterCommit(r, a)
  PROVE  /\ call' = call /\ pc'[r] = "done"
         /\ \/ answer'[r] = a
            \/ answer'[r].code = IF call[r] \in PurchaseCalls
                                 THEN "O500_ORDER_CREATE_FAILED"
                                 ELSE "O500_ORDER_STATUS_UPDATE_FAILED"
BY DEF RespondAfterCommit, Respond, Answered, FailureCode, TypeInv, EconomyTypeOK,
       RequestsTypeOK

\* The buyer whose purchase is placed is told what its payment entry says, or
\* that the server failed.
LEMMA PlacedToldTruly ==
  ASSUME TypeInv, PaidOnce, NEW r \in Slots, PlaceOrder(r)
  PROVE  LET c == call[r]
         IN  /\ call'[r] = c /\ pc'[r] = "done"
             /\ orders'[c.key] = NewOrder(c) /\ NewOrder(c) # NoOrder
             /\ \/ answer'[r].code = "O500_ORDER_CREATE_FAILED"
                \/ /\ answer'[r].code = "OK"
                   /\ answer'[r].total = NewOrder(c).total
                   /\ \A i \in DOMAIN tokenLogs'[c.user] :
                        IsPaymentOf(c.key, tokenLogs'[c.user][i]) =>
                          answer'[r].remaining = tokenLogs'[c.user][i].after
<1> DEFINE c == call[r]
           left == tokenBalance[c.user] - products[c.product].price * c.quantity
           entry == PaymentLog(c, left)
           n == Len(tokenLogs[c.user])
<1>1. /\ c \in PurchaseCalls /\ PurchaseRefusal(c) = "none"
      /\ orders[c.key] = NoOrder
  BY DEF PlaceOrder, KeyIsFree
<1>2. /\ c.user \in Users /\ c.key \in Keys
      /\ NewOrder(c) \in Order /\ NewOrder(c) # NoOrder
  BY <1>1, AcceptedPurchase, OrdersAssumption DEF PurchaseCall
<1>3. orders'[c.key] = NewOrder(c)
  BY <1>2 DEF PlaceOrder, TypeInv, EconomyTypeOK, OrdersTypeOK
<1>4. /\ call'[r] = c /\ pc'[r] = "done"
      /\ \/ answer'[r].code = "O500_ORDER_CREATE_FAILED"
         \/ answer'[r] = [code |-> "OK",
                          total |-> products[c.product].price * c.quantity,
                          remaining |-> left]
  BY <1>1, CommitAnswered DEF PlaceOrder
<1>5. tokenLogs'[c.user] = Append(tokenLogs[c.user], entry)
  BY <1>2 DEF PlaceOrder, TypeInv, EconomyTypeOK, DatabaseTypeOK
<1>6. tokenLogs[c.user] \in Seq(TokenLog)
  BY <1>2 DEF TypeInv, EconomyTypeOK, DatabaseTypeOK
<1>7. entry.after = left
  BY DEF PaymentLog
<1>8. \A i \in DOMAIN tokenLogs[c.user] : ~IsPaymentOf(c.key, tokenLogs[c.user][i])
  BY <1>1, <1>2 DEF PaidOnce
<1> HIDE DEF entry
<1>9. \A i \in DOMAIN tokenLogs'[c.user] :
        \/ i \in DOMAIN tokenLogs[c.user] /\ tokenLogs'[c.user][i] = tokenLogs[c.user][i]
        \/ tokenLogs'[c.user][i] = entry
  BY <1>5, <1>6
<1>10. NewOrder(c).total = products[c.product].price * c.quantity
  BY DEF NewOrder
<1> HIDE DEF left, c
<1> QED
  BY <1>2, <1>3, <1>4, <1>7, <1>8, <1>9, <1>10 DEF c

\* Every purchase request is told the truth, step by step.
LEMMA PurchaseToldStep ==
  ASSUME TypeInv, PaidOnce, PurchasesTold, RequestInv, [EconomyNext]_economyVars,
         NEW r \in Slots, call'[r] \in PurchaseCalls
  PROVE  PurchaseTold(r)'
<1> DEFINE c == call[r]
<1>0. pc \in [Slots -> {"idle", "lookup", "tx", "write", "recover", "done"}]
      /\ call = [q \in Slots |-> call[q]] /\ answer = [q \in Slots |-> answer[q]]
  BY DEF TypeInv, EconomyTypeOK, RequestsTypeOK
<1>1. CASE Untouched(r)
  BY <1>1, ToldStaysTrue DEF PurchasesTold, Untouched
<1>2. ASSUME NEW d \in PurchaseCalls, ReceivePurchase(r, d)
      PROVE  PurchaseTold(r)'
  BY <1>0, <1>2 DEF ReceivePurchase, Receive, RequestInv, PurchaseTold, NoAnswer,
                    Answered
<1>3. ASSUME call'[r] = c, PlaceOrder(r)
      PROVE  PurchaseTold(r)'
  <2>1. /\ pc'[r] = "done"
        /\ orders'[c.key] = NewOrder(c) /\ NewOrder(c) # NoOrder
        /\ \/ answer'[r].code = "O500_ORDER_CREATE_FAILED"
           \/ /\ answer'[r].code = "OK"
              /\ answer'[r].total = NewOrder(c).total
              /\ \A i \in DOMAIN tokenLogs'[c.user] :
                   IsPaymentOf(c.key, tokenLogs'[c.user][i]) =>
                     answer'[r].remaining = tokenLogs'[c.user][i].after
    BY <1>3, PlacedToldTruly
  <2>2. /\ NewOrder(c).user = c.user /\ NewOrder(c).product = c.product
        /\ NewOrder(c).quantity = c.quantity
    BY DEF NewOrder
  <2> HIDE DEF c
  <2> QED
    BY <1>3, <2>1, <2>2 DEF PurchaseTold, IsFor, Tells, PaymentLogs, IsPaymentOf
<1>4. ASSUME call'[r] = c,
             LookUpKey(r) \/ FindKeyTaken(r) \/ RefusePurchase(r) \/ CollideOnKey(r)
               \/ RecoverFromCollision(r) \/ OrderConflict(r)
               \/ FailOrderRequest(r)
      PROVE  PurchaseTold(r)'
  <2>1. UNCHANGED <<databaseVars, orderVars>> /\ c \in PurchaseCalls
    BY <1>4, ServicesApart
       DEF LookUpKey, FindKeyTaken, RefusePurchase, CollideOnKey,
           RecoverFromCollision, OrderConflict, FailOrderRequest
  <2>2. orders' = orders /\ tokenLogs' = tokenLogs
    BY <2>1 DEF databaseVars, orderVars
  <2>3. PurchaseTold(r)
    BY <2>1 DEF PurchasesTold
  <2>4. CASE /\ orders[c.key] # NoOrder
             /\ Respond(r, ResolveExistingOrder(c))
    <3>1. pc'[r] = "done" /\ answer'[r] = ResolveExistingOrder(c)
      BY <1>0, <2>4 DEF Respond
    <3>2. \/ IsFor(c) /\ Tells(answer'[r], c.key)
          \/ ~IsFor(c) /\ answer'[r].code = "O409_IDEMPOTENCY_KEY_REUSED"
      BY <2>1, <2>4, <3>1, ResolvedTruly DEF Answered
    <3> HIDE DEF c
    <3>3. CASE IsFor(c) /\ Tells(answer'[r], c.key)
      BY <1>4, <2>2, <2>4, <3>1, <3>3
         DEF PurchaseTold, IsFor, Tells, PaymentLogs, IsPaymentOf
    <3>4. CASE ~IsFor(c) /\ answer'[r].code = "O409_IDEMPOTENCY_KEY_REUSED"
      BY <1>4, <2>2, <2>4, <3>1, <3>4 DEF PurchaseTold, IsFor
    <3> QED
      BY <3>2, <3>3, <3>4
  <2>5. CASE RefusePurchase(r)
    <3>1. pc'[r] = "done" /\ answer'[r].code = PurchaseRefusal(c)
      BY <1>0, <2>5 DEF RefusePurchase, Respond, Answered
    <3>2. PurchaseRefusal(c) # "none"
      BY <2>5 DEF RefusePurchase
    <3>3. PurchaseRefusal(c) \notin {"OK", "O409_IDEMPOTENCY_KEY_REUSED"}
      BY <3>2 DEF PurchaseRefusal
    <3> QED
      BY <3>1, <3>3 DEF PurchaseTold
  <2>6. CASE OrderConflict(r)
    BY <1>0, <1>4, <2>2, <2>3, <2>6
       DEF OrderConflict, RetryAfterConflict, Respond, Answered, PurchaseTold,
           IsFor, Tells, PaymentLogs, IsPaymentOf
  <2>7. CASE LookUpKey(r) /\ Goto(r, "tx")
    BY <1>0, <1>4, <2>3, <2>7 DEF Goto, PurchaseTold
  <2>8. CASE CollideOnKey(r)
    BY <1>0, <1>4, <2>2, <2>3, <2>8 DEF CollideOnKey, Goto, PurchaseTold
  <2>9. RecoverFromCollision(r) => orders[c.key] # NoOrder
    BY <2>3 DEF RecoverFromCollision, PurchaseTold
  <2>10. CASE FailOrderRequest(r)
    BY <1>0, <2>10 DEF FailOrderRequest, FailureCode, Respond, Answered, PurchaseTold
  <2> QED
    BY <1>4, <2>4, <2>5, <2>6, <2>7, <2>8, <2>9, <2>10
       DEF LookUpKey, FindKeyTaken, RecoverFromCollision
<1> QED
  BY <1>1, <1>2, <1>3, <1>4, PurchaseServed

\* What purchases were told is true and stays true.
LEMMA PurchasesToldTruly == EconomySpec => []PurchasesTold
<1>1. EconomyInit => PurchasesTold
  BY OrdersAssumption DEF EconomyInit, RequestsInit, PurchasesTold
<1>2. TypeInv /\ PaidOnce /\ RequestInv /\ PurchasesTold
        /\ [EconomyNext]_economyVars => PurchasesTold'
  BY PurchaseToldStep DEF PurchasesTold
<1> QED
  BY <1>1, <1>2, TypeCorrect, OrdersPaidOnce, RequestsServedOnce, PTL
     DEF EconomySpec

\* A purchase is told what its order cost and what its payment left, also by
\* a late retry; and that its key is taken only when it is.
THEOREM PurchasesAnsweredTruly == EconomySpec => []AnswersTruthful
<1>1. TypeInv /\ PurchasesTold => AnswersTruthful
  BY DEF PurchasesTold, PurchaseTold, IsFor, Tells, AnswersTruthful
<1> QED
  BY <1>1, TypeCorrect, PurchasesToldTruly, PTL

-----------------------------------------------------------------------------
(* Lost races *)

\* A cancelled order stays as it is.
LEMMA CancellationIsFinal ==
  ASSUME TypeInv, [EconomyNext]_economyVars, NEW k \in Keys, IsCanceled(k)
  PROVE  orders'[k] = orders[k]
<1>1. ASSUME NEW r \in Slots, PlaceOrder(r)
      PROVE  orders'[k] = orders[k]
  BY <1>1, PlaceOrderMoves
     DEF PlaceOrder, KeyIsFree, IsCanceled, TypeInv, EconomyTypeOK, OrdersTypeOK
<1>2. ASSUME NEW r \in Slots, AdvanceOrder(r) \/ CancelOrder(r)
      PROVE  orders'[k] = orders[k]
  BY <1>2, StatusChange DEF IsValidOrderStatusTransition, IsCanceled
<1> QED
  BY <1>1, <1>2, OrdersKept

\* A step that moves a status update the server has received is one of its
\* service's.
LEMMA StatusUpdateServed ==
  ASSUME TypeInv, [EconomyNext]_economyVars, NEW r \in Slots,
         call'[r] \in StatusCalls, ~Untouched(r)
  PROVE  OrderStep(r)
<1>1. RequestsTyped
  BY DEF TypeInv, EconomyTypeOK, RequestsTyped
<1>2. ~UNCHANGED economyVars
  BY DEF Untouched, economyVars, requestVars
<1>3. \A q \in Slots \ {r} : ~Progress(q)
  BY DEF Progress, OnlySlot
<1> QED
  BY <1>1, <1>2, <1>3, OneRequestMoves, ProductProgress, EventProgress,
     ResetProgress, AccessProgress, ServicesApart

\* A status update that looks the order up again found its cancellation.
RefundsLost ==
  \A r \in Slots :
    call[r] \in StatusCalls /\ pc[r] = "recover" => IsCanceled(call[r].order)

\* Nothing but a cancellation committed before sends a status update back to
\* the lookup.
LEMMA RefundsAreLost == EconomySpec => []RefundsLost
<1>1. EconomyInit => RefundsLost
  BY DEF EconomyInit, RequestsInit, RefundsLost
<1>2. TypeInv /\ RefundsLost /\ [EconomyNext]_economyVars => RefundsLost'
  <2> SUFFICES ASSUME TypeInv, RefundsLost, [EconomyNext]_economyVars,
                      NEW r \in Slots, call'[r] \in StatusCalls,
                      pc'[r] = "recover"
               PROVE  /\ orders'[call'[r].order] # NoOrder
                      /\ orders'[call'[r].order].status = "CANCELED"
    BY DEF RefundsLost, IsCanceled
  <2>1. call'[r].order \in Keys
    BY OrdersAssumption DEF StatusCall
  <2>2. CASE Untouched(r)
    <3>1. IsCanceled(call'[r].order)
      BY <2>2 DEF Untouched, RefundsLost
    <3> QED
      BY <2>1, <3>1, CancellationIsFinal DEF IsCanceled
  <2>3. CASE ~Untouched(r)
    <3>1. OrderStep(r)
      BY <2>3, StatusUpdateServed
    <3>2. CollideOnRefund(r)
      BY <3>1, ServicesApart
         DEF OrderStep, ReceiveOrderRequest, ReceivePurchase, ReceiveStatusUpdate,
             ServeOrderRequest, LookUpKey, FindKeyTaken, RefusePurchase,
             PlaceOrder, CollideOnKey, RecoverFromCollision, AnswerStatusUpdate,
             AdvanceOrder, CancelOrder, RecoverFromRefundCollision, OrderConflict,
             FailOrderRequest, RespondAfterCommit, Receive, ReceiveAndRespond,
             Respond, Goto, RetryAfterConflict, TypeInv, EconomyTypeOK,
             RequestsTypeOK
    <3> QED
      BY <3>2 DEF CollideOnRefund, Goto, orderVars
  <2> QED
    BY <2>2, <2>3
<1> QED
  BY <1>1, <1>2, TypeCorrect, PTL DEF EconomySpec

\* A purchase that looks the winner up is answered from its order.
LEMMA LostPurchaseAnswered ==
  ASSUME TypeInv, PaidOnce, PurchasesTold, [EconomyNext]_economyVars,
         NEW r \in Slots, call[r] \in PurchaseCalls,
         pc[r] = "recover", pc'[r] = "done", answer'[r].code # "HTTP_500"
  PROVE  answer'[r].code \in {"OK", "O409_IDEMPOTENCY_KEY_REUSED"}
<1>1. answer = [q \in Slots |-> answer[q]] /\ ~Untouched(r) /\ RequestsTyped
  BY DEF Untouched, TypeInv, EconomyTypeOK, RequestsTypeOK, RequestsTyped
<1>2. call'[r] = call[r]
  BY <1>1, OneRequestMoves DEF Progress, OnlySlot, Untouched, economyVars, requestVars
<1>3. RecoverFromCollision(r) \/ FailOrderRequest(r)
  BY <1>1, <1>2, PurchaseServed
     DEF ReceivePurchase, Receive, LookUpKey, FindKeyTaken, RefusePurchase,
         PlaceOrder, CollideOnKey, OrderConflict, RetryAfterConflict
<1>4. ~FailOrderRequest(r)
  BY <1>1 DEF FailOrderRequest, FailureCode, Respond, Answered
<1>5. orders[call[r].key] # NoOrder
  BY DEF PurchasesTold, PurchaseTold
<1>6. answer'[r] = ResolveExistingOrder(call[r])
  BY <1>1, <1>3, <1>4, <1>5 DEF RecoverFromCollision, Respond
<1> QED
  BY <1>5, <1>6, ResolvedTruly DEF Tells, Answered

\* A cancellation that lost to the same one is answered with success.
LEMMA LostCancellationAnswered ==
  ASSUME TypeInv, RefundsLost, [EconomyNext]_economyVars,
         NEW r \in Slots, call[r] \in StatusCalls,
         orders[call[r].order].reason = call[r].reason,
         pc[r] = "recover", pc'[r] = "done", answer'[r].code # "HTTP_500"
  PROVE  answer'[r].code = "OK"
<1>1. answer = [q \in Slots |-> answer[q]] /\ ~Untouched(r) /\ RequestsTyped
  BY DEF Untouched, TypeInv, EconomyTypeOK, RequestsTypeOK, RequestsTyped
<1>2. call'[r] = call[r]
  BY <1>1, OneRequestMoves DEF Progress, OnlySlot, Untouched, economyVars, requestVars
<1>3. OrderStep(r)
  BY <1>1, <1>2, StatusUpdateServed
<1>4. RecoverFromRefundCollision(r) \/ FailOrderRequest(r)
  BY <1>3, ServicesApart
     DEF OrderStep, ReceiveOrderRequest, ReceivePurchase, ReceiveStatusUpdate,
         ServeOrderRequest, LookUpKey, FindKeyTaken, RefusePurchase, PlaceOrder,
         CollideOnKey, RecoverFromCollision, AnswerStatusUpdate, AdvanceOrder,
         CancelOrder, CollideOnRefund, OrderConflict, Receive, ReceiveAndRespond,
         RetryAfterConflict
<1>5. ~FailOrderRequest(r)
  BY <1>1 DEF FailOrderRequest, FailureCode, Respond, Answered
<1>6. orders[call[r].order].status = "CANCELED"
  BY DEF RefundsLost, IsCanceled
<1> QED
  BY <1>1, <1>4, <1>5, <1>6 DEF RecoverFromRefundCollision, Respond, Answered

\* Whoever loses a race for a key or a refund is answered as the winner was.
THEOREM LosersAnswered == EconomySpec => CollisionsRecovered
<1>1. TypeInv /\ PaidOnce /\ PurchasesTold /\ RefundsLost
        /\ [EconomyNext]_economyVars =>
        [\A r \in Slots :
           pc[r] = "recover" /\ pc'[r] = "done" /\ answer'[r].code # "HTTP_500" =>
             LET c == call[r]
             IN  /\ c \in PurchaseCalls =>
                      answer'[r].code \in {"OK", "O409_IDEMPOTENCY_KEY_REUSED"}
                 /\ c \in StatusCalls /\ orders[c.order].reason = c.reason =>
                      answer'[r].code = "OK"
        ]_ordersAllVars
  BY LostPurchaseAnswered, LostCancellationAnswered
<1> QED
  BY <1>1, TypeCorrect, OrdersPaidOnce, PurchasesToldTruly, RefundsAreLost, PTL
     DEF EconomySpec, CollisionsRecovered

-----------------------------------------------------------------------------
(* The promise to the clients *)

\* What the clients see of an order changes only in its phase, and only when
\* a status update changes it.
LEMMA DealLasts ==
  ASSUME TypeInv, PaidOnce, [EconomyNext]_economyVars,
         NEW k \in Keys, orders[k] # NoOrder
  PROVE  /\ DealOf(k)' = [DealOf(k) EXCEPT !.phase = DealOf(k)'.phase]
         /\ orders'[k].status = orders[k].status => DealOf(k)' = DealOf(k)
<1> DEFINE u == orders[k].user
           log == CHOOSE i \in PaymentLogs(k) : TRUE
<1>1. /\ orders'[k].user = orders[k].user
      /\ orders'[k].product = orders[k].product
      /\ orders'[k].quantity = orders[k].quantity
      /\ orders'[k].total = orders[k].total
      /\ PaymentLogs(k)' = PaymentLogs(k)
      /\ \A i \in PaymentLogs(k) : tokenLogs'[u][i] = tokenLogs[u][i]
  BY OrderLasts
<1>2. log \in PaymentLogs(k)
  BY OnePayment
<1>3. log' = log
  BY <1>1
<1>4. tokenLogs'[u'][log'].after = tokenLogs[u][log].after
  BY <1>1, <1>2, <1>3
<1> QED
  BY <1>1, <1>4 DEF DealOf

\* The orders that exist.
Placed == {k \in Keys : orders[k] # NoOrder}

\* Steps that write no order keep the deals.
LEMMA DealsKept ==
  ASSUME TypeInv, PaidOnce, [EconomyNext]_economyVars, orders' = orders
  PROVE  Deals' = Deals
<1>1. \A k \in Placed : DealOf(k)' = DealOf(k)
  BY DealLasts DEF Placed
<1>2. Placed' = Placed
  BY DEF Placed
<1> QED
  BY <1>1, <1>2 DEF Deals, Placed

\* A status update settles a deal or leaves it open.
LEMMA StatusUpdateSettles ==
  ASSUME TypeInv, PaidOnce, [EconomyNext]_economyVars, NEW r \in Slots,
         AdvanceOrder(r) \/ CancelOrder(r)
  PROVE  \/ Deals' = Deals
         \/ \E k \in DOMAIN Deals :
              /\ Deals[k].phase = "open"
              /\ \E end \in {"delivered", "canceled"} :
                   Deals' = [Deals EXCEPT ![k].phase = end]
<1> PICK k \in Keys : k = call[r].order
  BY StatusChange
<1> DEFINE c == call[r]
<1>1. /\ c \in StatusCall
      /\ IsValidOrderStatusTransition(orders[k].status, c.target)
      /\ orders[k] \in Order /\ orders[k] # NoOrder
      /\ orders'[k] = UpdatedOrder(c)
      /\ \A x \in Keys \ {k} : orders'[x] = orders[x]
  BY StatusChange
<1>2. orders'[k].status = c.target
  BY <1>1 DEF UpdatedOrder, Order
<1> HIDE DEF c
<1>3. Placed' = Placed
  BY StatusChangeKeepsTerms DEF Placed
<1>4. \A x \in Placed \ {k} : DealOf(x)' = DealOf(x)
  BY <1>1, DealLasts DEF Placed
<1>5. DealOf(k)' = [DealOf(k) EXCEPT !.phase = DealOf(k)'.phase]
  BY <1>1, DealLasts
<1>6. DealOf(k).phase = "open"
  BY <1>1 DEF DealOf, IsValidOrderStatusTransition
<1>7. CASE c.target = "ACCEPTED"
  <2>1. DealOf(k)'.phase = "open"
    BY <1>2, <1>7 DEF DealOf
  <2>2. DealOf(k)' = DealOf(k)
    BY <1>5, <1>6, <2>1 DEF DealOf
  <2> QED
    BY <1>3, <1>4, <2>2 DEF Deals, Placed
<1>8. CASE c.target # "ACCEPTED"
  <2> DEFINE end == DealOf(k)'.phase
  <2>1. end \in {"delivered", "canceled"}
    BY <1>1, <1>2, <1>8 DEF DealOf, StatusCall, TargetStatuses
  <2>2. k \in Placed
    BY <1>1 DEF Placed
  <2> HIDE DEF end
  <2>3. Deals' = [Deals EXCEPT ![k].phase = end]
    BY <1>3, <1>4, <1>5, <2>2 DEF Deals, Placed, end
  <2>4. DOMAIN Deals = Placed /\ Deals[k] = DealOf(k)
    BY <2>2 DEF Deals, Placed
  <2> QED
    BY <1>6, <2>1, <2>2, <2>3, <2>4
<1> QED
  BY <1>7, <1>8

\* A purchase strikes one deal and leaves the others alone.
LEMMA PurchaseStrikes ==
  ASSUME TypeInv, PaidOnce, PaidOnce', [EconomyNext]_economyVars, NEW r \in Slots,
         PlaceOrder(r)
  PROVE  LET c == call[r]
             d == Deals'[c.key]
         IN  /\ c.key \notin DOMAIN Deals
             /\ DOMAIN Deals' = DOMAIN Deals \cup {c.key}
             /\ \A k \in DOMAIN Deals : Deals'[k] = Deals[k]
             /\ d.user = c.user /\ d.product = c.product
             /\ d.quantity = c.quantity /\ d.phase = "open"
             /\ \/ answer'[r].code = "O500_ORDER_CREATE_FAILED"
                \/ answer'[r] = [code |-> "OK", total |-> d.total,
                                 remaining |-> d.left]
<1> DEFINE c == call[r]
<1>1. /\ orders[c.key] = NoOrder /\ c.key \in Keys
      /\ \A k \in Keys \ {c.key} : orders'[k] = orders[k]
  BY PlaceOrderMoves DEF PlaceOrder, KeyIsFree, TypeInv, EconomyTypeOK, OrdersTypeOK
<1>2. /\ orders'[c.key] = NewOrder(c) /\ NewOrder(c) # NoOrder
      /\ \/ answer'[r].code = "O500_ORDER_CREATE_FAILED"
         \/ /\ answer'[r].code = "OK"
            /\ answer'[r].total = NewOrder(c).total
            /\ \A i \in DOMAIN tokenLogs'[c.user] :
                 IsPaymentOf(c.key, tokenLogs'[c.user][i]) =>
                   answer'[r].remaining = tokenLogs'[c.user][i].after
  BY PlacedToldTruly
<1>3. /\ NewOrder(c).user = c.user /\ NewOrder(c).product = c.product
      /\ NewOrder(c).quantity = c.quantity /\ NewOrder(c).status = "ORDERED"
  BY DEF NewOrder
<1>4. \E a, b, d : answer'[r] = [code |-> a, total |-> b, remaining |-> d]
  <2>1. answer'[r] \in EconomyAnswer
    BY TypeNext DEF TypeInv, EconomyTypeOK, RequestsTypeOK, EconomyAnswer
  <2> QED
    BY <2>1 DEF EconomyAnswer, Answer
<1>5. Placed' = Placed \cup {c.key} /\ c.key \notin Placed
  <2> PICK key \in Keys : key = c.key
    BY <1>1
  <2> HIDE DEF c
  <2> QED
    BY <1>1, <1>2 DEF Placed
<1>6. \A k \in Placed : DealOf(k)' = DealOf(k)
  BY <1>1, DealLasts DEF Placed
<1>7. PICK key \in Keys : key = c.key
  BY <1>1
<1>8. /\ DealOf(key)'.user = c.user /\ DealOf(key)'.product = c.product
      /\ DealOf(key)'.quantity = c.quantity /\ DealOf(key)'.phase = "open"
      /\ DealOf(key)'.total = NewOrder(c).total
  <2> HIDE DEF c
  <2> QED
    BY <1>2, <1>3, <1>7 DEF DealOf
<1>9. answer'[r].code # "O500_ORDER_CREATE_FAILED" =>
        DealOf(key)'.left = answer'[r].remaining
  <2> DEFINE log == CHOOSE i \in PaymentLogs(key)' : TRUE
  <2>1. PaymentLogs(key)' # {}
    <3>1. \E i \in DOMAIN tokenLogs'[orders'[key].user] :
            IsPaymentOf(key, tokenLogs'[orders'[key].user][i])
      BY <1>2, <1>7 DEF PaidOnce, IsPaymentOf
    <3> QED
      BY <3>1 DEF PaymentLogs, IsPaymentOf
  <2>2. log \in PaymentLogs(key)'
    BY <2>1
  <2>3. /\ log \in DOMAIN tokenLogs'[c.user]
        /\ IsPaymentOf(c.key, tokenLogs'[c.user][log])
        /\ orders'[key].user = c.user
    BY <1>2, <1>3, <1>7, <2>2 DEF PaymentLogs, IsPaymentOf
  <2>4. DealOf(key)'.left = tokenLogs'[orders'[key].user][log].after
    BY DEF DealOf
  <2> HIDE DEF log, c
  <2> QED
    BY <1>2, <2>3, <2>4
<1>10. /\ DOMAIN Deals = Placed /\ DOMAIN Deals' = Placed'
       /\ \A k \in Placed : Deals[k] = DealOf(k)
       /\ \A k \in Placed' : Deals'[k] = DealOf(k)'
  BY DEF Deals, Placed
<1> HIDE DEF c
<1> QED
  BY <1>2, <1>4, <1>5, <1>6, <1>7, <1>8, <1>9, <1>10 DEF c

\* Request q is being served: nothing but its answer changes for the clients.
LEMMA OnlyTold ==
  ASSUME TypeInv, NEW q \in Slots, OnlySlot(q), call'[q] = call[q],
         call[q] \in PurchaseCalls, TypeInv'
  PROVE  Asked' = Asked /\ Told' = [Told EXCEPT ![q] = answer'[q]]
<1>1. \A r \in Slots \ {q} : call'[r] = call[r] /\ answer'[r] = answer[r]
  BY DEF OnlySlot, Untouched
<1>2. Asked' = Asked
  BY <1>1 DEF Asked, IsPurchase
<1>3. Told' = [Told EXCEPT ![q] = answer'[q]]
  BY <1>1 DEF Told, IsPurchase
<1> QED
  BY <1>2, <1>3

\* A request that is no purchase is not the clients' concern.
LEMMA OtherRequestsHidden ==
  ASSUME TypeInv, RequestInv, NEW q \in Slots, Progress(q),
         call'[q] \notin PurchaseCalls
  PROVE  Asked' = Asked /\ Told' = Told
<1>1. \A r \in Slots \ {q} : call'[r] = call[r] /\ answer'[r] = answer[r]
  BY DEF Progress, OnlySlot, Untouched
<1>2. call[q] \notin PurchaseCalls
  BY OrdersAssumption DEF Progress, RequestInv
<1> QED
  BY <1>1, <1>2 DEF Asked, Told, IsPurchase

\* A purchase that is received is asked for.
LEMMA ReceivedIsAsked ==
  ASSUME TypeInv, RequestInv, NEW q \in Slots, NEW c \in PurchaseCalls,
         ReceivePurchase(q, c)
  PROVE  /\ Asked[q] = NoCall /\ Asked' = [Asked EXCEPT ![q] = c]
         /\ Told' = Told
<1>1. /\ pc[q] = "idle" /\ call' = [call EXCEPT ![q] = c] /\ answer' = answer
      /\ call \in [Slots -> EconomyCalls \cup {NoCall}]
  BY DEF ReceivePurchase, Receive, TypeInv, EconomyTypeOK, RequestsTypeOK
<1>2. call[q] = NoCall /\ answer[q] = NoAnswer
  BY <1>1 DEF RequestInv
<1>3. NoCall \notin PurchaseCalls
  BY OrdersAssumption
<1>4. call'[q] = c /\ \A r \in Slots \ {q} : call'[r] = call[r]
  BY <1>1
<1>5. Asked[q] = NoCall /\ Asked' = [Asked EXCEPT ![q] = c]
  <2>1. Asked[q] = NoCall
    BY <1>2, <1>3 DEF Asked, IsPurchase
  <2>2. /\ Asked' = [r \in Slots |-> IF call'[r] \in PurchaseCalls THEN call'[r]
                                     ELSE NoCall]
        /\ Asked = [r \in Slots |-> IF call[r] \in PurchaseCalls THEN call[r]
                                    ELSE NoCall]
    BY DEF Asked, IsPurchase
  <2>3. /\ Asked'[q] = c
        /\ \A r \in Slots \ {q} : Asked'[r] = Asked[r]
    BY <1>4, <2>2
  <2> QED
    BY <2>1, <2>2, <2>3
<1>6. Told' = Told
  BY <1>1, <1>2, <1>3, <1>4 DEF Told, IsPurchase, NoAnswer, Answered
<1> QED
  BY <1>5, <1>6

\* A served purchase is told the deal its key names, or refused.
LEMMA ServedKeepsPromise ==
  ASSUME TypeInv, TypeInv', PaidOnce, PaidOnce', RequestInv, PurchasesTold,
         [EconomyNext]_economyVars, NEW q \in Slots, OnlySlot(q),
         call'[q] = call[q],
         LookUpKey(q) \/ FindKeyTaken(q) \/ RefusePurchase(q) \/ PlaceOrder(q)
           \/ CollideOnKey(q) \/ RecoverFromCollision(q) \/ OrderConflict(q)
           \/ FailOrderRequest(q),
         call[q] \in PurchaseCalls
  PROVE  [Promise!Next]_(Promise!vars)
<1> DEFINE c == call[q]
<1>0. /\ c.key \in Keys /\ c # NoCall
      /\ pc \in [Slots -> {"idle", "lookup", "tx", "write", "recover", "done"}]
      /\ answer = [r \in Slots |-> answer[r]]
  BY OrdersAssumption DEF PurchaseCall, TypeInv, EconomyTypeOK, RequestsTypeOK
<1>1. pc[q] \in {"lookup", "tx", "recover"}
  BY DEF LookUpKey, FindKeyTaken, RefusePurchase, PlaceOrder, CollideOnKey,
         RecoverFromCollision, OrderConflict, FailOrderRequest, RetryAfterConflict
<1>2. Asked[q] = c /\ Told[q] = NoAnswer
  BY <1>1 DEF Asked, Told, IsPurchase, RequestInv
<1>3. Promise!Pending(q)
  BY <1>0, <1>2 DEF Promise!Pending
<1>4. Asked' = Asked /\ Told' = [Told EXCEPT ![q] = answer'[q]] /\ Told'[q] = answer'[q]
  BY OnlyTold DEF Told, IsPurchase
<1>5. Promise!Tell(q, answer'[q])
  BY <1>4 DEF Promise!Tell
<1>6. /\ c.key \in DOMAIN Deals <=> orders[c.key] # NoOrder
      /\ orders[c.key] # NoOrder => Deals[c.key] = DealOf(c.key)
  BY <1>0 DEF Deals
<1>7. CASE PlaceOrder(q)
  <2> DEFINE d == Deals'[c.key]
  <2>1. /\ c.key \notin DOMAIN Deals
        /\ DOMAIN Deals' = DOMAIN Deals \cup {c.key}
        /\ \A k \in DOMAIN Deals : Deals'[k] = Deals[k]
        /\ d.user = c.user /\ d.product = c.product
        /\ d.quantity = c.quantity /\ d.phase = "open"
        /\ \/ answer'[q].code = "O500_ORDER_CREATE_FAILED"
           \/ answer'[q] = [code |-> "OK", total |-> d.total, remaining |-> d.left]
    BY <1>7, PurchaseStrikes
  <2> HIDE DEF d
  <2>2. \/ Promise!Tell(q, Promise!Receipt(d))
        \/ Told'[q].code \in Promise!Failures /\ Promise!Tell(q, Told'[q])
    BY <1>4, <1>5, <2>1 DEF Promise!Receipt, Promise!Failures
  <2>3. Promise!Strike(q)
    BY <1>2, <1>3, <2>1, <2>2 DEF Promise!Strike, Promise!IsFor, d
  <2> QED
    BY <2>3 DEF Promise!Next
<1>8. CASE LookUpKey(q) \/ FindKeyTaken(q) \/ RefusePurchase(q)
             \/ CollideOnKey(q) \/ RecoverFromCollision(q) \/ OrderConflict(q)
             \/ FailOrderRequest(q)
  <2>1. Deals' = Deals
    BY <1>8, DealsKept
       DEF LookUpKey, FindKeyTaken, RefusePurchase, CollideOnKey,
           RecoverFromCollision, OrderConflict, FailOrderRequest, orderVars
  <2>2. CASE answer' = answer
    <3>1. Told' = Told
      BY <1>2, <1>4, <2>2 DEF Told, RequestInv, IsPurchase
    <3> QED
      BY <1>4, <2>1, <3>1 DEF Promise!vars
  <2>3. CASE /\ orders[c.key] # NoOrder
             /\ Respond(q, ResolveExistingOrder(c))
    <3>1. answer'[q] = ResolveExistingOrder(c)
      BY <1>0, <2>3 DEF Respond
    <3>2. CASE ~IsFor(c)
      <4>1. answer'[q].code = "O409_IDEMPOTENCY_KEY_REUSED"
        BY <3>1, <3>2 DEF ResolveExistingOrder, IsFor, Answered
      <4>2. ~Promise!IsFor(Deals[c.key], c)
        BY <1>6, <2>3, <3>2 DEF IsFor, Promise!IsFor, DealOf
      <4>3. Promise!Refuse(q)
        BY <1>2, <1>3, <1>4, <1>5, <1>6, <2>1, <2>3, <4>1, <4>2 DEF Promise!Refuse
      <4> QED
        BY <4>3 DEF Promise!Next
    <3>3. CASE IsFor(c)
      <4>1. PaymentLogs(c.key) # {}
        BY <1>0, <2>3, OnePayment
      <4>2. answer'[q] = Promise!Receipt(DealOf(c.key))
        BY <3>1, <3>3, <4>1 DEF ResolveExistingOrder, IsFor, Promise!Receipt, DealOf
      <4>3. Promise!IsFor(Deals[c.key], c)
        BY <1>6, <2>3, <3>3 DEF IsFor, Promise!IsFor, DealOf
      <4>4. Promise!Repeat(q)
        BY <1>2, <1>3, <1>5, <1>6, <2>1, <2>3, <4>2, <4>3 DEF Promise!Repeat
      <4> QED
        BY <4>4 DEF Promise!Next
    <3> QED
      BY <3>2, <3>3
  <2>4. CASE RefusePurchase(q)
    <3>1. answer'[q].code = PurchaseRefusal(c) /\ PurchaseRefusal(c) # "none"
      BY <1>0, <2>4 DEF RefusePurchase, Respond, Answered
    <3>2. PurchaseRefusal(c) \notin {"OK", "O409_IDEMPOTENCY_KEY_REUSED"}
      BY <3>1 DEF PurchaseRefusal
    <3>3. orders[c.key] = NoOrder
      BY <2>4 DEF RefusePurchase
    <3>4. Promise!Refuse(q)
      BY <1>2, <1>3, <1>4, <1>5, <1>6, <2>1, <3>1, <3>2, <3>3 DEF Promise!Refuse
    <3> QED
      BY <3>4 DEF Promise!Next
  <2>5. CASE OrderConflict(q) /\ answer' # answer
    <3>1. answer'[q].code = "O409_ORDER_CONCURRENT_UPDATE"
      BY <1>0, <2>5 DEF OrderConflict, RetryAfterConflict, Respond, Answered
    <3>2. Promise!Refuse(q)
      BY <1>2, <1>3, <1>4, <1>5, <2>1, <3>1 DEF Promise!Refuse
    <3> QED
      BY <3>2 DEF Promise!Next
  <2>6. RecoverFromCollision(q) => orders[c.key] # NoOrder
    BY DEF RecoverFromCollision, PurchasesTold, PurchaseTold
  <2>7. CASE FailOrderRequest(q)
    <3>1. answer'[q].code \in Promise!Failures
      BY <1>0, <2>7
         DEF FailOrderRequest, FailureCode, Respond, Answered, Promise!Failures
    <3>2. Promise!Refuse(q)
      BY <1>2, <1>3, <1>4, <1>5, <2>1, <3>1 DEF Promise!Refuse, Promise!Failures
    <3> QED
      BY <3>2 DEF Promise!Next
  <2> QED
    BY <1>8, <2>2, <2>3, <2>4, <2>5, <2>6, <2>7
       DEF LookUpKey, FindKeyTaken, CollideOnKey, RecoverFromCollision, Goto
<1> QED
  BY <1>7, <1>8

\* Every step of the shop is a step of the promise, or none.
LEMMA PromiseStep ==
  ASSUME TypeInv, PaidOnce, RequestInv, PurchasesTold,
         TypeInv', PaidOnce', [EconomyNext]_economyVars
  PROVE  [Promise!Next]_(Promise!vars)
<1>1. CASE UNCHANGED economyVars
  <2>1. orders' = orders /\ call' = call /\ answer' = answer
    BY <1>1 DEF economyVars, orderVars, requestVars
  <2>2. Asked' = Asked /\ Told' = Told
    BY <2>1 DEF Asked, Told, IsPurchase
  <2> QED
    BY <2>1, <2>2, DealsKept DEF Promise!vars
<1>2. ASSUME NEW q \in Slots, Progress(q), call'[q] \notin PurchaseCalls
      PROVE  [Promise!Next]_(Promise!vars)
  <2>1. Asked' = Asked /\ Told' = Told
    BY <1>2, OtherRequestsHidden
  <2>2. ASSUME NEW r \in Slots, PlaceOrder(r)
        PROVE  FALSE
    <3>1. call'[r] = call[r] /\ call[r] \in PurchaseCalls /\ pc'[r] # pc[r]
      BY <2>2, CommitAnswered DEF PlaceOrder
    <3> QED
      BY <1>2, <3>1 DEF Progress, OnlySlot, Untouched
  <2>3. CASE orders' = orders
    BY <2>1, <2>3, DealsKept DEF Promise!vars
  <2>4. ASSUME NEW r \in Slots, AdvanceOrder(r) \/ CancelOrder(r)
        PROVE  [Promise!Next]_(Promise!vars)
    BY <2>1, <2>4, StatusUpdateSettles DEF Promise!Next, Promise!Settle, Promise!vars
  <2> QED
    BY <2>2, <2>3, <2>4, OrdersKept
<1>3. ASSUME NEW q \in Slots, Progress(q), call'[q] \in PurchaseCalls
      PROVE  [Promise!Next]_(Promise!vars)
  <2>1. OnlySlot(q)
    BY <1>3 DEF Progress
  <2>2. ASSUME NEW c \in PurchaseCalls, ReceivePurchase(q, c)
        PROVE  [Promise!Next]_(Promise!vars)
    <3>1. Asked[q] = NoCall /\ Asked' = [Asked EXCEPT ![q] = c] /\ Told' = Told
      BY <2>2, ReceivedIsAsked
    <3>2. Deals' = Deals
      BY <2>2, DealsKept DEF ReceivePurchase, orderVars
    <3> QED
      BY <3>1, <3>2 DEF Promise!Next, Promise!Ask
  <2>3. CASE /\ call'[q] = call[q]
             /\ LookUpKey(q) \/ FindKeyTaken(q) \/ RefusePurchase(q)
                  \/ PlaceOrder(q) \/ CollideOnKey(q)
                  \/ RecoverFromCollision(q) \/ OrderConflict(q)
                  \/ FailOrderRequest(q)
    BY <1>3, <2>1, <2>3, ServedKeepsPromise
  <2>4. CASE Untouched(q)
    <3>1. pc' = pc /\ call' = call /\ answer' = answer
      BY <2>1, <2>4 DEF OnlySlot, Untouched, TypeInv, EconomyTypeOK, RequestsTypeOK
    <3>2. Asked' = Asked /\ Told' = Told
      BY <3>1 DEF Asked, Told, IsPurchase
    <3>3. \A r \in Slots : ~PlaceOrder(r)
      BY <3>1, CommitAnswered DEF PlaceOrder
    <3>4. \A r \in Slots : ~AdvanceOrder(r) /\ ~CancelOrder(r)
      BY <3>1, CommitAnswered DEF AdvanceOrder, CancelOrder
    <3>5. orders' = orders
      BY <3>3, <3>4, OrdersKept
    <3> QED
      BY <3>2, <3>5, DealsKept DEF Promise!vars
  <2> QED
    BY <1>3, <2>2, <2>3, <2>4, PurchaseServed
<1>4. RequestsTyped
  BY DEF TypeInv, EconomyTypeOK, RequestsTyped
<1> QED
  BY <1>1, <1>2, <1>3, <1>4, OneRequestMoves

\* Whatever else the shop does, it keeps its promise to the clients.
THEOREM ShopKeepsPromise == EconomySpec => KeepsPurchasePromise
<1>1. EconomyInit => Promise!Init
  <2> SUFFICES ASSUME EconomyInit PROVE Promise!Init
    OBVIOUS
  <2>1. /\ \A r \in Slots : call[r] = NoCall /\ answer[r] = NoAnswer
        /\ \A k \in Keys : orders[k] = NoOrder
    BY DEF EconomyInit, RequestsInit, OrdersInit
  <2>2. Asked = [r \in Slots |-> NoCall] /\ Told = [r \in Slots |-> NoAnswer]
    BY <2>1 DEF Asked, Told, IsPurchase
  <2>3. DOMAIN Deals = {}
    BY <2>1 DEF Deals
  <2> QED
    BY <2>2, <2>3 DEF Promise!Init
<1>2. TypeInv /\ PaidOnce /\ RequestInv /\ PurchasesTold /\ TypeInv' /\ PaidOnce'
        /\ [EconomyNext]_economyVars => [Promise!Next]_(Promise!vars)
  BY PromiseStep
<1> QED
  BY <1>1, <1>2, TypeCorrect, OrdersPaidOnce, RequestsServedOnce,
     PurchasesToldTruly, PTL
     DEF EconomySpec, KeepsPurchasePromise, Promise!Spec

=============================================================================
