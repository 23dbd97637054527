---------------------------- MODULE EconomyProofs ----------------------------
(***************************************************************************)
(* The safety of the token shop, for any numbers of users, products, keys, *)
(* events and requests: the ledger explains every balance, an order is     *)
(* paid once and refunded at most once, and prices stay what orders paid.  *)
(*                                                                         *)
(* Each invariant is inductive together with the type invariant.  The      *)
(* proofs share one classification of the shop's steps by what they write  *)
(* to orders, ledger and products (EconomyStep).                           *)
(***************************************************************************)
EXTENDS EconomyTypeProofs

\* The balance of user u moves by one entry of a type in T that starts where
\* the balance was and ends where it is, in the direction of its type.
MovesByEntry(u, T) ==
  \E entry \in TokenLog :
    /\ entry.type \in T
    /\ entry.before = tokenBalance[u]
    /\ entry.after = tokenBalance'[u]
    /\ entry.after = entry.before + entry.delta
    /\ Ledger!DirectionFits(entry)
    /\ tokenLogs'[u] = Append(tokenLogs[u], entry)

\* Every ledger either stays or moves by one entry of a type in T.
LedgerMoves(T) ==
  \A u \in Users :
    \/ tokenBalance'[u] = tokenBalance[u] /\ tokenLogs'[u] = tokenLogs[u]
    \/ MovesByEntry(u, T)

\* A step writes no order, no ledger and no product.
WritesNoMoney == UNCHANGED <<orders, ledgerVars, products>>

\* The steps of the shop, by what they write.
LEMMA EconomyStep ==
  ASSUME [EconomyNext]_economyVars
  PROVE  \/ \E r \in Slots : PlaceOrder(r)
         \/ \E r \in Slots : AdvanceOrder(r)
         \/ \E r \in Slots : CancelOrder(r)
         \/ \E r \in Slots : (CreateProduct(r) \/ UpdateProduct(r))
         \/ \E r \in Slots : SaveGrants(r) /\ UNCHANGED orderVars
         \/ \E r \in Slots : ResetTokenBalances(r) /\ UNCHANGED orderVars
         \/ WritesNoMoney
<1>1. CASE OrdersNext /\ UNCHANGED <<eventVars, accessRead>>
  <2> PICK r \in Slots : ReceiveOrderRequest(r) \/ ServeOrderRequest(r)
    BY <1>1 DEF OrdersNext
  <2>1. CASE ReceiveOrderRequest(r)
    BY <2>1 DEF ReceiveOrderRequest, ReceivePurchase, ReceiveStatusUpdate,
                WritesNoMoney, databaseVars, orderVars, ledgerVars
  <2>2. CASE \/ LookUpKey(r) \/ FindKeyTaken(r) \/ RefusePurchase(r)
             \/ CollideOnKey(r) \/ RecoverFromCollision(r)
             \/ AnswerStatusUpdate(r) \/ CollideOnRefund(r)
             \/ RecoverFromRefundCollision(r) \/ OrderConflict(r)
             \/ FailOrderRequest(r)
    BY <2>2 DEF LookUpKey, FindKeyTaken, RefusePurchase, CollideOnKey,
                RecoverFromCollision, AnswerStatusUpdate, CollideOnRefund,
                RecoverFromRefundCollision, OrderConflict, FailOrderRequest,
                WritesNoMoney, databaseVars, orderVars, ledgerVars
  <2> QED
    BY <2>1, <2>2 DEF ServeOrderRequest
<1>2. CASE ProductsNext
  <2> PICK r \in Slots : \/ \E c \in ProductCalls : ReceiveProductCall(r, c)
                         \/ RefuseProductCall(r)
                         \/ CreateProduct(r)
                         \/ UpdateProduct(r)
                         \/ ProductConflict(r)
    BY <1>2 DEF ProductsNext
  <2>1. CASE \/ \E c \in ProductCalls : ReceiveProductCall(r, c)
             \/ RefuseProductCall(r)
             \/ ProductConflict(r)
    BY <2>1 DEF ReceiveProductCall, RefuseProductCall, ProductConflict,
                WritesNoMoney, databaseVars, orderVars, ledgerVars
  <2> QED
    BY <2>1
<1>3. CASE TokenEventsNext /\ UNCHANGED <<orderVars, accessRead>>
  <2> PICK r \in Slots : \/ ReceiveTokenEventRequest(r)
                         \/ ServeTokenEventRequest(r)
    BY <1>3 DEF TokenEventsNext
  <2>1. CASE ReceiveTokenEventRequest(r)
    BY <1>3, <2>1
       DEF ReceiveTokenEventRequest, CreateEvent, ReceiveEventCall,
           ReceiveGrants, WritesNoMoney, databaseVars, orderVars, ledgerVars
  <2>2. CASE \/ AnswerEventCall(r) \/ RenameEvent(r) \/ DeleteEvent(r)
             \/ RefuseGrants(r) \/ OverflowGrants(r) \/ TokenEventConflict(r)
    BY <1>3, <2>2
       DEF AnswerEventCall, RenameEvent, DeleteEvent, RefuseGrants,
           OverflowGrants, TokenEventConflict, WritesNoMoney, databaseVars,
           orderVars, ledgerVars
  <2> QED
    BY <1>3, <2>1, <2>2 DEF ServeTokenEventRequest
<1>4. CASE TokenBalancesNext /\ UNCHANGED <<orderVars, eventVars, accessRead>>
  <2> PICK r \in Slots : \/ \E c \in ResetCalls : ReceiveReset(r, c)
                         \/ ResetNothing(r)
                         \/ ResetTokenBalances(r)
                         \/ ResetConflict(r)
    BY <1>4 DEF TokenBalancesNext
  <2>1. CASE \/ \E c \in ResetCalls : ReceiveReset(r, c)
             \/ ResetNothing(r)
             \/ ResetConflict(r)
    BY <1>4, <2>1 DEF ReceiveReset, ResetNothing, ResetConflict, WritesNoMoney,
                      databaseVars, orderVars, ledgerVars
  <2> QED
    BY <1>4, <2>1
<1>5. CASE AdminUsersNext /\ UNCHANGED <<orderVars, eventVars>>
  <2>1. WritesNoMoney
    BY <1>5 DEF AdminUsersNext, ReceiveAccess, ReadAccess, WriteAccess,
                WritesNoMoney, databaseVars, orderVars, ledgerVars
  <2> QED
    BY <2>1
<1>6. CASE UNCHANGED economyVars
  BY <1>6 DEF economyVars, WritesNoMoney, databaseVars, orderVars, ledgerVars
<1> QED
  BY <1>1, <1>2, <1>3, <1>4, <1>5, <1>6 DEF EconomyNext

-----------------------------------------------------------------------------
(* What each writer adds to the ledger *)

\* A purchase takes its total from its buyer, by one payment entry.
LEMMA PlaceOrderMoves ==
  ASSUME TypeInv, NEW r \in Slots, PlaceOrder(r)
  PROVE  /\ LedgerMoves({"ORDER_PAYMENT"})
         /\ LET c == call[r]
            IN  /\ c.user \in Users /\ c.key \in Keys
                /\ NewOrder(c).user = c.user
                /\ \E entry \in TokenLog :
                     /\ IsPaymentOf(c.key, entry)
                     /\ entry.delta = -NewOrder(c).total
                     /\ tokenLogs' = [tokenLogs EXCEPT ![c.user] = Append(@, entry)]
<1> DEFINE c == call[r]
           total == products[c.product].price * c.quantity
           left == tokenBalance[c.user] - total
           entry == PaymentLog(c, left)
<1>1. c \in PurchaseCalls /\ PurchaseRefusal(c) = "none"
  BY DEF PlaceOrder
<1>2. /\ c \in PurchaseCall
      /\ total \in 1..MaxInt
      /\ tokenBalance[c.user] \in 0..MaxInt
      /\ left \in 0..MaxInt
  BY <1>1, AcceptedPurchase
<1>3. c.user \in Users /\ c.key \in Keys
  BY <1>2 DEF PurchaseCall
<1>4. /\ tokenBalance' = [tokenBalance EXCEPT ![c.user] = left]
      /\ tokenLogs' = [tokenLogs EXCEPT ![c.user] = Append(@, entry)]
  BY DEF PlaceOrder
<1>5. /\ tokenBalance'[c.user] = left
      /\ tokenLogs'[c.user] = Append(tokenLogs[c.user], entry)
      /\ \A u \in Users \ {c.user} : /\ tokenBalance'[u] = tokenBalance[u]
                                     /\ tokenLogs'[u] = tokenLogs[u]
  BY <1>3, <1>4 DEF TypeInv, EconomyTypeOK, DatabaseTypeOK
<1>6. entry = [type |-> "ORDER_PAYMENT", source |-> c.key,
               before |-> left + total, after |-> left, delta |-> -total]
  BY DEF PaymentLog
<1>7. NewOrder(c).total = total /\ NewOrder(c).user = c.user
  BY DEF NewOrder
<1> HIDE DEF entry, total
<1>8. /\ left + total = tokenBalance[c.user] /\ left = left + total + (-total)
      /\ left + total \in 0..MaxInt /\ -total \in Int
  BY <1>2, TokenDatabaseAssumption
<1> HIDE DEF left
<1>9. entry \in TokenLog
  BY <1>2, <1>3, <1>6, <1>8 DEF TokenLog, TransactionTypes, Sources
<1>10. MovesByEntry(c.user, {"ORDER_PAYMENT"})
  <2>1. entry.type = "ORDER_PAYMENT" /\ entry.delta < 0
    BY <1>2, <1>6, TokenDatabaseAssumption
  <2>2. Ledger!DirectionFits(entry)
    BY <2>1 DEF Ledger!DirectionFits
  <2> QED
    BY <1>5, <1>6, <1>8, <1>9, <2>2 DEF MovesByEntry
<1>11. LedgerMoves({"ORDER_PAYMENT"})
  BY <1>5, <1>10 DEF LedgerMoves
<1>12. IsPaymentOf(c.key, entry) /\ entry.delta = -NewOrder(c).total
  BY <1>6, <1>7 DEF IsPaymentOf
<1> QED
  BY <1>3, <1>4, <1>7, <1>9, <1>11, <1>12

\* A cancellation gives the total of the order back, by one refund entry.
LEMMA CancelOrderMoves ==
  ASSUME TypeInv, NEW r \in Slots, CancelOrder(r)
  PROVE  /\ LedgerMoves({"ORDER_REFUND"})
         /\ LET k == call[r].order
            IN  /\ k \in Keys /\ orders[k].user \in Users
                /\ \E entry \in TokenLog :
                     /\ IsRefundOf(k, entry)
                     /\ entry.delta = orders[k].total
                     /\ tokenLogs' =
                          [tokenLogs EXCEPT ![orders[k].user] = Append(@, entry)]
<1> DEFINE c == call[r]
           order == orders[c.order]
           balance == tokenBalance[order.user]
           entry == RefundLog(c.order, balance, balance + order.total)
<1>1. /\ c \in StatusCalls /\ StatusRefusal(c) = "none"
      /\ c.target = "CANCELED"
  BY DEF CancelOrder
<1>2. /\ order.user \in Users
      /\ order.total \in 1..MaxInt
      /\ balance \in 0..MaxInt
      /\ balance + order.total \in 0..MaxInt
  BY <1>1, AcceptedCancellation
<1>3. c.order \in Keys
  BY <1>1, OrdersAssumption DEF StatusCall
<1>4. /\ tokenBalance' = [tokenBalance EXCEPT ![order.user] = balance + order.total]
      /\ tokenLogs' = [tokenLogs EXCEPT ![order.user] = Append(@, entry)]
  BY DEF CancelOrder
<1>5. /\ tokenBalance'[order.user] = balance + order.total
      /\ tokenLogs'[order.user] = Append(tokenLogs[order.user], entry)
      /\ \A u \in Users \ {order.user} : /\ tokenBalance'[u] = tokenBalance[u]
                                         /\ tokenLogs'[u] = tokenLogs[u]
  BY <1>2, <1>4 DEF TypeInv, EconomyTypeOK, DatabaseTypeOK
<1>6. entry = [type |-> "ORDER_REFUND", source |-> c.order,
               before |-> balance, after |-> balance + order.total,
               delta |-> order.total]
  BY DEF RefundLog
<1> HIDE DEF entry
<1>7. entry \in TokenLog
  BY <1>2, <1>3, <1>6 DEF TokenLog, TransactionTypes, Sources
<1>8. MovesByEntry(order.user, {"ORDER_REFUND"})
  <2>1. entry.type = "ORDER_REFUND" /\ entry.delta > 0
    BY <1>2, <1>6, TokenDatabaseAssumption
  <2>2. Ledger!DirectionFits(entry)
    BY <2>1 DEF Ledger!DirectionFits
  <2> QED
    BY <1>5, <1>6, <1>7, <2>2 DEF MovesByEntry
<1>9. LedgerMoves({"ORDER_REFUND"})
  BY <1>5, <1>8 DEF LedgerMoves
<1>10. IsRefundOf(c.order, entry) /\ entry.delta = order.total
  BY <1>6 DEF IsRefundOf
<1> QED
  BY <1>2, <1>3, <1>4, <1>7, <1>9, <1>10

EventTypes == {"EVENT_GRANT", "EVENT_ADJUSTMENT"}

\* A batch of grants moves each balance it moves by one entry.
LEMMA SaveGrantsMoves ==
  ASSUME TypeInv, NEW r \in Slots, SaveGrants(r)
  PROVE  LedgerMoves(EventTypes)
<1> DEFINE c == call[r]
<1>1. c \in GrantCalls /\ GrantsAccepted(c) /\ ~Overflows(c)
  BY DEF SaveGrants
<1>2. \A u \in Moved(c) :
        /\ u \in Users /\ DeltaAmount(c, u) \in Int
        /\ tokenBalance[u] \in 0..MaxInt
        /\ GrantLog(c, u) \in TokenLog
  BY <1>1, AcceptedGrants DEF Moved
<1>3. ASSUME NEW u \in Users, u \in Moved(c)
      PROVE  MovesByEntry(u, EventTypes)
  <2> DEFINE entry == GrantLog(c, u)
  <2>1. /\ entry.type \in EventTypes
        /\ entry.before = tokenBalance[u]
        /\ entry.after = tokenBalance[u] + DeltaAmount(c, u)
        /\ entry.delta = DeltaAmount(c, u)
    BY DEF GrantLog, EventTypes
  <2>2. /\ tokenBalance'[u] = tokenBalance[u] + DeltaAmount(c, u)
        /\ tokenLogs'[u] = Append(tokenLogs[u], entry)
    BY <1>3 DEF SaveGrants
  <2>3. entry \in TokenLog
    BY <1>2, <1>3
  <2>4. u \in DOMAIN c.grants /\ DeltaAmount(c, u) # 0
    BY <1>3 DEF Moved
  <2>5. ASSUME entry.type = "EVENT_GRANT"
        PROVE  DeltaAmount(c, u) > 0
    <3>1. PlanStatus(c, u) = "CREATED"
      BY <2>5 DEF GrantLog
    <3>2. c.grants[u].amount > 0 /\ tokenGrants[c.event][u] = NoRow
      BY <3>1 DEF PlanStatus
    <3>3. c.grants[u].amount \in Nat
      BY <1>1, <2>4, GrantNumbers, TokenEventsAssumption DEF TokenGrant
    <3>4. DeltaAmount(c, u) = c.grants[u].amount
      BY <3>2, <3>3 DEF DeltaAmount, GrantedAmount
    <3> QED
      BY <3>2, <3>4
  <2>6. Ledger!DirectionFits(entry)
    BY <2>1, <2>4, <2>5 DEF Ledger!DirectionFits, EventTypes
  <2> HIDE DEF entry
  <2> QED
    BY <2>1, <2>2, <2>3, <2>6 DEF MovesByEntry
<1>4. ASSUME NEW u \in Users, u \notin Moved(c)
      PROVE  tokenBalance'[u] = tokenBalance[u] /\ tokenLogs'[u] = tokenLogs[u]
  BY <1>4 DEF SaveGrants
<1> QED
  BY <1>3, <1>4 DEF LedgerMoves

\* A reset takes each balance it takes by one entry.
LEMMA ResetMoves ==
  ASSUME TypeInv, NEW r \in Slots, ResetTokenBalances(r)
  PROVE  LedgerMoves({"RESET"})
<1>1. ASSUME NEW u \in Users, u \in ResetTargets
      PROVE  MovesByEntry(u, {"RESET"})
  <2>1. tokenBalance[u] \in 0..MaxInt
    BY DEF TypeInv, EconomyTypeOK, DatabaseTypeOK
  <2>2. /\ ResetLog(u) \in TokenLog
        /\ ResetLog(u).type = "RESET" /\ ResetLog(u).before = tokenBalance[u]
        /\ ResetLog(u).after = 0 /\ ResetLog(u).delta = -tokenBalance[u]
    BY <2>1, TokenDatabaseAssumption
       DEF ResetLog, TokenLog, TransactionTypes, Sources
  <2>3. /\ tokenBalance'[u] = 0
        /\ tokenLogs'[u] = Append(tokenLogs[u], ResetLog(u))
    BY <1>1 DEF ResetTokenBalances
  <2>4. 0 = tokenBalance[u] + (-tokenBalance[u])
    BY <2>1, TokenDatabaseAssumption
  <2>5. -tokenBalance[u] < 0
    BY <1>1, <2>1, TokenDatabaseAssumption DEF ResetTargets
  <2>6. Ledger!DirectionFits(ResetLog(u))
    BY <2>2, <2>5 DEF Ledger!DirectionFits
  <2> QED
    BY <2>2, <2>3, <2>4, <2>6 DEF MovesByEntry
<1>2. ASSUME NEW u \in Users, u \notin ResetTargets
      PROVE  tokenBalance'[u] = tokenBalance[u] /\ tokenLogs'[u] = tokenLogs[u]
  BY <1>2 DEF ResetTokenBalances
<1> QED
  BY <1>1, <1>2 DEF LedgerMoves

\* Every step of the shop moves the ledgers by entries of one service.
LEMMA EconomyMoves ==
  ASSUME TypeInv, [EconomyNext]_economyVars
  PROVE  \E T \in SUBSET TransactionTypes : LedgerMoves(T)
<1>1. ASSUME NEW r \in Slots, PlaceOrder(r)
      PROVE  LedgerMoves({"ORDER_PAYMENT"})
  BY <1>1, PlaceOrderMoves
<1>2. ASSUME NEW r \in Slots, CancelOrder(r)
      PROVE  LedgerMoves({"ORDER_REFUND"})
  BY <1>2, CancelOrderMoves
<1>3. ASSUME NEW r \in Slots, SaveGrants(r)
      PROVE  LedgerMoves(EventTypes)
  BY <1>3, SaveGrantsMoves
<1>4. ASSUME NEW r \in Slots, ResetTokenBalances(r)
      PROVE  LedgerMoves({"RESET"})
  BY <1>4, ResetMoves
<1>5. ASSUME NEW r \in Slots,
             AdvanceOrder(r) \/ CreateProduct(r) \/ UpdateProduct(r)
      PROVE  LedgerMoves({})
  BY <1>5 DEF AdvanceOrder, CreateProduct, UpdateProduct, LedgerMoves, ledgerVars
<1>6. CASE WritesNoMoney
  BY <1>6 DEF WritesNoMoney, LedgerMoves, ledgerVars
<1>7. /\ {"ORDER_PAYMENT"} \subseteq TransactionTypes
      /\ {"ORDER_REFUND"} \subseteq TransactionTypes
      /\ EventTypes \subseteq TransactionTypes
      /\ {"RESET"} \subseteq TransactionTypes
  BY DEF TransactionTypes, EventTypes
<1> QED
  BY <1>1, <1>2, <1>3, <1>4, <1>5, <1>6, <1>7, EconomyStep

-----------------------------------------------------------------------------
(* The ledger *)

\* A ledger that explains a balance explains it after any entry that starts
\* at the balance.
LEMMA ChainStep ==
  ASSUME TypeInv, LedgerChain, NEW T, LedgerMoves(T)
  PROVE  LedgerChain'
<1> SUFFICES ASSUME NEW u \in Users
             PROVE  LET log == tokenLogs'[u]
                        n   == Len(log)
                    IN  /\ \A i \in 1..n :
                             /\ log[i].after = log[i].before + log[i].delta
                             /\ log[i].before = IF i = 1 THEN 0
                                               ELSE log[i - 1].after
                        /\ tokenBalance'[u] = IF n = 0 THEN 0 ELSE log[n].after
  BY DEF LedgerChain
<1> DEFINE log == tokenLogs[u]
           n == Len(log)
<1>1. /\ \A i \in 1..n :
           /\ log[i].after = log[i].before + log[i].delta
           /\ log[i].before = IF i = 1 THEN 0 ELSE log[i - 1].after
      /\ tokenBalance[u] = IF n = 0 THEN 0 ELSE log[n].after
  BY DEF LedgerChain
<1>2. log \in Seq(TokenLog) /\ n \in Nat
  BY DEF TypeInv, EconomyTypeOK, DatabaseTypeOK
<1>3. CASE tokenBalance'[u] = tokenBalance[u] /\ tokenLogs'[u] = tokenLogs[u]
  BY <1>1, <1>3
<1>4. CASE MovesByEntry(u, T)
  <2> PICK entry \in TokenLog :
         /\ entry.before = tokenBalance[u]
         /\ entry.after = tokenBalance'[u]
         /\ entry.after = entry.before + entry.delta
         /\ tokenLogs'[u] = Append(log, entry)
    BY <1>4 DEF MovesByEntry
  <2> DEFINE longer == Append(log, entry)
  <2>1. /\ Len(longer) = n + 1
        /\ \A i \in 1..n : longer[i] = log[i]
        /\ longer[n + 1] = entry
    BY <1>2
  <2> HIDE DEF longer, log, n
  <2>2. \A i \in 1..(n + 1) :
          /\ longer[i].after = longer[i].before + longer[i].delta
          /\ longer[i].before = IF i = 1 THEN 0 ELSE longer[i - 1].after
    <3> TAKE i \in 1..(n + 1)
    <3>1. CASE i \in 1..n
      <4>1. i # 1 => i - 1 \in 1..n
        BY <1>2, <3>1
      <4> QED
        BY <1>1, <2>1, <3>1, <4>1
    <3>2. CASE i = n + 1
      <4>1. n # 0 => n \in 1..n /\ i - 1 = n /\ i # 1
        BY <1>2, <3>2
      <4>2. n = 0 => i = 1
        BY <3>2
      <4> QED
        BY <1>1, <2>1, <3>2, <4>1, <4>2
    <3> QED
      BY <1>2, <3>1, <3>2
  <2>3. tokenBalance'[u] = longer[n + 1].after /\ n + 1 # 0
    BY <1>2, <2>1
  <2>4. tokenLogs'[u] = longer
    BY DEF longer
  <2> QED
    BY <2>1, <2>2, <2>3, <2>4
<1> QED
  BY <1>3, <1>4 DEF LedgerMoves

\* The ledger explains every balance after every step of every service.
THEOREM LedgerExplainsBalances == EconomySpec => []LedgerChain
<1>1. EconomyInit => LedgerChain
  <2> SUFFICES ASSUME EconomyInit, NEW u \in Users
               PROVE  LET log == tokenLogs[u]
                          n   == Len(log)
                      IN  /\ \A i \in 1..n :
                               /\ log[i].after = log[i].before + log[i].delta
                               /\ log[i].before = IF i = 1 THEN 0
                                                 ELSE log[i - 1].after
                          /\ tokenBalance[u] = IF n = 0 THEN 0 ELSE log[n].after
    BY DEF LedgerChain
  <2>1. /\ tokenLogs[u] = InitialLogs(u) /\ tokenBalance[u] = InitialBalance[u]
        /\ InitialBalance[u] \in Nat
    BY TokenDatabaseAssumption DEF EconomyInit, DatabaseInit
  <2>2. CASE InitialBalance[u] = 0
    BY <2>1, <2>2 DEF InitialLogs
  <2>3. CASE InitialBalance[u] # 0
    <3>1. /\ Len(tokenLogs[u]) = 1
          /\ tokenLogs[u][1].before = 0
          /\ tokenLogs[u][1].after = InitialBalance[u]
          /\ tokenLogs[u][1].delta = InitialBalance[u]
      BY <2>1, <2>3 DEF InitialLogs
    <3> QED
      BY <2>1, <3>1
  <2> QED
    BY <2>2, <2>3
<1>2. TypeInv /\ LedgerChain /\ [EconomyNext]_economyVars => LedgerChain'
  BY EconomyMoves, ChainStep
<1> QED
  BY <1>1, <1>2, TypeCorrect, PTL DEF EconomySpec

-----------------------------------------------------------------------------
(* Prices *)

\* A status update changes nothing else of its order.
LEMMA StatusChangeKeepsTerms ==
  ASSUME TypeInv, NEW r \in Slots, AdvanceOrder(r) \/ CancelOrder(r)
  PROVE  \A k \in Keys :
           /\ orders'[k] # NoOrder <=> orders[k] # NoOrder
           /\ orders[k] # NoOrder =>
                /\ orders'[k].user = orders[k].user
                /\ orders'[k].product = orders[k].product
                /\ orders'[k].quantity = orders[k].quantity
                /\ orders'[k].unitPrice = orders[k].unitPrice
                /\ orders'[k].total = orders[k].total
<1> DEFINE c == call[r]
<1>1. /\ c \in StatusCalls /\ StatusRefusal(c) = "none"
      /\ orders' = [orders EXCEPT ![c.order] = UpdatedOrder(c)]
  BY DEF AdvanceOrder, CancelOrder, RecordStatusChange
<1>2. /\ orders[c.order] # NoOrder /\ orders[c.order] \in Order
      /\ UpdatedOrder(c) \in Order
  BY <1>1, AcceptedStatusUpdate
<1>3. UpdatedOrder(c) # NoOrder
  BY <1>2, OrdersAssumption
<1>4. /\ UpdatedOrder(c).user = orders[c.order].user
      /\ UpdatedOrder(c).product = orders[c.order].product
      /\ UpdatedOrder(c).quantity = orders[c.order].quantity
      /\ UpdatedOrder(c).unitPrice = orders[c.order].unitPrice
      /\ UpdatedOrder(c).total = orders[c.order].total
  BY <1>2 DEF UpdatedOrder, Order
<1> HIDE DEF c
<1> QED
  BY <1>1, <1>2, <1>3, <1>4 DEF TypeInv, EconomyTypeOK, OrdersTypeOK

\* A step that places no order keeps the price of every ordered product.
LEMMA OrderedPricesKept ==
  ASSUME TypeInv, [EconomyNext]_economyVars
  PROVE  \A p \in Products : products[p] # NoRow =>
           /\ products'[p] # NoRow
           /\ products'[p].price = products[p].price \/ OrdersOf(p) = {}
<1> SUFFICES ASSUME NEW p \in Products, products[p] # NoRow
             PROVE  /\ products'[p] # NoRow
                    /\ \/ products'[p].price = products[p].price
                       \/ OrdersOf(p) = {}
  OBVIOUS
<1>1. products[p] \in Product
  BY ProductRow
<1>2. ASSUME NEW q \in Products, NEW n \in 0..MaxInt, products[q] # NoRow,
             products' = [products EXCEPT ![q].stock = n]
      PROVE  products'[p] # NoRow /\ products'[p].price = products[p].price
  <2>1. products[q] \in Product
    BY <1>2, ProductRow
  <2>2. /\ [products[q] EXCEPT !.stock = n] \in Product
        /\ [products[q] EXCEPT !.stock = n].price = products[q].price
    BY <2>1 DEF Product
  <2>3. products' = [products EXCEPT ![q] = [products[q] EXCEPT !.stock = n]]
    BY <1>2
  <2> QED
    BY <1>1, <2>2, <2>3, TokenDatabaseAssumption
       DEF TypeInv, EconomyTypeOK, DatabaseTypeOK
<1>3. ASSUME NEW r \in Slots, PlaceOrder(r)
      PROVE  products'[p] # NoRow /\ products'[p].price = products[p].price
  <2> DEFINE c == call[r]
             left == products[c.product].stock - c.quantity
  <2>1. c \in PurchaseCalls /\ PurchaseRefusal(c) = "none"
    BY <1>3 DEF PlaceOrder
  <2>2. c \in PurchaseCall /\ left \in 0..MaxInt
          /\ products[c.product] \in Product
    BY <2>1, AcceptedPurchase
  <2>3. c.product \in Products /\ products[c.product] # NoRow
    BY <2>2, TokenDatabaseAssumption DEF PurchaseCall
  <2>4. products' = [products EXCEPT ![c.product].stock = left]
    BY <1>3 DEF PlaceOrder
  <2> HIDE DEF left
  <2> QED
    BY <1>2, <2>2, <2>3, <2>4
<1>4. ASSUME NEW r \in Slots, CancelOrder(r)
      PROVE  products'[p] # NoRow /\ products'[p].price = products[p].price
  <2> DEFINE order == orders[call[r].order]
             restored == RestoredStock(order)
  <2>1. /\ order.product \in Products /\ products[order.product] \in Product
        /\ restored \in 0..MaxInt
    BY <1>4, AcceptedCancellation DEF CancelOrder
  <2>2. products[order.product] # NoRow
    BY <2>1, TokenDatabaseAssumption
  <2>3. products' = [products EXCEPT ![order.product].stock = restored]
    BY <1>4 DEF CancelOrder
  <2> HIDE DEF restored
  <2> QED
    BY <1>2, <2>1, <2>2, <2>3
<1>5. ASSUME NEW r \in Slots, CreateProduct(r)
      PROVE  products'[p] = products[p]
  <2> DEFINE c == call[r]
  <2>1. /\ products[c.product] = NoRow
        /\ products' = [products EXCEPT ![c.product] = CreatedProduct(c)]
    BY <1>5 DEF CreateProduct
  <2> HIDE DEF c
  <2> QED
    BY <2>1 DEF TypeInv, EconomyTypeOK, DatabaseTypeOK
<1>6. ASSUME NEW r \in Slots, UpdateProduct(r)
      PROVE  /\ products'[p] # NoRow
             /\ \/ products'[p].price = products[p].price
                \/ OrdersOf(p) = {}
  <2> DEFINE c == call[r]
  <2>1. c \in ProductCalls /\ UpdateRefusal(c) = "none"
    BY <1>6 DEF UpdateProduct
  <2>2. UpdatedProduct(c) \in Product
    BY <2>1, UpdatedProductType
  <2>3. \/ UpdatedProduct(c).price = products[c.product].price
        \/ OrdersOf(c.product) = {}
    BY <2>1 DEF UpdateRefusal
  <2>4. \/ products' = products
        \/ products' = [products EXCEPT ![c.product] = UpdatedProduct(c)]
    BY <1>6 DEF UpdateProduct
  <2> HIDE DEF c
  <2> QED
    BY <2>2, <2>3, <2>4, TokenDatabaseAssumption
       DEF TypeInv, EconomyTypeOK, DatabaseTypeOK
<1>7. ASSUME NEW r \in Slots,
             AdvanceOrder(r) \/ SaveGrants(r) \/ ResetTokenBalances(r)
      PROVE  products'[p] = products[p]
  BY <1>7 DEF AdvanceOrder, SaveGrants, ResetTokenBalances
<1>8. CASE WritesNoMoney
  BY <1>8 DEF WritesNoMoney
<1> QED
  BY <1>3, <1>4, <1>5, <1>6, <1>7, <1>8, EconomyStep

\* The price an order was placed at stays the price of its product.
LEMMA PriceLockedStep ==
  ASSUME TypeInv, PriceLocked, [EconomyNext]_economyVars
  PROVE  PriceLocked'
<1>1. \A k \in Keys : orders[k] # NoOrder =>
        /\ orders[k].product \in Products
        /\ products'[orders[k].product] # NoRow
        /\ products'[orders[k].product].price = orders[k].unitPrice
  <2> SUFFICES ASSUME NEW k \in Keys, orders[k] # NoOrder
               PROVE  /\ orders[k].product \in Products
                      /\ products'[orders[k].product] # NoRow
                      /\ products'[orders[k].product].price = orders[k].unitPrice
    OBVIOUS
  <2>1. orders[k].product \in Products
    BY DEF TypeInv, EconomyTypeOK, OrdersTypeOK, Order
  <2>2. OrdersOf(orders[k].product) # {}
    BY DEF OrdersOf
  <2> QED
    BY <2>1, <2>2, OrderedPricesKept DEF PriceLocked
<1>2. CASE orders' = orders
  BY <1>1, <1>2 DEF PriceLocked
<1>3. ASSUME NEW r \in Slots, AdvanceOrder(r) \/ CancelOrder(r)
      PROVE  PriceLocked'
  BY <1>1, <1>3, StatusChangeKeepsTerms DEF PriceLocked
<1>4. ASSUME NEW r \in Slots, PlaceOrder(r)
      PROVE  PriceLocked'
  <2> DEFINE c == call[r]
             product == products[c.product]
  <2>1. c \in PurchaseCalls /\ PurchaseRefusal(c) = "none"
    BY <1>4 DEF PlaceOrder
  <2>2. c \in PurchaseCall /\ product \in Product
          /\ product.stock - c.quantity \in 0..MaxInt
    BY <2>1, AcceptedPurchase
  <2>3. c.product \in Products /\ c.key \in Keys
    BY <2>2 DEF PurchaseCall
  <2>4. /\ orders' = [orders EXCEPT ![c.key] = NewOrder(c)]
        /\ products' = [products EXCEPT ![c.product] =
                          [product EXCEPT !.stock = @ - c.quantity]]
    BY <1>4 DEF PlaceOrder
  <2>5. /\ [product EXCEPT !.stock = @ - c.quantity] \in Product
        /\ [product EXCEPT !.stock = @ - c.quantity].price = product.price
    BY <2>2 DEF Product
  <2>6. /\ products'[c.product] # NoRow
        /\ products'[c.product].price = product.price
    BY <2>3, <2>4, <2>5, TokenDatabaseAssumption
       DEF TypeInv, EconomyTypeOK, DatabaseTypeOK
  <2>7. NewOrder(c).product = c.product /\ NewOrder(c).unitPrice = product.price
    BY DEF NewOrder
  <2>8. \A k \in Keys \ {c.key} : orders'[k] = orders[k]
    BY <2>4 DEF TypeInv, EconomyTypeOK, OrdersTypeOK
  <2>9. orders'[c.key] = NewOrder(c)
    BY <2>3, <2>4 DEF TypeInv, EconomyTypeOK, OrdersTypeOK
  <2> QED
    BY <1>1, <2>6, <2>7, <2>8, <2>9 DEF PriceLocked
<1>5. ASSUME NEW r \in Slots, CreateProduct(r) \/ UpdateProduct(r)
      PROVE  orders' = orders
  BY <1>5 DEF CreateProduct, UpdateProduct, orderVars
<1> QED
  BY <1>2, <1>3, <1>4, <1>5, EconomyStep DEF WritesNoMoney, orderVars

\* No interleaving of edits and orders lets a price differ from what an order
\* paid.
THEOREM PricesLocked == EconomySpec => []PriceLocked
<1>1. EconomyInit => PriceLocked
  BY DEF EconomyInit, OrdersInit, PriceLocked
<1>2. TypeInv /\ PriceLocked /\ [EconomyNext]_economyVars => PriceLocked'
  BY PriceLockedStep
<1> QED
  BY <1>1, <1>2, TypeCorrect, PTL DEF EconomySpec

-----------------------------------------------------------------------------
(* Requests *)

\* Slot r is not touched by the step, except that it may have been retried.
Untouched(r) == pc'[r] = pc[r] /\ call'[r] = call[r] /\ answer'[r] = answer[r]

OnlySlot(q) == \A r \in Slots \ {q} : Untouched(r)

\* What a step may do to the slot it serves: receive a request, answer it, or
\* move on.
Progress(q) ==
  /\ OnlySlot(q)
  /\ pc[q] # "done" /\ pc'[q] # "idle"
  /\ pc[q] # "idle" => call'[q] = call[q]
  /\ pc'[q] # "done" => answer'[q] = answer[q]

ProductStep(q) ==
  \/ \E c \in ProductCalls : ReceiveProductCall(q, c)
  \/ RefuseProductCall(q)
  \/ CreateProduct(q)
  \/ UpdateProduct(q)
  \/ ProductConflict(q)

OrderStep(q) == ReceiveOrderRequest(q) \/ ServeOrderRequest(q)

EventStep(q) == ReceiveTokenEventRequest(q) \/ ServeTokenEventRequest(q)

ResetStep(q) ==
  \/ \E c \in ResetCalls : ReceiveReset(q, c)
  \/ ResetNothing(q)
  \/ ResetTokenBalances(q)
  \/ ResetConflict(q)

AccessStep(q) ==
  \/ \E c \in AccessCalls : ReceiveAccess(q, c)
  \/ ReadAccess(q)
  \/ WriteAccess(q)

\* A step of a service serves one request, received from its own callers.
LEMMA OrderProgress ==
  ASSUME RequestsTyped, NEW q \in Slots, OrderStep(q)
  PROVE  Progress(q) /\ call'[q] \in PurchaseCalls \cup StatusCalls /\ pc'[q] # "write"
<1>1. CASE PlaceOrder(q) \/ AdvanceOrder(q) \/ CancelOrder(q)
  <2>1. /\ pc[q] = "tx" /\ call[q] \in PurchaseCalls \cup StatusCalls
        /\ \E a : Respond(q, a)
    BY <1>1 DEF PlaceOrder, AdvanceOrder, CancelOrder, RespondAfterCommit
  <2> QED
    BY <2>1 DEF RequestsTyped, RequestsTypeOK, Respond, Progress, OnlySlot,
                Untouched
<1>2. CASE FailOrderRequest(q)
  BY <1>2 DEF FailOrderRequest, RequestsTyped, RequestsTypeOK, Respond, Progress,
              OnlySlot, Untouched
<1>3. CASE ReceiveOrderRequest(q)
  BY <1>3 DEF RequestsTyped, RequestsTypeOK, Receive, ReceiveAndRespond, Progress,
              OnlySlot, Untouched, ReceiveOrderRequest, ReceivePurchase,
              ReceiveStatusUpdate
<1>4. CASE \/ LookUpKey(q) \/ FindKeyTaken(q) \/ RefusePurchase(q)
           \/ CollideOnKey(q) \/ RecoverFromCollision(q)
           \/ AnswerStatusUpdate(q) \/ CollideOnRefund(q)
           \/ RecoverFromRefundCollision(q) \/ OrderConflict(q)
  BY <1>4 DEF RequestsTyped, RequestsTypeOK, Goto, Respond, RetryAfterConflict,
              Progress, OnlySlot, Untouched, LookUpKey, FindKeyTaken,
              RefusePurchase, CollideOnKey, RecoverFromCollision,
              AnswerStatusUpdate, CollideOnRefund, RecoverFromRefundCollision,
              OrderConflict
<1> QED
  BY <1>1, <1>2, <1>3, <1>4 DEF OrderStep, ServeOrderRequest

\* The same for products.
LEMMA ProductProgress ==
  ASSUME RequestsTyped, NEW q \in Slots, ProductStep(q)
  PROVE  Progress(q) /\ call'[q] \in ProductCalls /\ pc'[q] # "write"
BY DEF RequestsTyped, RequestsTypeOK, Receive, ReceiveAndRespond, Respond,
       RetryAfterConflict, Progress, OnlySlot, Untouched, ProductStep,
       ReceiveProductCall, RefuseProductCall, CreateProduct, UpdateProduct,
       ProductConflict

\* The same for token events.
LEMMA EventProgress ==
  ASSUME RequestsTyped, NEW q \in Slots, EventStep(q)
  PROVE  Progress(q) /\ call'[q] \in EventCalls \cup GrantCalls /\ pc'[q] # "write"
BY DEF RequestsTyped, RequestsTypeOK, Receive, ReceiveAndRespond, Respond,
       RetryAfterConflict, Progress, OnlySlot, Untouched, EventStep,
       ReceiveTokenEventRequest, ServeTokenEventRequest, CreateEvent,
       ReceiveEventCall, ReceiveGrants, AnswerEventCall, RenameEvent,
       DeleteEvent, RefuseGrants, OverflowGrants, SaveGrants, TokenEventConflict

\* The same for resets.
LEMMA ResetProgress ==
  ASSUME RequestsTyped, NEW q \in Slots, ResetStep(q)
  PROVE  Progress(q) /\ call'[q] \in ResetCalls /\ pc'[q] # "write"
BY DEF RequestsTyped, RequestsTypeOK, Receive, ReceiveAndRespond, Respond,
       RetryAfterConflict, Progress, OnlySlot, Untouched, ResetStep,
       ReceiveReset, ResetNothing, ResetTokenBalances, ResetConflict

\* The same for account changes.
LEMMA AccessProgress ==
  ASSUME RequestsTyped, NEW q \in Slots, AccessStep(q)
  PROVE  Progress(q) /\ call'[q] \in AccessCalls
BY DEF RequestsTyped, RequestsTypeOK, Receive, ReceiveAndRespond, Goto, Respond,
       Progress, OnlySlot, Untouched, AccessStep, ReceiveAccess, ReadAccess,
       WriteAccess

\* Requests of different services have different fields.
LEMMA ServicesApart ==
  /\ PurchaseCalls \cap (StatusCalls \cup ProductCalls \cup EventCalls
       \cup GrantCalls \cup ResetCalls \cup AccessCalls) = {}
  /\ StatusCalls \cap (ProductCalls \cup EventCalls \cup ResetCalls) = {}
  /\ GrantCalls \cap (StatusCalls \cup ProductCalls \cup EventCalls
       \cup ResetCalls \cup AccessCalls) = {}
  /\ AccessCalls \cap (StatusCalls \cup ProductCalls \cup EventCalls
       \cup ResetCalls) = {}
  /\ NoCall \notin EconomyCalls
BY OrdersAssumption, ProductsAssumption, TokenEventsAssumption,
   TokenBalancesAssumption, AdminUsersAssumption
   DEF PurchaseCall, StatusCall, ProductCall, EventCall, GrantCall, ResetCall,
       AccessCall, EconomyCalls

\* A step of the shop is one service's step of one request.
LEMMA OneRequestMoves ==
  ASSUME RequestsTyped, [EconomyNext]_economyVars
  PROVE  \/ UNCHANGED economyVars
         \/ \E q \in Slots :
              /\ Progress(q)
              /\ \/ OrderStep(q) /\ UNCHANGED <<eventVars, accessRead>>
                 \/ ProductStep(q) /\ UNCHANGED <<eventVars, accessRead>>
                 \/ EventStep(q) /\ UNCHANGED <<orderVars, accessRead>>
                 \/ ResetStep(q) /\ UNCHANGED <<orderVars, eventVars, accessRead>>
                 \/ AccessStep(q) /\ UNCHANGED <<orderVars, eventVars>>
<1>1. CASE OrdersNext /\ UNCHANGED <<eventVars, accessRead>>
  BY <1>1, OrderProgress DEF OrdersNext, OrderStep
<1>2. CASE ProductsNext /\ UNCHANGED <<eventVars, accessRead>>
  BY <1>2, ProductProgress DEF ProductsNext, ProductStep
<1>3. CASE TokenEventsNext /\ UNCHANGED <<orderVars, accessRead>>
  BY <1>3, EventProgress DEF TokenEventsNext, EventStep
<1>4. CASE TokenBalancesNext /\ UNCHANGED <<orderVars, eventVars, accessRead>>
  BY <1>4, ResetProgress DEF TokenBalancesNext, ResetStep
<1>5. CASE AdminUsersNext /\ UNCHANGED <<orderVars, eventVars>>
  BY <1>5, AccessProgress DEF AdminUsersNext, AccessStep
<1> QED
  BY <1>1, <1>2, <1>3, <1>4, <1>5 DEF EconomyNext

\* A slot that is not used carries no request, and a request that is still
\* served has been told nothing.
RequestInv ==
  \A r \in Slots : /\ pc[r] = "idle" => call[r] = NoCall
                   /\ pc[r] # "done" => answer[r] = NoAnswer

\* Requests are answered once, and idle slots are empty.
LEMMA RequestsServedOnce == EconomySpec => []RequestInv
<1>1. EconomyInit => RequestInv
  BY DEF EconomyInit, RequestsInit, RequestInv
<1>2. TypeInv /\ RequestInv /\ [EconomyNext]_economyVars => RequestInv'
  <2> SUFFICES ASSUME TypeInv, RequestInv, [EconomyNext]_economyVars
               PROVE  RequestInv'
    OBVIOUS
  <2>1. RequestsTyped
    BY DEF TypeInv, EconomyTypeOK, RequestsTyped
  <2>2. CASE UNCHANGED economyVars
    BY <2>2 DEF economyVars, requestVars, RequestInv, NoAnswer, Answered
  <2>3. ASSUME NEW q \in Slots, Progress(q)
        PROVE  RequestInv'
    BY <2>3 DEF Progress, OnlySlot, Untouched, RequestInv, NoAnswer, Answered
  <2> QED
    BY <2>1, <2>2, <2>3, OneRequestMoves
<1> QED
  BY <1>1, <1>2, TypeCorrect, PTL DEF EconomySpec

-----------------------------------------------------------------------------
(* Accounts *)

\* A request that is about to write an account was not refused for what it read.
AccessChecked ==
  \A r \in Slots : pc[r] = "write" =>
    call[r] \in AccessCalls /\ AccessRefusal(call[r], accessRead[r]) = "none"

\* What a request read when it was checked is what it still holds when it writes.
LEMMA WritesAreChecked == EconomySpec => []AccessChecked
<1>1. EconomyInit => AccessChecked
  BY DEF EconomyInit, RequestsInit, AccessChecked
<1>2. TypeInv /\ AccessChecked /\ [EconomyNext]_economyVars => AccessChecked'
  <2> SUFFICES ASSUME TypeInv, AccessChecked, [EconomyNext]_economyVars,
                      NEW r \in Slots, pc'[r] = "write"
               PROVE  /\ call'[r] \in AccessCalls
                      /\ AccessRefusal(call'[r], accessRead'[r]) = "none"
    BY DEF AccessChecked, AccessRefusal, ChangedFields
  <2>0. RequestsTyped
    BY DEF TypeInv, EconomyTypeOK, RequestsTyped
  <2>1. CASE UNCHANGED economyVars
    BY <2>1 DEF economyVars, requestVars, AccessChecked
  <2>2. ASSUME NEW q \in Slots, Progress(q),
               \/ OrderStep(q) /\ accessRead' = accessRead
               \/ ProductStep(q) /\ accessRead' = accessRead
               \/ EventStep(q) /\ accessRead' = accessRead
               \/ ResetStep(q) /\ accessRead' = accessRead
        PROVE  /\ call'[r] \in AccessCalls
               /\ AccessRefusal(call'[r], accessRead'[r]) = "none"
    <3>1. pc'[q] # "write"
      BY <2>0, <2>2, OrderProgress, ProductProgress, EventProgress, ResetProgress
    <3>2. Untouched(r) /\ accessRead' = accessRead
      BY <2>2, <3>1 DEF Progress, OnlySlot
    <3> QED
      BY <3>2 DEF Untouched, AccessChecked
  <2>3. ASSUME NEW q \in Slots, Progress(q), AccessStep(q)
        PROVE  /\ call'[r] \in AccessCalls
               /\ AccessRefusal(call'[r], accessRead'[r]) = "none"
    <3>1. CASE q # r
      <4>1. Untouched(r)
        BY <2>3, <3>1 DEF Progress, OnlySlot
      <4>2. accessRead'[r] = accessRead[r]
        BY <2>3, <3>1 DEF AccessStep, ReceiveAccess, ReadAccess, WriteAccess,
                          TypeInv, EconomyTypeOK, AdminUsersTypeOK
      <4> QED
        BY <4>1, <4>2 DEF Untouched, AccessChecked
    <3>2. CASE q = r
      <4> DEFINE row == [role |-> role[call[r].user], status |-> status[call[r].user]]
      <4>1. /\ ReadAccess(r) /\ AccessRefusal(call[r], row) = "none"
            /\ call' = call
        BY <2>0, <2>3, <3>2
           DEF AccessStep, ReceiveAccess, ReadAccess, WriteAccess, Receive,
               ReceiveAndRespond, Goto, Respond, RequestsTyped, RequestsTypeOK
      <4>2. call[r] \in AccessCalls /\ accessRead'[r] = row
        BY <4>1 DEF ReadAccess, TypeInv, EconomyTypeOK, AdminUsersTypeOK
      <4> QED
        BY <4>1, <4>2
    <3> QED
      BY <3>1, <3>2
  <2> QED
    BY <2>0, <2>1, <2>2, <2>3, OneRequestMoves
<1> QED
  BY <1>1, <1>2, TypeCorrect, PTL DEF EconomySpec

\* A request that writes an account is an account change, and the check it
\* passed protects its own administrator.
LEMMA OwnAccountKept ==
  ASSUME TypeInv, AccessChecked, [EconomyNext]_economyVars,
         NEW r \in Slots, pc[r] = "write", pc'[r] = "done",
         call[r].admin = call[r].user
  PROVE  LET u == call[r].user
         IN  /\ role[u] = "ADMIN" => role'[u] = "ADMIN"
             /\ status[u] = "ACTIVE" => status'[u] = "ACTIVE"
<1> DEFINE c == call[r]
           changed == ChangedFields(c, accessRead[r])
<1>1. RequestsTyped
  BY DEF TypeInv, EconomyTypeOK, RequestsTyped
<1>2. /\ c \in AccessCalls /\ c \in AccessCall
      /\ AccessRefusal(c, accessRead[r]) = "none"
  BY AdminUsersAssumption DEF AccessChecked
<1>3. pc'[r] # pc[r]
  OBVIOUS
<1>4. PICK q \in Slots :
        /\ Progress(q)
        /\ OrderStep(q) \/ ProductStep(q) \/ EventStep(q) \/ ResetStep(q) \/ AccessStep(q)
  BY <1>1, <1>3, OneRequestMoves DEF economyVars, requestVars
<1>5. q = r /\ call'[r] = c
  BY <1>3, <1>4 DEF Progress, OnlySlot, Untouched
<1>6. AccessStep(r)
  BY <1>1, <1>2, <1>4, <1>5, OrderProgress, ProductProgress, EventProgress,
     ResetProgress, ServicesApart
<1>7. WriteAccess(r)
  BY <1>6 DEF AccessStep, ReceiveAccess, ReadAccess, Receive, ReceiveAndRespond
<1>8. /\ "role" \in changed => c.role # "STUDENT" /\ c.role \in Roles
      /\ "status" \in changed => c.status # "BLOCKED" /\ c.status \in Statuses
  BY <1>2 DEF AccessRefusal, ChangedFields, AccessCall
<1> HIDE DEF changed
<1>9. /\ role' = IF "role" \in changed
                 THEN [role EXCEPT ![c.user] = c.role] ELSE role
      /\ status' = IF "status" \in changed
                   THEN [status EXCEPT ![c.user] = c.status] ELSE status
  BY <1>7 DEF WriteAccess, changed
<1>10. c.user \in Users
  BY <1>2 DEF AccessCall
<1> QED
  BY <1>8, <1>9, <1>10
     DEF TypeInv, EconomyTypeOK, DatabaseTypeOK, Roles, Statuses

\* Whatever other administrators change between a request's read and its
\* write, the request does not take its own administrator's account.
THEOREM NobodyLockedOut == EconomySpec => NobodyLocksThemselvesOut
<1>1. TypeInv /\ AccessChecked /\ [EconomyNext]_economyVars =>
        [\A r \in Slots :
           pc[r] = "write" /\ pc'[r] = "done" /\ call[r].admin = call[r].user =>
             LET u == call[r].user
             IN  /\ role[u] = "ADMIN" => role'[u] = "ADMIN"
                 /\ status[u] = "ACTIVE" => status'[u] = "ACTIVE"
        ]_adminUsersVars
  BY OwnAccountKept
<1> QED
  BY <1>1, TypeCorrect, WritesAreChecked, PTL
     DEF EconomySpec, NobodyLocksThemselvesOut

-----------------------------------------------------------------------------
(* Whom the shop serves, and token events *)

\* Nothing is served to an account that is not an active student's.
OnlyActiveStudentsStep ==
  /\ \A u \in Users :
       tokenBalance'[u] > tokenBalance[u] =>
         \/ role[u] = "STUDENT" /\ status[u] = "ACTIVE"
         \/ tokenLogs'[u][Len(tokenLogs'[u])].type = "ORDER_REFUND"
  /\ \A k \in Keys :
       orders[k] = NoOrder /\ orders'[k] # NoOrder =>
         LET u == orders'[k].user
         IN  role[u] = "STUDENT" /\ status[u] = "ACTIVE"

\* A balance that rises by one entry of the given types.
LEMMA RisesOnlyBy ==
  ASSUME TypeInv, NEW T, LedgerMoves(T), NEW u \in Users,
         tokenBalance'[u] > tokenBalance[u]
  PROVE  /\ MovesByEntry(u, T)
         /\ tokenLogs'[u][Len(tokenLogs'[u])].type \in T
         /\ tokenLogs'[u][Len(tokenLogs'[u])].delta \in Int
         /\ tokenLogs'[u][Len(tokenLogs'[u])].delta > 0
         /\ Ledger!DirectionFits(tokenLogs'[u][Len(tokenLogs'[u])])
<1>1. tokenBalance[u] \in Int
  BY TokenDatabaseAssumption DEF TypeInv, EconomyTypeOK, DatabaseTypeOK
<1>2. MovesByEntry(u, T)
  BY <1>1 DEF LedgerMoves
<1>3. PICK entry \in TokenLog :
        /\ entry.type \in T
        /\ entry.before = tokenBalance[u]
        /\ entry.after = tokenBalance'[u]
        /\ entry.after = entry.before + entry.delta
        /\ Ledger!DirectionFits(entry)
        /\ tokenLogs'[u] = Append(tokenLogs[u], entry)
  BY <1>2 DEF MovesByEntry
<1>4. tokenLogs[u] \in Seq(TokenLog)
  BY DEF TypeInv, EconomyTypeOK, DatabaseTypeOK
<1>5. tokenLogs'[u][Len(tokenLogs'[u])] = entry
  BY <1>3, <1>4
<1>6. entry.delta \in Int
  BY DEF TokenLog
<1>7. entry.delta > 0
  BY <1>1, <1>3, <1>6
<1> QED
  BY <1>2, <1>3, <1>5, <1>6, <1>7

\* Each step of the shop serves active students only.
LEMMA ServesActiveStudents ==
  ASSUME TypeInv, [EconomyNext]_economyVars
  PROVE  OnlyActiveStudentsStep
<1>0. \A u \in Users : tokenBalance[u] \in Int
  BY TokenDatabaseAssumption DEF TypeInv, EconomyTypeOK, DatabaseTypeOK
<1>1. ASSUME NEW r \in Slots, PlaceOrder(r)
      PROVE  OnlyActiveStudentsStep
  <2> DEFINE c == call[r]
  <2>1. /\ PurchaseRefusal(c) = "none"
        /\ orders' = [orders EXCEPT ![c.key] = NewOrder(c)]
        /\ NewOrder(c).user = c.user
    BY <1>1 DEF PlaceOrder, NewOrder
  <2>2. IsActiveStudent(c.user)
    BY <2>1 DEF PurchaseRefusal
  <2>3. \A k \in Keys : orders'[k] # orders[k] => orders'[k] = NewOrder(c)
    BY <2>1 DEF TypeInv, EconomyTypeOK, OrdersTypeOK
  <2>4. ASSUME NEW u \in Users, tokenBalance'[u] > tokenBalance[u]
        PROVE  FALSE
    <3> DEFINE last == tokenLogs'[u][Len(tokenLogs'[u])]
    <3>1. last.type = "ORDER_PAYMENT" /\ last.delta > 0 /\ Ledger!DirectionFits(last)
          /\ last.delta \in Int
      BY <1>1, <2>4, PlaceOrderMoves, RisesOnlyBy
    <3> HIDE DEF last
    <3> QED
      BY <3>1 DEF Ledger!DirectionFits
  <2> QED
    BY <2>1, <2>2, <2>3, <2>4 DEF OnlyActiveStudentsStep, IsActiveStudent
<1>2. ASSUME NEW r \in Slots, AdvanceOrder(r) \/ CancelOrder(r)
      PROVE  OnlyActiveStudentsStep
  <2>1. \A k \in Keys : orders'[k] # NoOrder => orders[k] # NoOrder
    BY <1>2, StatusChangeKeepsTerms
  <2>2. ASSUME NEW u \in Users, tokenBalance'[u] > tokenBalance[u]
        PROVE  tokenLogs'[u][Len(tokenLogs'[u])].type = "ORDER_REFUND"
    <3>1. CancelOrder(r)
      BY <1>0, <1>2, <2>2 DEF AdvanceOrder, ledgerVars
    <3> QED
      BY <2>2, <3>1, CancelOrderMoves, RisesOnlyBy
  <2> QED
    BY <2>1, <2>2 DEF OnlyActiveStudentsStep
<1>3. ASSUME NEW r \in Slots, SaveGrants(r), UNCHANGED orderVars
      PROVE  OnlyActiveStudentsStep
  <2> DEFINE c == call[r]
  <2>1. c \in GrantCalls /\ GrantsAccepted(c) /\ ~Overflows(c)
    BY <1>3 DEF SaveGrants
  <2>2. ASSUME NEW u \in Users, tokenBalance'[u] > tokenBalance[u]
        PROVE  IsActiveStudent(u)
    <3>1. u \in Moved(c) /\ tokenBalance'[u] = tokenBalance[u] + DeltaAmount(c, u)
      BY <1>0, <1>3, <2>2 DEF SaveGrants
    <3>2. u \in DOMAIN c.grants /\ GrantRefusal(c, u) = "none"
      BY <2>1, <3>1 DEF Moved, GrantsAccepted
    <3>3. DeltaAmount(c, u) \in Int
      BY <2>1, <3>1, AcceptedGrants DEF Moved
    <3>4. DeltaAmount(c, u) > 0
      BY <1>0, <2>2, <3>1, <3>3
    <3> QED
      BY <3>2, <3>4 DEF GrantRefusal
  <2> QED
    BY <1>3, <2>2 DEF OnlyActiveStudentsStep, IsActiveStudent, orderVars
<1>4. ASSUME NEW r \in Slots, ResetTokenBalances(r), UNCHANGED orderVars
      PROVE  OnlyActiveStudentsStep
  <2>1. ASSUME NEW u \in Users, tokenBalance'[u] > tokenBalance[u]
        PROVE  FALSE
    <3> DEFINE last == tokenLogs'[u][Len(tokenLogs'[u])]
    <3>1. last.type = "RESET" /\ last.delta > 0 /\ Ledger!DirectionFits(last)
          /\ last.delta \in Int
      BY <1>4, <2>1, ResetMoves, RisesOnlyBy
    <3> HIDE DEF last
    <3> QED
      BY <3>1 DEF Ledger!DirectionFits
  <2> QED
    BY <1>4, <2>1 DEF OnlyActiveStudentsStep, orderVars
<1>5. ASSUME orders' = orders, tokenBalance' = tokenBalance
      PROVE  OnlyActiveStudentsStep
  BY <1>0, <1>5 DEF OnlyActiveStudentsStep
<1>6. ASSUME NEW r \in Slots, CreateProduct(r) \/ UpdateProduct(r)
      PROVE  orders' = orders /\ tokenBalance' = tokenBalance
  BY <1>6 DEF CreateProduct, UpdateProduct, orderVars, ledgerVars
<1>7. WritesNoMoney => orders' = orders /\ tokenBalance' = tokenBalance
  BY DEF WritesNoMoney, ledgerVars
<1> QED
  BY <1>1, <1>2, <1>3, <1>4, <1>5, <1>6, <1>7, EconomyStep

\* Orders and tokens go to active students only.
THEOREM ActiveStudentsServed == EconomySpec => OnlyActiveStudentsServed
<1>1. TypeInv /\ [EconomyNext]_economyVars => [OnlyActiveStudentsStep]_economyVars
  BY ServesActiveStudents
<1> QED
  BY <1>1, TypeCorrect, PTL
     DEF EconomySpec, OnlyActiveStudentsServed, OnlyActiveStudentsStep

\* Only the token event service writes events and grants, and only to events
\* that are not deleted.
THEOREM DeletedEventsStayFrozen == EconomySpec => DeletedEventsFrozen
<1>1. TypeInv /\ [EconomyNext]_economyVars =>
        [\A e \in Events :
           tokenEvents[e] # NoRow /\ tokenEvents[e].deleted =>
             tokenGrants'[e] = tokenGrants[e] /\ tokenEvents'[e] = tokenEvents[e]
        ]_<<databaseVars, eventVars, requestVars>>
  <2> SUFFICES ASSUME TypeInv, [EconomyNext]_economyVars, NEW e \in Events,
                      tokenEvents[e] # NoRow, tokenEvents[e].deleted
               PROVE  /\ tokenGrants'[e] = tokenGrants[e]
                      /\ tokenEvents'[e] = tokenEvents[e]
    OBVIOUS
  <2>1. RequestsTyped
    BY DEF TypeInv, EconomyTypeOK, RequestsTyped
  <2>2. /\ tokenEvents = [x \in Events |-> tokenEvents[x]]
        /\ tokenGrants = [x \in Events |-> tokenGrants[x]]
    BY DEF TypeInv, EconomyTypeOK, TokenEventsTypeOK
  <2>3. ASSUME NEW q \in Slots, EventStep(q)
        PROVE  /\ tokenGrants'[e] = tokenGrants[e]
               /\ tokenEvents'[e] = tokenEvents[e]
    BY <2>2, <2>3
       DEF EventStep, ReceiveTokenEventRequest, ServeTokenEventRequest,
           CreateEvent, ReceiveEventCall, ReceiveGrants, AnswerEventCall,
           RenameEvent, DeleteEvent, RefuseGrants, OverflowGrants, SaveGrants,
           TokenEventConflict, GrantsAccepted, IsLive, eventVars
  <2>4. UNCHANGED eventVars =>
          tokenGrants'[e] = tokenGrants[e] /\ tokenEvents'[e] = tokenEvents[e]
    BY DEF eventVars
  <2> QED
    BY <2>1, <2>3, <2>4, OneRequestMoves DEF economyVars
<1> QED
  BY <1>1, TypeCorrect, PTL DEF EconomySpec, DeletedEventsFrozen

\* The plan of a member that is not moved leaves the amount that was asked for.
LEMMA PlanKeepsAmount ==
  ASSUME TypeInv, NEW c \in GrantCalls, NEW u \in DOMAIN c.grants,
         PlanStatus(c, u) = "UNCHANGED"
  PROVE  GrantedAmount(c.event, u) = c.grants[u].amount
<1>1. /\ c.grants[u].amount \in 0..MaxGrant
      /\ GrantedAmount(c.event, u) \in 0..MaxGrant
  <2>1. c.event \in Events /\ u \in Users /\ c.grants[u] \in TokenGrant
    BY GrantNumbers
  <2>2. tokenGrants[c.event][u] \in TokenGrant \cup {NoRow}
    BY <2>1 DEF TypeInv, EconomyTypeOK, TokenEventsTypeOK
  <2> QED
    BY <2>1, <2>2, TokenEventsAssumption DEF TokenGrant, GrantedAmount
<1>2. MaxGrant \in Nat
  BY TokenEventsAssumption
<1>3. CASE tokenGrants[c.event][u] = NoRow
  BY <1>1, <1>2, <1>3 DEF PlanStatus, GrantedAmount
<1>4. CASE tokenGrants[c.event][u] # NoRow
  <2>1. DeltaAmount(c, u) = 0
    BY <1>4 DEF PlanStatus
  <2> QED
    BY <1>1, <1>2, <2>1 DEF DeltaAmount
<1> QED
  BY <1>3, <1>4

\* What the answer to a batch of grants says of what it wrote.
BatchStep(r) ==
  IF answer'[r].code = "OK"
  THEN \A u \in DOMAIN call[r].grants :
         GrantedAmount(call[r].event, u)' = call[r].grants[u].amount
  ELSE UNCHANGED <<tokenGrants, tokenBalance, tokenLogs>>

\* An answered batch was served by one of four steps, and only one of them
\* says OK and writes.
LEMMA BatchAnswered ==
  ASSUME TypeInv, RequestInv, [EconomyNext]_economyVars, NEW r \in Slots,
         call[r] \in GrantCalls, pc[r] # "done", pc'[r] = "done"
  PROVE  BatchStep(r)
<1> DEFINE c == call[r]
<1>1. RequestsTyped
  BY DEF TypeInv, EconomyTypeOK, RequestsTyped
<1>2. pc[r] # "idle"
  BY TokenEventsAssumption DEF RequestInv
<1>3. PICK q \in Slots :
        /\ Progress(q)
        /\ OrderStep(q) \/ ProductStep(q) \/ EventStep(q) \/ ResetStep(q) \/ AccessStep(q)
  BY <1>1, OneRequestMoves DEF economyVars, requestVars
<1>4. q = r /\ call'[r] = c
  BY <1>2, <1>3 DEF Progress, OnlySlot, Untouched
<1>5. EventStep(r)
  BY <1>1, <1>3, <1>4, OrderProgress, ProductProgress, ResetProgress,
     AccessProgress, ServicesApart
<1>6. \/ RefuseGrants(r) \/ OverflowGrants(r) \/ SaveGrants(r) \/ TokenEventConflict(r)
  BY <1>2, <1>5, TokenEventsAssumption
     DEF EventStep, ReceiveTokenEventRequest, ServeTokenEventRequest,
         CreateEvent, ReceiveEventCall, ReceiveGrants, AnswerEventCall,
         RenameEvent, DeleteEvent, Receive, ReceiveAndRespond
<1>7. CASE RefuseGrants(r) \/ OverflowGrants(r) \/ TokenEventConflict(r)
  <2>1. answer'[r].code # "OK"
    BY <1>1, <1>7
       DEF RefuseGrants, OverflowGrants, TokenEventConflict, Respond,
           RetryAfterConflict, Answered, GrantRefusal, RequestsTyped, RequestsTypeOK
  <2> QED
    BY <1>7, <2>1 DEF BatchStep, RefuseGrants, OverflowGrants,
                      TokenEventConflict, databaseVars, eventVars
<1>8. CASE SaveGrants(r)
  <2> DEFINE changed == {u \in DOMAIN c.grants : PlanStatus(c, u) # "UNCHANGED"}
  <2>1. c.event \in Events /\ DOMAIN c.grants \subseteq Users
    BY TokenEventsAssumption DEF GrantCall
  <2>2. tokenGrants'[c.event] =
          [u \in Users |-> IF u \in changed THEN c.grants[u]
                                            ELSE tokenGrants[c.event][u]]
    BY <1>8, <2>1 DEF SaveGrants, TypeInv, EconomyTypeOK, TokenEventsTypeOK
  <2>3. answer'[r].code = "OK"
    BY <1>1, <1>8 DEF SaveGrants, Respond, Answered, RequestsTyped, RequestsTypeOK
  <2>4. ASSUME NEW u \in DOMAIN c.grants
        PROVE  GrantedAmount(c.event, u)' = c.grants[u].amount
    <3>1. c.grants[u] # NoRow
      BY <2>4, GrantNumbers, TokenEventsAssumption
    <3>2. u \in Users /\ c.event \in Events
      BY <2>1
    <3>3. CASE u \in changed
      BY <1>4, <2>2, <3>1, <3>2, <3>3 DEF GrantedAmount
    <3>4. CASE u \notin changed
      <4>1. PlanStatus(c, u) = "UNCHANGED"
        BY <3>4
      <4>2. tokenGrants'[c.event][u] = tokenGrants[c.event][u]
        BY <2>2, <3>2, <3>4
      <4>3. GrantedAmount(c.event, u) = c.grants[u].amount
        BY <4>1, PlanKeepsAmount
      <4> QED
        BY <1>4, <4>2, <4>3 DEF GrantedAmount
    <3> QED
      BY <3>3, <3>4
  <2> QED
    BY <2>3, <2>4 DEF BatchStep
<1> QED
  BY <1>6, <1>7, <1>8

\* A batch of grants is saved for all its members or for none.
THEOREM BatchesAtomic == EconomySpec => BatchAllOrNothing
<1>1. TypeInv /\ RequestInv /\ [EconomyNext]_economyVars =>
        [\A r \in Slots :
           call[r] \in GrantCalls /\ pc[r] # "done" /\ pc'[r] = "done" =>
             BatchStep(r)
        ]_<<databaseVars, eventVars, requestVars>>
  BY BatchAnswered
<1> QED
  BY <1>1, TypeCorrect, RequestsServedOnce, PTL
     DEF EconomySpec, BatchAllOrNothing, BatchStep

=============================================================================
