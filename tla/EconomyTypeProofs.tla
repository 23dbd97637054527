-------------------------- MODULE EconomyTypeProofs --------------------------
(***************************************************************************)
(* Type correctness of the token shop, for any numbers of users, products, *)
(* keys, events and requests.                                              *)
(*                                                                         *)
(* EconomyTypeOK is not inductive: cancelling an order writes the stock of *)
(* its product, which has a type only if the product's row exists.  TypeInv*)
(* adds that.                                                              *)
(***************************************************************************)
EXTENDS TokenEconomy, FiniteSetTheorems, TLAPS

Labels == {"idle", "lookup", "tx", "write", "recover", "done"}

EconomyAnswer == Answer(EconomyCodes \cup {"none"})

RequestsTyped == RequestsTypeOK(EconomyCalls, EconomyCodes)

\* An order names a product that exists.
OrderedProductsExist ==
  \A k \in Keys : orders[k] # NoOrder => products[orders[k].product] # NoRow

TypeInv == EconomyTypeOK /\ OrderedProductsExist

-----------------------------------------------------------------------------
(* Requests *)

\* Every code a service answers with is one of the shop's codes.
LEMMA CodeMembers ==
  /\ OrderCodes \subseteq EconomyCodes
  /\ ProductCodes \subseteq EconomyCodes
  /\ TokenEventCodes \subseteq EconomyCodes
  /\ ResetCodes \subseteq EconomyCodes
  /\ AccessCodes \subseteq EconomyCodes
BY DEF EconomyCodes

\* Receiving a call keeps the request variables typed (Receive).
LEMMA ReceiveType ==
  ASSUME RequestsTyped, NEW r \in Slots, NEW c \in EconomyCalls,
         NEW l \in Labels, Receive(r, c, l)
  PROVE  RequestsTyped'
BY DEF RequestsTyped, RequestsTypeOK, EconomyAnswer, Receive, Labels

\* A plain answer is an answer.
LEMMA AnsweredType ==
  ASSUME NEW code \in EconomyCodes
  PROVE  Answered(code) \in EconomyAnswer
BY DEF Answered, EconomyAnswer, Answer

\* A call answered as it is received keeps the request variables typed.
LEMMA ReceiveAndRespondType ==
  ASSUME RequestsTyped, NEW r \in Slots, NEW c \in EconomyCalls,
         NEW code \in EconomyCodes, ReceiveAndRespond(r, c, code)
  PROVE  RequestsTyped'
BY AnsweredType DEF RequestsTyped, RequestsTypeOK, EconomyAnswer, ReceiveAndRespond

\* Moving on keeps the request variables typed (Goto).
LEMMA GotoType ==
  ASSUME RequestsTyped, NEW r \in Slots, NEW l \in Labels,
         Goto(r, l)
  PROVE  RequestsTyped'
BY DEF RequestsTyped, RequestsTypeOK, EconomyAnswer, Goto, Labels

\* Answering keeps the request variables typed (Respond).
LEMMA RespondType ==
  ASSUME RequestsTyped, NEW r \in Slots, NEW a \in EconomyAnswer,
         Respond(r, a)
  PROVE  RequestsTyped'
BY DEF RequestsTyped, RequestsTypeOK, EconomyAnswer, Respond

\* The retry loop keeps its counter within its limit
\* (runSerializableTransaction).
LEMMA RetryType ==
  ASSUME RequestsTyped, NEW r \in Slots, NEW code \in EconomyCodes,
         RetryAfterConflict(r, code)
  PROVE  RequestsTyped'
<1>1. CASE /\ attempt[r] < MaxAttempts
           /\ attempt' = [attempt EXCEPT ![r] = @ + 1]
           /\ UNCHANGED <<pc, call, answer>>
  BY <1>1, RequestsAssumption DEF RequestsTyped, RequestsTypeOK, EconomyAnswer
<1>2. CASE attempt[r] = MaxAttempts /\ Respond(r, Answered(code))
  BY <1>2, AnsweredType, RespondType
<1> QED
  BY <1>1, <1>2 DEF RetryAfterConflict

\* The parts of the type invariant that a request which writes nothing keeps.
LEMMA UnchangedTables ==
  ASSUME TypeInv, RequestsTyped',
         UNCHANGED <<databaseVars, orderVars, eventVars, accessRead>>
  PROVE  TypeInv'
BY DEF TypeInv, EconomyTypeOK, RequestsTyped, DatabaseTypeOK, OrdersTypeOK,
       TokenEventsTypeOK, AdminUsersTypeOK, OrderedProductsExist,
       databaseVars, orderVars, eventVars

-----------------------------------------------------------------------------
(* Orders *)

\* What resolveExistingOrder answers is an answer: the balance it reports is
\* one a ledger entry holds.
LEMMA ResolveExistingOrderType ==
  ASSUME TypeInv, NEW c \in PurchaseCalls, orders[c.key] # NoOrder
  PROVE  ResolveExistingOrder(c) \in EconomyAnswer
<1> DEFINE order == orders[c.key]
           log == CHOOSE i \in PaymentLogs(c.key) : TRUE
           original == [code |-> "OK", total |-> order.total,
                        remaining |-> tokenLogs[order.user][log].after]
<1>1. c.key \in Keys
  BY OrdersAssumption DEF PurchaseCall
<1>2. order \in Order /\ order.user \in Users /\ order.total \in Nat
  BY <1>1, TokenDatabaseAssumption
     DEF TypeInv, EconomyTypeOK, OrdersTypeOK, Order
<1>3. tokenLogs[order.user] \in Seq(TokenLog)
  BY <1>2 DEF TypeInv, EconomyTypeOK, DatabaseTypeOK
<1>4. ASSUME PaymentLogs(c.key) # {}
      PROVE  original \in EconomyAnswer
  <2>1. log \in DOMAIN tokenLogs[order.user]
    BY <1>4 DEF PaymentLogs
  <2> HIDE DEF log
  <2>2. tokenLogs[order.user][log] \in TokenLog
    BY <2>1, <1>3
  <2>3. tokenLogs[order.user][log].after \in Nat
    BY <2>2, TokenDatabaseAssumption DEF TokenLog
  <2> QED
    BY <1>2, <2>3 DEF EconomyAnswer, Answer, EconomyCodes, OrderCodes
<1>5. /\ Answered("O409_IDEMPOTENCY_KEY_REUSED") \in EconomyAnswer
      /\ Answered("O500_ORDER_CREATE_FAILED") \in EconomyAnswer
  BY AnsweredType DEF EconomyCodes, OrderCodes
<1>6. \/ ResolveExistingOrder(c) = Answered("O409_IDEMPOTENCY_KEY_REUSED")
      \/ ResolveExistingOrder(c) = Answered("O500_ORDER_CREATE_FAILED")
      \/ PaymentLogs(c.key) # {} /\ ResolveExistingOrder(c) = original
  BY DEF ResolveExistingOrder
<1> QED
  BY <1>4, <1>5, <1>6

\* The refusals of a purchase are codes of the order service.
LEMMA PurchaseRefusalType ==
  ASSUME NEW c, PurchaseRefusal(c) # "none"
  PROVE  Answered(PurchaseRefusal(c)) \in EconomyAnswer
<1>1. PurchaseRefusal(c) \in OrderCodes
  BY DEF PurchaseRefusal, OrderCodes
<1> QED
  BY <1>1, CodeMembers, AnsweredType

\* What a failure of the database is answered with.
LEMMA FailureType ==
  ASSUME NEW r \in Slots
  PROVE  Answered(FailureCode(r)) \in EconomyAnswer
<1>1. FailureCode(r) \in OrderCodes
  BY DEF FailureCode, OrderCodes
<1> QED
  BY <1>1, CodeMembers, AnsweredType

\* A transaction that commits is answered, confirmed or not.
LEMMA RespondAfterCommitType ==
  ASSUME RequestsTyped, NEW r \in Slots, NEW a \in EconomyAnswer,
         RespondAfterCommit(r, a)
  PROVE  RequestsTyped'
<1>1. CASE Respond(r, a)
  BY <1>1, RespondType
<1>2. CASE Respond(r, Answered(FailureCode(r)))
  BY <1>2, FailureType, RespondType
<1> QED
  BY <1>1, <1>2 DEF RespondAfterCommit

\* A purchase is received, looked up, refused or recovered without a write.
LEMMA QuietPurchaseSteps ==
  ASSUME TypeInv, NEW r \in Slots,
         \/ \E c \in PurchaseCalls : ReceivePurchase(r, c)
         \/ LookUpKey(r)
         \/ FindKeyTaken(r)
         \/ RefusePurchase(r)
         \/ CollideOnKey(r)
         \/ RecoverFromCollision(r)
  PROVE  RequestsTyped' /\ UNCHANGED <<databaseVars, orderVars>>
<1>0. RequestsTyped
  BY DEF TypeInv, EconomyTypeOK, RequestsTyped
<1>1. ASSUME NEW c \in PurchaseCalls, ReceivePurchase(r, c)
      PROVE  RequestsTyped'
  BY <1>0, <1>1, ReceiveType DEF ReceivePurchase, EconomyCalls, Labels
<1>2. CASE LookUpKey(r)
  BY <1>0, <1>2, ResolveExistingOrderType, RespondType, GotoType
     DEF LookUpKey, Labels
<1>3. CASE FindKeyTaken(r)
  BY <1>0, <1>3, ResolveExistingOrderType, RespondType DEF FindKeyTaken
<1>4. CASE RefusePurchase(r)
  BY <1>0, <1>4, PurchaseRefusalType, RespondType DEF RefusePurchase
<1>5. CASE CollideOnKey(r)
  BY <1>0, <1>5, GotoType DEF CollideOnKey, Labels
<1>6. CASE RecoverFromCollision(r)
  <2>1. Answered("O500_ORDER_CREATE_FAILED") \in EconomyAnswer
    BY AnsweredType DEF EconomyCodes, OrderCodes
  <2> QED
    BY <1>0, <1>6, <2>1, ResolveExistingOrderType, RespondType
       DEF RecoverFromCollision
<1>7. UNCHANGED <<databaseVars, orderVars>>
  BY DEF ReceivePurchase, LookUpKey, FindKeyTaken, RefusePurchase,
         CollideOnKey, RecoverFromCollision
<1> QED
  BY <1>1, <1>2, <1>3, <1>4, <1>5, <1>6, <1>7

\* The price of at least one thing that costs something is positive.
LEMMA PositiveTotal ==
  ASSUME NEW price \in Nat \ {0}, NEW quantity \in Nat \ {0}
  PROVE  price * quantity \in Nat \ {0}
OBVIOUS

\* An existing row of the product table is a product.
LEMMA ProductRow ==
  ASSUME TypeInv, NEW p \in Products, products[p] # NoRow
  PROVE  products[p] \in Product
BY DEF TypeInv, EconomyTypeOK, DatabaseTypeOK

\* One more entry keeps every ledger typed.
LEMMA LedgerType ==
  ASSUME tokenLogs \in [Users -> Seq(TokenLog)], NEW u \in Users,
         NEW entry \in TokenLog,
         tokenLogs' = [tokenLogs EXCEPT ![u] = Append(@, entry)]
  PROVE  tokenLogs' \in [Users -> Seq(TokenLog)]
<1>1. Append(tokenLogs[u], entry) \in Seq(TokenLog)
  OBVIOUS
<1> QED
  BY <1>1

\* One more log row keeps the counters of the administrators' log typed.
LEMMA AuditType ==
  ASSUME adminActionLogs \in [AuditTargets -> Nat], NEW t \in AuditTargets,
         LogAdminAction(t)
  PROVE  adminActionLogs' \in [AuditTargets -> Nat]
BY DEF LogAdminAction

\* What an accepted purchase costs and leaves is in range.
LEMMA AcceptedPurchase ==
  ASSUME TypeInv, NEW c \in PurchaseCalls, PurchaseRefusal(c) = "none"
  PROVE  LET product == products[c.product]
             total   == product.price * c.quantity
         IN  /\ c \in PurchaseCall
             /\ product \in Product
             /\ total \in 1..MaxInt
             /\ tokenBalance[c.user] \in 0..MaxInt
             /\ tokenBalance[c.user] - total \in 0..MaxInt
             /\ product.stock - c.quantity \in 0..MaxInt
             /\ NewOrder(c) \in Order
<1> DEFINE product == products[c.product]
           total == product.price * c.quantity
<1>1. c \in PurchaseCall
  BY OrdersAssumption
<1>2. /\ c.user \in Users /\ c.product \in Products
      /\ c.quantity \in Nat \ {0}
  BY <1>1, OrdersAssumption DEF PurchaseCall
<1>3. /\ product # NoRow
      /\ product.stock >= c.quantity
      /\ total <= MaxInt
      /\ tokenBalance[c.user] >= total
  <2>1. product # NoRow /\ ~(product.stock < c.quantity)
    BY DEF PurchaseRefusal
  <2>2. ~(total > MaxInt \/ tokenBalance[c.user] < total)
    BY DEF PurchaseRefusal
  <2>3. product \in Product
    BY <1>2, <2>1, ProductRow
  <2>4. /\ product.stock \in Int /\ product.price \in Nat \ {0}
        /\ MaxInt \in Int
    BY <2>3, TokenDatabaseAssumption DEF Product
  <2>5. total \in Nat \ {0}
    BY <2>4, <1>2, PositiveTotal
  <2>6. tokenBalance[c.user] \in Int
    BY <1>2, TokenDatabaseAssumption DEF TypeInv, EconomyTypeOK, DatabaseTypeOK
  <2> HIDE DEF product, total
  <2> QED
    BY <2>1, <2>2, <2>4, <2>5, <2>6, <1>2
<1>4. product \in Product
  BY <1>2, <1>3, ProductRow
<1>5. product.stock \in 0..MaxInt /\ product.price \in Nat \ {0}
  BY <1>4, TokenDatabaseAssumption DEF Product
<1>6. total \in Nat \ {0}
  BY <1>2, <1>5, PositiveTotal
<1>7. tokenBalance[c.user] \in 0..MaxInt
  BY <1>2 DEF TypeInv, EconomyTypeOK, DatabaseTypeOK
<1> HIDE DEF product, total
<1>8. /\ total \in 1..MaxInt
      /\ tokenBalance[c.user] - total \in 0..MaxInt
      /\ product.stock - c.quantity \in 0..MaxInt
  BY <1>2, <1>3, <1>5, <1>6, <1>7, TokenDatabaseAssumption
<1>9. NewOrder(c) = [user |-> c.user, product |-> c.product,
                     quantity |-> c.quantity, unitPrice |-> product.price,
                     total |-> total, status |-> "ORDERED", stamps |-> {},
                     reason |-> NoReason]
  BY DEF NewOrder, product, total
<1>10. NewOrder(c) \in Order
  BY <1>1, <1>4, <1>8, <1>9 DEF Order, OrderStatuses, PurchaseCall, Product
<1> QED
  BY <1>1, <1>4, <1>7, <1>8, <1>10 DEF product, total

\* A purchase that commits keeps the types (createOrder).
LEMMA PlaceOrderType ==
  ASSUME TypeInv, NEW r \in Slots, PlaceOrder(r),
         UNCHANGED <<eventVars, accessRead>>
  PROVE  TypeInv'
<1> DEFINE c == call[r]
           product == products[c.product]
           total == product.price * c.quantity
           left == tokenBalance[c.user] - total
<1>1. c \in PurchaseCalls /\ PurchaseRefusal(c) = "none"
  BY DEF PlaceOrder
<1>2. /\ c \in PurchaseCall
      /\ product \in Product
      /\ total \in 1..MaxInt
      /\ tokenBalance[c.user] \in 0..MaxInt
      /\ left \in 0..MaxInt
      /\ product.stock - c.quantity \in 0..MaxInt
      /\ NewOrder(c) \in Order
  BY <1>1, AcceptedPurchase
<1>3. /\ c.user \in Users /\ c.product \in Products
      /\ c.key \in Keys /\ c.quantity \in Quantities
  BY <1>2 DEF PurchaseCall
<1>4. PaymentLog(c, left) \in TokenLog
  <2>1. /\ left + total \in 0..MaxInt /\ -total \in Int
    BY <1>2, TokenDatabaseAssumption
  <2> QED
    BY <1>2, <1>3, <2>1 DEF PaymentLog, TokenLog, TransactionTypes, Sources
<1>5. products' = [products EXCEPT ![c.product] =
                     [product EXCEPT !.stock = @ - c.quantity]]
  BY DEF PlaceOrder
<1>6. [product EXCEPT !.stock = @ - c.quantity] \in Product
  BY <1>2 DEF Product
<1>7. DatabaseTypeOK'
  <2>1. tokenLogs' \in [Users -> Seq(TokenLog)]
    BY <1>3, <1>4, LedgerType
       DEF TypeInv, EconomyTypeOK, DatabaseTypeOK, PlaceOrder
  <2>2. tokenBalance' \in [Users -> 0..MaxInt]
    BY <1>2, <1>3 DEF TypeInv, EconomyTypeOK, DatabaseTypeOK, PlaceOrder
  <2>3. products' \in [Products -> Product \cup {NoRow}]
    BY <1>3, <1>5, <1>6 DEF TypeInv, EconomyTypeOK, DatabaseTypeOK
  <2> QED
    BY <2>1, <2>2, <2>3
       DEF TypeInv, EconomyTypeOK, DatabaseTypeOK, PlaceOrder, userVars
<1>8. OrdersTypeOK'
  BY <1>2, <1>3 DEF TypeInv, EconomyTypeOK, OrdersTypeOK, PlaceOrder
<1>9. RequestsTyped'
  <2>1. [code |-> "OK", total |-> total, remaining |-> left] \in EconomyAnswer
    BY <1>2, TokenDatabaseAssumption
       DEF EconomyAnswer, Answer, EconomyCodes, OrderCodes
  <2> QED
    BY <2>1, RespondAfterCommitType
       DEF TypeInv, EconomyTypeOK, RequestsTyped, PlaceOrder
<1>10. OrderedProductsExist'
  <2>1. \A p \in Products : products[p] # NoRow => products'[p] # NoRow
    BY <1>3, <1>5, <1>6, TokenDatabaseAssumption
       DEF TypeInv, EconomyTypeOK, DatabaseTypeOK
  <2>2. products'[c.product] # NoRow
    BY <1>3, <1>5, <1>6, TokenDatabaseAssumption
       DEF TypeInv, EconomyTypeOK, DatabaseTypeOK
  <2>3. orders' = [orders EXCEPT ![c.key] = NewOrder(c)]
    BY DEF PlaceOrder
  <2>4. NewOrder(c).product = c.product
    BY DEF NewOrder
  <2>5. \A k \in Keys : orders[k] # NoOrder => orders[k].product \in Products
    BY DEF TypeInv, EconomyTypeOK, OrdersTypeOK, Order
  <2> QED
    BY <1>3, <2>1, <2>2, <2>3, <2>4, <2>5
       DEF OrderedProductsExist, TypeInv, EconomyTypeOK, OrdersTypeOK
<1> QED
  BY <1>7, <1>8, <1>9, <1>10
     DEF TypeInv, EconomyTypeOK, RequestsTyped, TokenEventsTypeOK,
         AdminUsersTypeOK, eventVars

\* A status update that writes nothing keeps the requests typed.
LEMMA QuietStatusSteps ==
  ASSUME TypeInv, NEW r \in Slots,
         \/ \E c \in StatusCalls : ReceiveStatusUpdate(r, c)
         \/ AnswerStatusUpdate(r)
         \/ CollideOnRefund(r)
         \/ RecoverFromRefundCollision(r)
  PROVE  RequestsTyped' /\ UNCHANGED <<databaseVars, orderVars>>
<1>0. RequestsTyped
  BY DEF TypeInv, EconomyTypeOK, RequestsTyped
<1>1. ASSUME NEW c \in StatusCalls, ReceiveStatusUpdate(r, c)
      PROVE  RequestsTyped'
  BY <1>0, <1>1, ReceiveType, ReceiveAndRespondType
     DEF ReceiveStatusUpdate, EconomyCalls, Labels, EconomyCodes, OrderCodes
<1>2. CASE AnswerStatusUpdate(r)
  <2> DEFINE c == call[r]
  <2>1. SameStatusAnswer(c) \in EconomyAnswer
    BY AnsweredType DEF SameStatusAnswer, EconomyCodes, OrderCodes
  <2>2. StatusRefusal(c) # "none" => StatusRefusal(c) \in OrderCodes
    BY DEF StatusRefusal, OrderCodes
  <2>3. StatusRefusal(c) # "none" =>
          Answered(StatusRefusal(c)) \in EconomyAnswer
    BY <2>2, CodeMembers, AnsweredType
  <2> QED
    BY <1>0, <1>2, <2>1, <2>3, RespondType DEF AnswerStatusUpdate
<1>3. CASE CollideOnRefund(r)
  BY <1>0, <1>3, GotoType DEF CollideOnRefund, Labels
<1>4. CASE RecoverFromRefundCollision(r)
  <2>1. /\ Answered("OK") \in EconomyAnswer
        /\ Answered("O500_ORDER_STATUS_UPDATE_FAILED") \in EconomyAnswer
    BY AnsweredType DEF EconomyCodes, OrderCodes
  <2> QED
    BY <1>0, <1>4, <2>1, RespondType DEF RecoverFromRefundCollision
<1>5. UNCHANGED <<databaseVars, orderVars>>
  BY DEF ReceiveStatusUpdate, AnswerStatusUpdate, CollideOnRefund,
         RecoverFromRefundCollision
<1> QED
  BY <1>1, <1>2, <1>3, <1>4, <1>5

\* The order row of an accepted status update, and the row it becomes.
LEMMA AcceptedStatusUpdate ==
  ASSUME TypeInv, NEW c \in StatusCalls, StatusRefusal(c) = "none"
  PROVE  /\ c \in StatusCall
         /\ orders[c.order] # NoOrder
         /\ orders[c.order] \in Order
         /\ UpdatedOrder(c) \in Order
         /\ UpdatedOrder(c).product = orders[c.order].product
<1>1. c \in StatusCall
  BY OrdersAssumption
<1>2. c.order \in Keys /\ orders[c.order] # NoOrder
  BY <1>1 DEF StatusCall, StatusRefusal
<1>3. orders[c.order] \in Order
  BY <1>2 DEF TypeInv, EconomyTypeOK, OrdersTypeOK
<1>4. UpdatedOrder(c) \in Order
  BY <1>1, <1>3
     DEF UpdatedOrder, Order, StatusCall, OrderStatuses, TargetStatuses
<1>5. UpdatedOrder(c).product = orders[c.order].product
  BY <1>3 DEF UpdatedOrder, Order
<1> QED
  BY <1>1, <1>2, <1>3, <1>4, <1>5

\* Writing the new status and its log row keeps the order tables typed
\* (updateOrderStatus).
LEMMA RecordStatusChangeType ==
  ASSUME TypeInv, NEW c \in StatusCalls, StatusRefusal(c) = "none",
         RecordStatusChange(c)
  PROVE  /\ OrdersTypeOK'
         /\ adminActionLogs' \in [AuditTargets -> Nat]
         /\ (\A p \in Products : products[p] # NoRow => products'[p] # NoRow)
               => OrderedProductsExist'
<1>1. /\ c.order \in Keys /\ c.target \in OrderStatuses
      /\ orders[c.order] # NoOrder
      /\ orders[c.order].status \in OrderStatuses
      /\ UpdatedOrder(c) \in Order
      /\ UpdatedOrder(c).product = orders[c.order].product
  BY AcceptedStatusUpdate DEF StatusCall, TargetStatuses, OrderStatuses, Order
<1>2. OrdersTypeOK'
  <2>1. orders' \in [Keys -> Order \cup {NoOrder}]
    BY <1>1 DEF TypeInv, EconomyTypeOK, OrdersTypeOK, RecordStatusChange
  <2> DEFINE row == [before |-> orders[c.order].status, after |-> c.target]
  <2>2. row \in StatusLog
    BY <1>1 DEF StatusLog
  <2>3. Append(orderStatusLogs[c.order], row) \in Seq(StatusLog)
    BY <1>1, <2>2 DEF TypeInv, EconomyTypeOK, OrdersTypeOK
  <2>4. orderStatusLogs' \in [Keys -> Seq(StatusLog)]
    BY <1>1, <2>3 DEF TypeInv, EconomyTypeOK, OrdersTypeOK, RecordStatusChange
  <2> QED
    BY <2>1, <2>4 DEF OrdersTypeOK
<1>3. adminActionLogs' \in [AuditTargets -> Nat]
  <2>1. c.order \in AuditTargets
    BY <1>1 DEF AuditTargets, Sources
  <2> QED
    BY <2>1, AuditType
       DEF TypeInv, EconomyTypeOK, DatabaseTypeOK, RecordStatusChange
<1>4. ASSUME \A p \in Products : products[p] # NoRow => products'[p] # NoRow
      PROVE  OrderedProductsExist'
  <2>1. orders' = [orders EXCEPT ![c.order] = UpdatedOrder(c)]
    BY DEF RecordStatusChange
  <2>2. \A k \in Keys : orders[k] # NoOrder => orders[k].product \in Products
    BY DEF TypeInv, EconomyTypeOK, OrdersTypeOK, Order
  <2> QED
    BY <1>1, <1>4, <2>1, <2>2
       DEF OrderedProductsExist, TypeInv, EconomyTypeOK, OrdersTypeOK
<1> QED
  BY <1>2, <1>3, <1>4

\* Accepting or delivering an order keeps the types (updateOrderStatus).
LEMMA AdvanceOrderType ==
  ASSUME TypeInv, NEW r \in Slots, AdvanceOrder(r),
         UNCHANGED <<eventVars, accessRead>>
  PROVE  TypeInv'
<1> DEFINE c == call[r]
<1>1. c \in StatusCalls /\ StatusRefusal(c) = "none" /\ RecordStatusChange(c)
  BY DEF AdvanceOrder
<1>2. products' = products
  BY DEF AdvanceOrder
<1>3. OrdersTypeOK' /\ OrderedProductsExist'
        /\ adminActionLogs' \in [AuditTargets -> Nat]
  BY <1>1, <1>2, RecordStatusChangeType
<1>4. DatabaseTypeOK'
  BY <1>3 DEF TypeInv, EconomyTypeOK, DatabaseTypeOK, AdvanceOrder, userVars,
              ledgerVars
<1>5. RequestsTyped'
  <2>1. Answered("OK") \in EconomyAnswer
    BY AnsweredType DEF EconomyCodes, OrderCodes
  <2> QED
    BY <2>1, RespondAfterCommitType
       DEF TypeInv, EconomyTypeOK, RequestsTyped, AdvanceOrder
<1> QED
  BY <1>3, <1>4, <1>5
     DEF TypeInv, EconomyTypeOK, RequestsTyped, TokenEventsTypeOK,
         AdminUsersTypeOK, eventVars

\* The amounts a cancellation moves stay in range: the two overflow checks of
\* updateOrderStatus.
LEMMA AcceptedCancellation ==
  ASSUME TypeInv, NEW c \in StatusCalls, StatusRefusal(c) = "none",
         c.target = "CANCELED"
  PROVE  LET order == orders[c.order]
         IN  /\ order.user \in Users /\ order.product \in Products
             /\ order.total \in 1..MaxInt
             /\ products[order.product] \in Product
             /\ tokenBalance[order.user] \in 0..MaxInt
             /\ tokenBalance[order.user] + order.total \in 0..MaxInt
             /\ RestoredStock(order) \in 0..MaxInt
<1> DEFINE order == orders[c.order]
           stock == products[order.product].stock
<1>1. order \in Order /\ c.order \in Keys /\ order # NoOrder
  BY AcceptedStatusUpdate DEF StatusCall
<1>2. /\ order.user \in Users /\ order.product \in Products
      /\ order.total \in 1..MaxInt /\ order.quantity \in Nat
  BY <1>1, OrdersAssumption DEF Order
<1>3. products[order.product] \in Product
  BY <1>1, <1>2, ProductRow DEF TypeInv, OrderedProductsExist
<1>4. tokenBalance[order.user] \in 0..MaxInt /\ stock \in 0..MaxInt
  BY <1>2, <1>3 DEF TypeInv, EconomyTypeOK, DatabaseTypeOK, Product
<1>5. /\ ~(tokenBalance[order.user] > MaxInt - order.total)
      /\ ~(stock > MaxInt - order.quantity)
  BY DEF StatusRefusal
<1>6. /\ tokenBalance[order.user] + order.total \in 0..MaxInt
      /\ stock + order.quantity \in 0..MaxInt
  <2> HIDE DEF order, stock
  <2> QED
    BY <1>2, <1>4, <1>5, TokenDatabaseAssumption
<1> QED
  BY <1>2, <1>3, <1>4, <1>6 DEF RestoredStock

\* A cancellation that commits keeps the types (updateOrderStatus).
LEMMA CancelOrderType ==
  ASSUME TypeInv, NEW r \in Slots, CancelOrder(r),
         UNCHANGED <<eventVars, accessRead>>
  PROVE  TypeInv'
<1> DEFINE c == call[r]
           order == orders[c.order]
           balance == tokenBalance[order.user]
           entry == RefundLog(c.order, balance, balance + order.total)
           row == [products[order.product] EXCEPT !.stock = RestoredStock(order)]
<1>1. /\ c \in StatusCalls /\ StatusRefusal(c) = "none"
      /\ c.target = "CANCELED" /\ RecordStatusChange(c)
  BY DEF CancelOrder
<1>2. /\ order.user \in Users /\ order.product \in Products
      /\ order.total \in 1..MaxInt
      /\ products[order.product] \in Product
      /\ balance \in 0..MaxInt
      /\ balance + order.total \in 0..MaxInt
      /\ RestoredStock(order) \in 0..MaxInt
  BY <1>1, AcceptedCancellation
<1>3. c.order \in Keys
  BY <1>1, OrdersAssumption DEF StatusCall
<1>4. entry \in TokenLog
  BY <1>2, <1>3, TokenDatabaseAssumption
     DEF RefundLog, TokenLog, TransactionTypes, Sources
<1>5. row \in Product
  BY <1>2 DEF Product
<1>6. products' = [products EXCEPT ![order.product] = row]
  BY DEF CancelOrder
<1>7. \A p \in Products : products[p] # NoRow => products'[p] # NoRow
  BY <1>2, <1>5, <1>6, TokenDatabaseAssumption
     DEF TypeInv, EconomyTypeOK, DatabaseTypeOK
<1>8. OrdersTypeOK' /\ OrderedProductsExist'
        /\ adminActionLogs' \in [AuditTargets -> Nat]
  BY <1>1, <1>7, RecordStatusChangeType
<1>9. DatabaseTypeOK'
  <2>1. tokenLogs' \in [Users -> Seq(TokenLog)]
    BY <1>2, <1>4, LedgerType
       DEF TypeInv, EconomyTypeOK, DatabaseTypeOK, CancelOrder
  <2>2. tokenBalance' \in [Users -> 0..MaxInt]
    BY <1>2 DEF TypeInv, EconomyTypeOK, DatabaseTypeOK, CancelOrder
  <2>3. products' \in [Products -> Product \cup {NoRow}]
    BY <1>2, <1>5, <1>6 DEF TypeInv, EconomyTypeOK, DatabaseTypeOK
  <2> QED
    BY <1>8, <2>1, <2>2, <2>3
       DEF TypeInv, EconomyTypeOK, DatabaseTypeOK, CancelOrder, userVars
<1>10. RequestsTyped'
  <2>1. Answered("OK") \in EconomyAnswer
    BY AnsweredType DEF EconomyCodes, OrderCodes
  <2> QED
    BY <2>1, RespondAfterCommitType
       DEF TypeInv, EconomyTypeOK, RequestsTyped, CancelOrder
<1> QED
  BY <1>8, <1>9, <1>10
     DEF TypeInv, EconomyTypeOK, RequestsTyped, TokenEventsTypeOK,
         AdminUsersTypeOK, eventVars

\* Every step of the order service keeps the types.
LEMMA OrdersNextType ==
  ASSUME TypeInv, OrdersNext, UNCHANGED <<eventVars, accessRead>>
  PROVE  TypeInv'
<1> PICK r \in Slots : ReceiveOrderRequest(r) \/ ServeOrderRequest(r)
  BY DEF OrdersNext
<1>1. CASE \/ \E c \in PurchaseCalls : ReceivePurchase(r, c)
           \/ LookUpKey(r)
           \/ FindKeyTaken(r)
           \/ RefusePurchase(r)
           \/ CollideOnKey(r)
           \/ RecoverFromCollision(r)
  BY <1>1, QuietPurchaseSteps, UnchangedTables DEF TypeInv, EconomyTypeOK, RequestsTyped
<1>2. CASE \/ \E c \in StatusCalls : ReceiveStatusUpdate(r, c)
           \/ AnswerStatusUpdate(r)
           \/ CollideOnRefund(r)
           \/ RecoverFromRefundCollision(r)
  BY <1>2, QuietStatusSteps, UnchangedTables DEF TypeInv, EconomyTypeOK, RequestsTyped
<1>3. CASE PlaceOrder(r)
  BY <1>3, PlaceOrderType
<1>4. CASE AdvanceOrder(r)
  BY <1>4, AdvanceOrderType
<1>5. CASE CancelOrder(r)
  BY <1>5, CancelOrderType
<1>6. CASE OrderConflict(r)
  <2>1. RequestsTyped'
    BY <1>6, RetryType
       DEF OrderConflict, TypeInv, EconomyTypeOK, RequestsTyped, EconomyCodes,
           OrderCodes
  <2> QED
    BY <1>6, <2>1, UnchangedTables DEF OrderConflict
<1>7. CASE FailOrderRequest(r)
  <2>1. RequestsTyped'
    BY <1>7, FailureType, RespondType
       DEF FailOrderRequest, TypeInv, EconomyTypeOK, RequestsTyped
  <2> QED
    BY <1>7, <2>1, UnchangedTables DEF FailOrderRequest
<1> QED
  BY <1>1, <1>2, <1>3, <1>4, <1>5, <1>6, <1>7
     DEF ReceiveOrderRequest, ServeOrderRequest

-----------------------------------------------------------------------------
(* Products *)

\* Writing one product row keeps the tables typed (createProduct,
\* updateProduct).
LEMMA ProductWriteType ==
  ASSUME TypeInv, NEW p \in Products, NEW row \in Product,
         products' = [products EXCEPT ![p] = row],
         LogAdminAction(p), RequestsTyped',
         UNCHANGED <<userVars, ledgerVars, orderVars, eventVars, accessRead>>
  PROVE  TypeInv'
<1>1. p \in AuditTargets
  BY DEF AuditTargets
<1>2. DatabaseTypeOK'
  BY <1>1, AuditType
     DEF TypeInv, EconomyTypeOK, DatabaseTypeOK, userVars, ledgerVars
<1>3. OrderedProductsExist'
  <2>1. \A k \in Keys : orders[k] # NoOrder => orders[k].product \in Products
    BY DEF TypeInv, EconomyTypeOK, OrdersTypeOK, Order
  <2> QED
    BY <2>1, TokenDatabaseAssumption
       DEF TypeInv, EconomyTypeOK, DatabaseTypeOK, OrderedProductsExist,
           orderVars
<1> QED
  BY <1>2, <1>3
     DEF TypeInv, EconomyTypeOK, RequestsTyped, OrdersTypeOK,
         TokenEventsTypeOK, AdminUsersTypeOK, orderVars, eventVars

\* The row of an accepted creation is a product.
LEMMA CreatedProductType ==
  ASSUME NEW c \in ProductCalls, c.op = "create"
  PROVE  c.product \in Products /\ CreatedProduct(c) \in Product
<1>1. c \in ProductCall /\ \A f \in ProductFields \ {"orderable"} : c[f] # Keep
  BY ProductsAssumption
<1>2. /\ c.price # Keep /\ c.stock # Keep /\ c.published # Keep
      /\ c.described # Keep /\ c.image # Keep
  BY <1>1 DEF ProductFields
<1> QED
  BY <1>1, <1>2 DEF CreatedProduct, Chosen, Product, ProductCall, Optional

\* The row of an accepted update is a product.
LEMMA UpdatedProductType ==
  ASSUME TypeInv, NEW c \in ProductCalls, UpdateRefusal(c) = "none"
  PROVE  /\ c.product \in Products /\ products[c.product] # NoRow
         /\ UpdatedProduct(c) \in Product
<1>1. c \in ProductCall
  BY ProductsAssumption
<1>2. c.product \in Products /\ products[c.product] # NoRow
  BY <1>1 DEF ProductCall, UpdateRefusal
<1>3. products[c.product] \in Product
  BY <1>2, ProductRow
<1> QED
  BY <1>1, <1>2, <1>3 DEF UpdatedProduct, Chosen, Product, ProductCall, Optional

\* Every step of the product service keeps the types.
LEMMA ProductsNextType ==
  ASSUME TypeInv, ProductsNext, UNCHANGED <<eventVars, accessRead>>
  PROVE  TypeInv'
<1>0. RequestsTyped
  BY DEF TypeInv, EconomyTypeOK, RequestsTyped
<1> PICK r \in Slots : \/ \E c \in ProductCalls : ReceiveProductCall(r, c)
                       \/ RefuseProductCall(r)
                       \/ CreateProduct(r)
                       \/ UpdateProduct(r)
                       \/ ProductConflict(r)
  BY DEF ProductsNext
<1>ok. Answered("OK") \in EconomyAnswer
  BY AnsweredType DEF EconomyCodes, ProductCodes
<1>1. ASSUME NEW c \in ProductCalls, ReceiveProductCall(r, c)
      PROVE  TypeInv'
  <2>1. RequestsTyped'
    BY <1>0, <1>1, ReceiveType, ReceiveAndRespondType
       DEF ReceiveProductCall, EconomyCalls, Labels, EconomyCodes, ProductCodes
  <2> QED
    BY <1>1, <2>1, UnchangedTables DEF ReceiveProductCall
<1>2. CASE RefuseProductCall(r)
  <2> DEFINE c == call[r]
             refusal == IF c.op = "create" THEN CreationRefusal(c)
                        ELSE UpdateRefusal(c)
  <2>1. refusal # "none" => refusal \in ProductCodes
    BY DEF CreationRefusal, UpdateRefusal, ImageRefusal, ImageCodes, ProductCodes
  <2>2. refusal # "none" /\ Respond(r, Answered(refusal))
    BY <1>2 DEF RefuseProductCall
  <2>3. Answered(refusal) \in EconomyAnswer
    BY <2>1, <2>2, CodeMembers, AnsweredType
  <2>4. RequestsTyped'
    BY <1>0, <2>2, <2>3, RespondType
  <2> QED
    BY <1>2, <2>4, UnchangedTables DEF RefuseProductCall
<1>3. CASE CreateProduct(r)
  <2>1. RequestsTyped'
    BY <1>0, <1>3, <1>ok, RespondType DEF CreateProduct
  <2> QED
    BY <1>3, <2>1, CreatedProductType, ProductWriteType DEF CreateProduct
<1>4. CASE UpdateProduct(r)
  <2>1. RequestsTyped'
    BY <1>0, <1>4, <1>ok, RespondType DEF UpdateProduct
  <2>2. CASE UNCHANGED <<products, adminActionLogs>>
    BY <1>4, <2>1, <2>2, UnchangedTables
       DEF UpdateProduct, databaseVars, userVars, ledgerVars
  <2>3. CASE /\ products' = [products EXCEPT ![call[r].product] =
                                             UpdatedProduct(call[r])]
             /\ LogAdminAction(call[r].product)
    BY <1>4, <2>1, <2>3, UpdatedProductType, ProductWriteType DEF UpdateProduct
  <2> QED
    BY <1>4, <2>2, <2>3 DEF UpdateProduct
<1>5. CASE ProductConflict(r)
  <2>1. RequestsTyped'
    BY <1>0, <1>5, RetryType DEF ProductConflict, EconomyCodes, ProductCodes
  <2> QED
    BY <1>5, <2>1, UnchangedTables DEF ProductConflict
<1> QED
  BY <1>1, <1>2, <1>3, <1>4, <1>5

-----------------------------------------------------------------------------
(* Token balances *)

\* Every step of a reset keeps the types (resetTokenBalances).
LEMMA TokenBalancesNextType ==
  ASSUME TypeInv, TokenBalancesNext,
         UNCHANGED <<orderVars, eventVars, accessRead>>
  PROVE  TypeInv'
<1>0. RequestsTyped
  BY DEF TypeInv, EconomyTypeOK, RequestsTyped
<1> PICK r \in Slots : \/ \E c \in ResetCalls : ReceiveReset(r, c)
                       \/ ResetNothing(r)
                       \/ ResetTokenBalances(r)
                       \/ ResetConflict(r)
  BY DEF TokenBalancesNext
<1>ok. Answered("OK") \in EconomyAnswer
  BY AnsweredType DEF EconomyCodes, ResetCodes
<1>1. ASSUME NEW c \in ResetCalls, ReceiveReset(r, c)
      PROVE  TypeInv'
  <2>1. RequestsTyped'
    BY <1>0, <1>1, ReceiveType, ReceiveAndRespondType
       DEF ReceiveReset, EconomyCalls, Labels, EconomyCodes, ResetCodes
  <2> QED
    BY <1>1, <2>1, UnchangedTables DEF ReceiveReset
<1>2. CASE ResetNothing(r)
  <2>1. RequestsTyped'
    BY <1>0, <1>2, <1>ok, RespondType DEF ResetNothing
  <2> QED
    BY <1>2, <2>1, UnchangedTables DEF ResetNothing
<1>3. CASE ResetTokenBalances(r)
  <2>1. RequestsTyped'
    BY <1>0, <1>3, <1>ok, RespondType DEF ResetTokenBalances
  <2>2. \A u \in Users : ResetLog(u) \in TokenLog
    BY TokenDatabaseAssumption
       DEF ResetLog, TokenLog, TransactionTypes, Sources, TypeInv,
           EconomyTypeOK, DatabaseTypeOK
  <2>3. \A u \in Users :
          /\ tokenLogs[u] \in Seq(TokenLog)
          /\ Append(tokenLogs[u], ResetLog(u)) \in Seq(TokenLog)
    BY <2>2 DEF TypeInv, EconomyTypeOK, DatabaseTypeOK
  <2>4. tokenLogs' \in [Users -> Seq(TokenLog)]
    BY <1>3, <2>3 DEF ResetTokenBalances
  <2>5. tokenBalance' \in [Users -> 0..MaxInt]
    BY <1>3, TokenDatabaseAssumption
       DEF ResetTokenBalances, TypeInv, EconomyTypeOK, DatabaseTypeOK
  <2>6. NoSource \in AuditTargets
    BY DEF AuditTargets, Sources
  <2>7. adminActionLogs' \in [AuditTargets -> Nat]
    BY <1>3, <2>6, AuditType
       DEF ResetTokenBalances, TypeInv, EconomyTypeOK, DatabaseTypeOK
  <2> QED
    BY <1>3, <2>1, <2>4, <2>5, <2>7
       DEF ResetTokenBalances, TypeInv, EconomyTypeOK, RequestsTyped,
           DatabaseTypeOK, OrdersTypeOK, TokenEventsTypeOK, AdminUsersTypeOK,
           OrderedProductsExist, userVars, orderVars, eventVars
<1>4. CASE ResetConflict(r)
  <2>1. RequestsTyped'
    BY <1>0, <1>4, RetryType DEF ResetConflict, EconomyCodes, ResetCodes
  <2> QED
    BY <1>4, <2>1, UnchangedTables DEF ResetConflict
<1> QED
  BY <1>1, <1>2, <1>3, <1>4

-----------------------------------------------------------------------------
(* Token events *)

\* Writing one event row keeps the tables typed (create, updateTokenEvent,
\* deleteTokenEvent).
LEMMA EventWriteType ==
  ASSUME TypeInv, NEW e \in Events, NEW row \in TokenEvent,
         tokenEvents' = [tokenEvents EXCEPT ![e] = row],
         LogAdminAction(e), RequestsTyped',
         UNCHANGED <<userVars, ledgerVars, products, tokenGrants, orderVars,
                     accessRead>>
  PROVE  TypeInv'
<1>1. e \in AuditTargets
  BY DEF AuditTargets, Sources
<1>2. DatabaseTypeOK'
  BY <1>1, AuditType
     DEF TypeInv, EconomyTypeOK, DatabaseTypeOK, userVars, ledgerVars
<1>3. TokenEventsTypeOK'
  BY DEF TypeInv, EconomyTypeOK, TokenEventsTypeOK
<1> QED
  BY <1>2, <1>3
     DEF TypeInv, EconomyTypeOK, RequestsTyped, OrdersTypeOK,
         AdminUsersTypeOK, OrderedProductsExist, orderVars

\* The numbers a grant request works with.
LEMMA GrantNumbers ==
  ASSUME TypeInv, NEW c \in GrantCalls, NEW u \in DOMAIN c.grants
  PROVE  /\ c.event \in Events /\ u \in Users
         /\ c.grants[u] \in TokenGrant
         /\ DeltaAmount(c, u) \in Int
         /\ tokenBalance[u] \in 0..MaxInt
<1>1. c \in GrantCall
  BY TokenEventsAssumption
<1>2. /\ c.event \in Events /\ u \in Users
      /\ c.grants[u] \in TokenGrant
  BY <1>1 DEF GrantCall
<1>3. GrantedAmount(c.event, u) \in Int
  <2>1. tokenGrants[c.event][u] \in TokenGrant \cup {NoRow}
    BY <1>2 DEF TypeInv, EconomyTypeOK, TokenEventsTypeOK
  <2> QED
    BY <2>1, TokenEventsAssumption DEF GrantedAmount, TokenGrant
<1>4. DeltaAmount(c, u) \in Int
  BY <1>2, <1>3, TokenEventsAssumption DEF DeltaAmount, TokenGrant
<1> QED
  BY <1>2, <1>4 DEF TypeInv, EconomyTypeOK, DatabaseTypeOK

\* The checks of saveGrants and the column's range bound what an accepted
\* batch moves.
LEMMA AcceptedGrants ==
  ASSUME TypeInv, NEW c \in GrantCalls, GrantsAccepted(c), ~Overflows(c)
  PROVE  \A u \in DOMAIN c.grants :
           /\ u \in Users
           /\ c.grants[u] \in TokenGrant
           /\ DeltaAmount(c, u) \in Int
           /\ tokenBalance[u] \in 0..MaxInt
           /\ tokenBalance[u] + DeltaAmount(c, u) \in 0..MaxInt
           /\ GrantLog(c, u) \in TokenLog
<1> TAKE u \in DOMAIN c.grants
<1>1. /\ c.event \in Events /\ u \in Users /\ c.grants[u] \in TokenGrant
      /\ DeltaAmount(c, u) \in Int
      /\ tokenBalance[u] \in 0..MaxInt
  BY GrantNumbers
<1>2. ~(DeltaAmount(c, u) < 0 /\ tokenBalance[u] + DeltaAmount(c, u) < 0)
  BY DEF GrantsAccepted, GrantRefusal
<1>3. ~(tokenBalance[u] + DeltaAmount(c, u) > MaxInt)
  BY DEF Overflows
<1>4. tokenBalance[u] + DeltaAmount(c, u) \in 0..MaxInt
  BY <1>1, <1>2, <1>3, TokenDatabaseAssumption
<1>5. GrantLog(c, u) \in TokenLog
  BY <1>1, <1>4 DEF GrantLog, TokenLog, TransactionTypes, Sources
<1> QED
  BY <1>1, <1>4, <1>5

\* A batch of grants that commits keeps the types (saveGrants).
LEMMA SaveGrantsType ==
  ASSUME TypeInv, NEW r \in Slots, SaveGrants(r),
         UNCHANGED <<orderVars, accessRead>>
  PROVE  TypeInv'
<1> DEFINE c == call[r]
           D == DOMAIN c.grants
<1>1. c \in GrantCalls /\ GrantsAccepted(c) /\ ~Overflows(c)
  BY DEF SaveGrants
<1>2. c.event \in Events
  BY <1>1, TokenEventsAssumption DEF GrantCall
<1>3. \A u \in D :
        /\ u \in Users
        /\ c.grants[u] \in TokenGrant
        /\ tokenBalance[u] + DeltaAmount(c, u) \in 0..MaxInt
  BY <1>1, AcceptedGrants
<1>4. \A u \in D : GrantLog(c, u) \in TokenLog
  BY <1>1, AcceptedGrants
<1>5. Moved(c) \subseteq D
  BY DEF Moved
<1>6. tokenBalance' \in [Users -> 0..MaxInt]
  BY <1>3, <1>5 DEF SaveGrants, TypeInv, EconomyTypeOK, DatabaseTypeOK
<1>7. tokenLogs' \in [Users -> Seq(TokenLog)]
  <2>1. \A u \in Moved(c) : Append(tokenLogs[u], GrantLog(c, u)) \in Seq(TokenLog)
    BY <1>3, <1>4, <1>5 DEF TypeInv, EconomyTypeOK, DatabaseTypeOK
  <2> QED
    BY <2>1 DEF SaveGrants, TypeInv, EconomyTypeOK, DatabaseTypeOK
<1>8. adminActionLogs' \in [AuditTargets -> Nat]
  <2>1. c.event \in AuditTargets
    BY <1>2 DEF AuditTargets, Sources
  <2> QED
    BY <2>1, AuditType DEF SaveGrants, TypeInv, EconomyTypeOK, DatabaseTypeOK
<1>9. TokenEventsTypeOK'
  <2>1. \A u \in Users : tokenGrants[c.event][u] \in TokenGrant \cup {NoRow}
    BY <1>2 DEF TypeInv, EconomyTypeOK, TokenEventsTypeOK
  <2> QED
    BY <1>2, <1>3, <2>1
       DEF SaveGrants, TypeInv, EconomyTypeOK, TokenEventsTypeOK
<1>10. RequestsTyped'
  <2>1. Answered("OK") \in EconomyAnswer
    BY AnsweredType DEF EconomyCodes, TokenEventCodes
  <2> QED
    BY <2>1, RespondType
       DEF SaveGrants, TypeInv, EconomyTypeOK, RequestsTyped
<1> QED
  BY <1>6, <1>7, <1>8, <1>9, <1>10
     DEF SaveGrants, TypeInv, EconomyTypeOK, RequestsTyped, DatabaseTypeOK,
         OrdersTypeOK, AdminUsersTypeOK, OrderedProductsExist, userVars,
         orderVars

\* Every step of the token event service keeps the types.
LEMMA TokenEventsNextType ==
  ASSUME TypeInv, TokenEventsNext, UNCHANGED <<orderVars, accessRead>>
  PROVE  TypeInv'
<1>0. RequestsTyped
  BY DEF TypeInv, EconomyTypeOK, RequestsTyped
<1> PICK r \in Slots : ReceiveTokenEventRequest(r) \/ ServeTokenEventRequest(r)
  BY DEF TokenEventsNext
<1>ok. /\ Answered("OK") \in EconomyAnswer
       /\ Answered("T404_TOKEN_EVENT_NOT_FOUND") \in EconomyAnswer
       /\ Answered("500") \in EconomyAnswer
  BY AnsweredType DEF EconomyCodes, TokenEventCodes
<1>1. ASSUME NEW c \in EventCalls, CreateEvent(r, c)
      PROVE  TypeInv'
  <2>1. c \in EventCall
    BY TokenEventsAssumption
  <2>2. [name |-> c.name, deleted |-> FALSE] \in TokenEvent /\ c.event \in Events
    BY <2>1 DEF EventCall, TokenEvent
  <2>3. RequestsTyped'
    BY <1>0, <1>1, ReceiveAndRespondType
       DEF CreateEvent, EconomyCalls, EconomyCodes, TokenEventCodes
  <2> QED
    BY <1>1, <2>2, <2>3, EventWriteType DEF CreateEvent
<1>2. ASSUME NEW c \in EventCalls, ReceiveEventCall(r, c)
      PROVE  TypeInv'
  <2>1. RequestsTyped'
    BY <1>0, <1>2, ReceiveType DEF ReceiveEventCall, EconomyCalls, Labels
  <2> QED
    BY <1>2, <2>1, UnchangedTables DEF ReceiveEventCall
<1>3. ASSUME NEW c \in GrantCalls, ReceiveGrants(r, c)
      PROVE  TypeInv'
  <2>1. RequestsTyped'
    BY <1>0, <1>3, ReceiveType DEF ReceiveGrants, EconomyCalls, Labels
  <2> QED
    BY <1>3, <2>1, UnchangedTables DEF ReceiveGrants
<1>4. CASE AnswerEventCall(r)
  <2>1. RequestsTyped'
    BY <1>0, <1>4, <1>ok, RespondType DEF AnswerEventCall
  <2> QED
    BY <1>4, <2>1, UnchangedTables DEF AnswerEventCall
<1>5. CASE RenameEvent(r) \/ DeleteEvent(r)
  <2> DEFINE c == call[r]
             before == tokenEvents[c.event]
  <2>1. c \in EventCall /\ IsLive(c.event)
    BY <1>5, TokenEventsAssumption DEF RenameEvent, DeleteEvent
  <2>2. c.event \in Events /\ c.name \in Names /\ before \in TokenEvent
    BY <2>1 DEF EventCall, IsLive, TypeInv, EconomyTypeOK, TokenEventsTypeOK
  <2>3. /\ [before EXCEPT !.name = c.name] \in TokenEvent
        /\ [before EXCEPT !.deleted = TRUE] \in TokenEvent
    BY <2>2 DEF TokenEvent
  <2>4. \/ tokenEvents' = [tokenEvents EXCEPT ![c.event] =
                              [before EXCEPT !.name = c.name]]
        \/ tokenEvents' = [tokenEvents EXCEPT ![c.event] =
                              [before EXCEPT !.deleted = TRUE]]
    BY <1>5 DEF RenameEvent, DeleteEvent
  <2>5. RequestsTyped'
    BY <1>0, <1>5, <1>ok, RespondType DEF RenameEvent, DeleteEvent
  <2> QED
    BY <1>5, <2>2, <2>3, <2>4, <2>5, EventWriteType DEF RenameEvent, DeleteEvent
<1>6. CASE RefuseGrants(r)
  <2> DEFINE c == call[r]
  <2>1. ASSUME NEW u \in DOMAIN c.grants, GrantRefusal(c, u) # "none",
               Respond(r, Answered(GrantRefusal(c, u)))
        PROVE  RequestsTyped'
    <3>1. GrantRefusal(c, u) \in TokenEventCodes
      BY <2>1 DEF GrantRefusal, TokenEventCodes
    <3>2. Answered(GrantRefusal(c, u)) \in EconomyAnswer
      BY <3>1, CodeMembers, AnsweredType
    <3> QED
      BY <1>0, <2>1, <3>2, RespondType
  <2>2. RequestsTyped'
    BY <1>0, <1>6, <1>ok, <2>1, RespondType DEF RefuseGrants
  <2> QED
    BY <1>6, <2>2, UnchangedTables DEF RefuseGrants
<1>7. CASE OverflowGrants(r)
  <2>1. RequestsTyped'
    BY <1>0, <1>7, <1>ok, RespondType DEF OverflowGrants
  <2> QED
    BY <1>7, <2>1, UnchangedTables DEF OverflowGrants
<1>8. CASE SaveGrants(r)
  BY <1>8, SaveGrantsType
<1>9. CASE TokenEventConflict(r)
  <2>1. RequestsTyped'
    BY <1>0, <1>9, RetryType DEF TokenEventConflict, EconomyCodes, TokenEventCodes
  <2> QED
    BY <1>9, <2>1, UnchangedTables DEF TokenEventConflict
<1> QED
  BY <1>1, <1>2, <1>3, <1>4, <1>5, <1>6, <1>7, <1>8, <1>9
     DEF ReceiveTokenEventRequest, ServeTokenEventRequest

-----------------------------------------------------------------------------
(* Accounts *)

\* The number of log rows of an account change is a natural number.
LEMMA ChangedFieldsCount ==
  ASSUME NEW c, NEW row
  PROVE  Cardinality(ChangedFields(c, row)) \in Nat
<1>1. IsFiniteSet({"role", "status"})
  <2>1. {"role", "status"} = ({} \cup {"role"}) \cup {"status"}
    OBVIOUS
  <2>2. IsFiniteSet({} \cup {"role"})
    BY FS_EmptySet, FS_AddElement
  <2> QED
    BY <2>1, <2>2, FS_AddElement
<1>2. IsFiniteSet(ChangedFields(c, row))
  BY <1>1, FS_Subset DEF ChangedFields
<1> QED
  BY <1>2, FS_CardinalityType

\* Every step of an account change keeps the types (AdminUsersService.update).
LEMMA AdminUsersNextType ==
  ASSUME TypeInv, AdminUsersNext, UNCHANGED <<orderVars, eventVars>>
  PROVE  TypeInv'
<1>0. RequestsTyped
  BY DEF TypeInv, EconomyTypeOK, RequestsTyped
<1> PICK r \in Slots : \/ \E c \in AccessCalls : ReceiveAccess(r, c)
                       \/ ReadAccess(r)
                       \/ WriteAccess(r)
  BY DEF AdminUsersNext
<1>ok. Answered("OK") \in EconomyAnswer
  BY AnsweredType DEF EconomyCodes, AccessCodes
<1>1. ASSUME NEW c \in AccessCalls, ReceiveAccess(r, c)
      PROVE  TypeInv'
  <2>1. RequestsTyped'
    BY <1>0, <1>1, ReceiveType, ReceiveAndRespondType
       DEF ReceiveAccess, EconomyCalls, Labels, EconomyCodes, AccessCodes
  <2> QED
    BY <1>1, <2>1, UnchangedTables DEF ReceiveAccess
<1>2. CASE ReadAccess(r)
  <2> DEFINE c == call[r]
             row == [role |-> role[c.user], status |-> status[c.user]]
  <2>1. c \in AccessCall
    BY <1>2, AdminUsersAssumption DEF ReadAccess
  <2>2. row \in AccessRead
    BY <2>1 DEF AccessCall, AccessRead, TypeInv, EconomyTypeOK, DatabaseTypeOK
  <2>3. AdminUsersTypeOK'
    BY <1>2, <2>2 DEF ReadAccess, TypeInv, EconomyTypeOK, AdminUsersTypeOK
  <2>4. AccessRefusal(c, row) # "none" =>
          Answered(AccessRefusal(c, row)) \in EconomyAnswer
    <3>1. AccessRefusal(c, row) # "none" => AccessRefusal(c, row) \in AccessCodes
      BY DEF AccessRefusal, AccessCodes
    <3> QED
      BY <3>1, CodeMembers, AnsweredType
  <2>5. RequestsTyped'
    BY <1>0, <1>2, <1>ok, <2>4, RespondType, GotoType DEF ReadAccess, Labels
  <2> QED
    BY <1>2, <2>3, <2>5
       DEF ReadAccess, TypeInv, EconomyTypeOK, RequestsTyped, DatabaseTypeOK,
           OrdersTypeOK, TokenEventsTypeOK, OrderedProductsExist,
           databaseVars, orderVars, eventVars
<1>3. CASE WriteAccess(r)
  <2> DEFINE c == call[r]
             changed == ChangedFields(c, accessRead[r])
  <2>1. c \in AccessCall
    BY <1>3, AdminUsersAssumption DEF WriteAccess
  <2>2. /\ c.user \in Users /\ c.user \in AuditTargets
        /\ "role" \in changed => c.role \in Roles
        /\ "status" \in changed => c.status \in Statuses
    BY <2>1 DEF AccessCall, AuditTargets, ChangedFields
  <2>3. Cardinality(changed) \in Nat
    BY ChangedFieldsCount
  <2> HIDE DEF changed
  <2>4. /\ role' = IF "role" \in changed
                   THEN [role EXCEPT ![c.user] = c.role] ELSE role
        /\ status' = IF "status" \in changed
                     THEN [status EXCEPT ![c.user] = c.status] ELSE status
        /\ adminActionLogs' =
             [adminActionLogs EXCEPT ![c.user] = @ + Cardinality(changed)]
    BY <1>3 DEF WriteAccess, changed
  <2>5. /\ role' \in [Users -> Roles]
        /\ status' \in [Users -> Statuses]
    BY <2>2, <2>4 DEF TypeInv, EconomyTypeOK, DatabaseTypeOK
  <2>6. adminActionLogs' \in [AuditTargets -> Nat]
    <3>1. adminActionLogs[c.user] + Cardinality(changed) \in Nat
      BY <2>2, <2>3 DEF TypeInv, EconomyTypeOK, DatabaseTypeOK
    <3> QED
      BY <2>2, <2>4, <3>1 DEF TypeInv, EconomyTypeOK, DatabaseTypeOK
  <2>7. RequestsTyped'
    BY <1>0, <1>3, <1>ok, RespondType DEF WriteAccess
  <2> QED
    BY <1>3, <2>5, <2>6, <2>7
       DEF WriteAccess, TypeInv, EconomyTypeOK, RequestsTyped, DatabaseTypeOK,
           OrdersTypeOK, TokenEventsTypeOK, AdminUsersTypeOK,
           OrderedProductsExist, ledgerVars, orderVars, eventVars
<1> QED
  BY <1>1, <1>2, <1>3

-----------------------------------------------------------------------------
(* The shop *)

\* The shop starts typed.
LEMMA TypeInit ==
  EconomyInit => TypeInv
<1> SUFFICES ASSUME EconomyInit PROVE TypeInv
  OBVIOUS
<1>1. DatabaseTypeOK
  <2>1. \A u \in Users : InitialLogs(u) \in Seq(TokenLog)
    <3> TAKE u \in Users
    <3> DEFINE entry == [type |-> "EVENT_GRANT", source |-> NoSource,
                         before |-> 0, after |-> InitialBalance[u],
                         delta |-> InitialBalance[u]]
    <3>1. entry \in TokenLog
      BY TokenDatabaseAssumption DEF TokenLog, TransactionTypes, Sources
    <3>2. InitialLogs(u) = <<>> \/ InitialLogs(u) = <<entry>>
      BY DEF InitialLogs
    <3> HIDE DEF entry
    <3>3. <<entry>> \in Seq(TokenLog) /\ <<>> \in Seq(TokenLog)
      BY <3>1
    <3> QED
      BY <3>2, <3>3
  <2> QED
    BY <2>1, TokenDatabaseAssumption
       DEF EconomyInit, DatabaseInit, DatabaseTypeOK, Roles, Statuses
<1>2. OrdersTypeOK /\ OrderedProductsExist
  BY DEF EconomyInit, OrdersInit, OrdersTypeOK, OrderedProductsExist
<1>3. TokenEventsTypeOK /\ AdminUsersTypeOK
  BY DEF EconomyInit, TokenEventsInit, TokenEventsTypeOK, AdminUsersInit,
         AdminUsersTypeOK, AccessRead, Roles, Statuses
<1>4. RequestsTyped
  BY RequestsAssumption
     DEF EconomyInit, RequestsInit, RequestsTyped, RequestsTypeOK, NoAnswer,
         Answered, Answer
<1> QED
  BY <1>1, <1>2, <1>3, <1>4 DEF TypeInv, EconomyTypeOK, RequestsTyped

\* Every step of the shop, or none, keeps the types.
LEMMA TypeNext ==
  TypeInv /\ [EconomyNext]_economyVars => TypeInv'
<1> SUFFICES ASSUME TypeInv, [EconomyNext]_economyVars PROVE TypeInv'
  OBVIOUS
<1>1. CASE OrdersNext /\ UNCHANGED <<eventVars, accessRead>>
  BY <1>1, OrdersNextType
<1>2. CASE ProductsNext /\ UNCHANGED <<eventVars, accessRead>>
  BY <1>2, ProductsNextType
<1>3. CASE TokenEventsNext /\ UNCHANGED <<orderVars, accessRead>>
  BY <1>3, TokenEventsNextType
<1>4. CASE TokenBalancesNext /\ UNCHANGED <<orderVars, eventVars, accessRead>>
  BY <1>4, TokenBalancesNextType
<1>5. CASE AdminUsersNext /\ UNCHANGED <<orderVars, eventVars>>
  BY <1>5, AdminUsersNextType
<1>6. CASE UNCHANGED economyVars
  <2>1. RequestsTyped'
    BY <1>6 DEF TypeInv, EconomyTypeOK, RequestsTyped, RequestsTypeOK,
                economyVars, requestVars
  <2> QED
    BY <1>6, <2>1, UnchangedTables DEF economyVars
<1> QED
  BY <1>1, <1>2, <1>3, <1>4, <1>5, <1>6 DEF EconomyNext

\* Balances, stock, grants and ledger entries never leave the range of their
\* columns, whatever the services do; the range checks of createOrder,
\* updateOrderStatus and saveGrants are enough for that.
THEOREM TypeCorrect == EconomySpec => []TypeInv
<1>1. EconomyInit => TypeInv
  BY TypeInit
<1>2. TypeInv /\ [EconomyNext]_economyVars => TypeInv'
  BY TypeNext
<1> QED
  BY <1>1, <1>2, PTL DEF EconomySpec

\* The type invariant that the runs check.
THEOREM EconomyTyped == EconomySpec => []EconomyTypeOK
<1>1. TypeInv => EconomyTypeOK
  BY DEF TypeInv
<1> QED
  BY <1>1, TypeCorrect, PTL

=============================================================================
