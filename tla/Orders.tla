------------------------------- MODULE Orders -------------------------------
(***************************************************************************)
(* OrdersService: students buy products with tokens (createOrder), and     *)
(* administrators accept, deliver or cancel the orders (updateOrderStatus).*)
(*                                                                         *)
(* createOrder looks the idempotency key up outside any transaction, then  *)
(* again inside a SERIALIZABLE one that takes the stock, takes the tokens, *)
(* inserts the order and writes the ledger entry.  Losing the race for the *)
(* unique key sends the request back to a lookup.  The steps of a request  *)
(* are the labels "lookup", "tx" and "recover" of its slot.                *)
(*                                                                         *)
(* The database may fail a request at any of them, and may lose the word   *)
(* on a transaction it commits: both are answered as failures.             *)
(***************************************************************************)
EXTENDS TokenDatabase, Requests, FiniteSetsExt

CONSTANTS
  Quantities,        \* order quantities clients ask for
  Reasons,           \* cancellation reasons
  NoReason,          \* the request names no cancellation reason
  NoOrder,           \* a key no order has
  PurchaseCalls,     \* the POST /orders requests clients send
  StatusCalls        \* the PATCH /admin/orders/{id}/status requests sent

VARIABLES
  orders,            \* orders, by idempotency key
  orderStatusLogs    \* order_status_logs, per order in order of creation

orderVars == <<orders, orderStatusLogs>>

OrderStatuses == {"ORDERED", "ACCEPTED", "DELIVERED", "CANCELED"}
TargetStatuses == {"ACCEPTED", "DELIVERED", "CANCELED"}

PurchaseCall == [user : Users, product : Products, quantity : Quantities,
                 key : Keys]
StatusCall == [admin : Users, order : Keys, target : TargetStatuses,
               reason : Reasons \cup {NoReason}]

Order == [user      : Users,
          product   : Products,
          quantity  : Quantities,
          unitPrice : 1..MaxInt,
          total     : 1..MaxInt,
          status    : OrderStatuses,
          stamps    : SUBSET TargetStatuses,  \* the _at columns that are set
          reason    : Reasons \cup {NoReason}]

OrderCodes ==
  {"OK", "O400_CANCELLATION_REASON", "O403_ORDER_NOT_ALLOWED",
   "O404_PRODUCT_NOT_FOUND", "O404_ORDER_NOT_FOUND",
   "O409_PRODUCT_UNAVAILABLE", "O409_INSUFFICIENT_STOCK",
   "O409_INSUFFICIENT_TOKENS", "O409_IDEMPOTENCY_KEY_REUSED",
   "O409_ORDER_CANCELLATION_CONFLICT", "O409_INVALID_ORDER_STATUS_TRANSITION",
   "O409_TOKEN_BALANCE_OVERFLOW", "O409_PRODUCT_STOCK_OVERFLOW",
   "O409_ORDER_CONCURRENT_UPDATE", "O500_ORDER_CREATE_FAILED",
   "O500_ORDER_STATUS_UPDATE_FAILED", "HTTP_500"}

StatusLog == [before : OrderStatuses, after : OrderStatuses]

ASSUME OrdersAssumption ==
  /\ Quantities \subseteq Nat \ {0}
  /\ PurchaseCalls \subseteq PurchaseCall
  /\ StatusCalls \subseteq StatusCall
  /\ PurchaseCalls \cap StatusCalls = {}
  /\ NoCall \notin PurchaseCalls \cup StatusCalls
  /\ NoOrder \notin Order
  /\ NoReason \notin Reasons

OrdersInit ==
  /\ orders = [k \in Keys |-> NoOrder]
  /\ orderStatusLogs = [k \in Keys |-> <<>>]

OrdersTypeOK ==
  /\ orders \in [Keys -> Order \cup {NoOrder}]
  /\ orderStatusLogs \in [Keys -> Seq(StatusLog)]

-----------------------------------------------------------------------------
(* Failures of the database: a timeout, a lost connection, an error nobody *)
(* expected.                                                               *)

\* What the catch block makes of such an error.  What fails inside the catch
\* block itself escapes it, and the exception filter gives it a code.
FailureCode(r) ==
  IF pc[r] = "recover" THEN "HTTP_500"
  ELSE IF call[r] \in PurchaseCalls THEN "O500_ORDER_CREATE_FAILED"
  ELSE "O500_ORDER_STATUS_UPDATE_FAILED"

\* A lookup fails, or a transaction that is rolled back.
FailOrderRequest(r) ==
  /\ pc[r] \in {"lookup", "tx", "recover"}
  /\ call[r] \in PurchaseCalls \cup StatusCalls
  /\ Respond(r, Answered(FailureCode(r)))
  /\ UNCHANGED <<databaseVars, orderVars>>

\* The answer to a transaction that commits: its result a, or a failure when
\* the commit is not confirmed.
RespondAfterCommit(r, a) ==
  Respond(r, a) \/ Respond(r, Answered(FailureCode(r)))

-----------------------------------------------------------------------------
(* Purchases *)

IsPaymentOf(k, entry) == entry.type = "ORDER_PAYMENT" /\ entry.source = k
IsRefundOf(k, entry)  == entry.type = "ORDER_REFUND" /\ entry.source = k

\* The ORDER_PAYMENT entries of the order with key k.
PaymentLogs(k) ==
  LET owner == orders[k].user
  IN  {i \in DOMAIN tokenLogs[owner] : IsPaymentOf(k, tokenLogs[owner][i])}

\* No order has key k: the check at the start of the transaction, and the unique
\* index on the column.
KeyReused(k) == TRUE     \* mutant: neither the check nor the index
KeyIsFree(k) == orders[k] = NoOrder

\* Mutant: a retry is answered with what the buyer has now.
ResolveWithCurrentBalance(c) ==
  LET order == orders[c.key]
  IN  IF /\ order.user = c.user
         /\ order.product = c.product
         /\ order.quantity = c.quantity
      THEN [code |-> "OK", total |-> order.total,
            remaining |-> tokenBalance[c.user]]
      ELSE Answered("O409_IDEMPOTENCY_KEY_REUSED")

\* Mutant: whoever holds the key is taken for its owner.
ResolveByKeyAlone(c) ==
  LET log == CHOOSE i \in PaymentLogs(c.key) : TRUE
  IN  [code |-> "OK", total |-> orders[c.key].total,
       remaining |-> tokenLogs[orders[c.key].user][log].after]

\* The answer to a purchase with a key some order already has: the original
\* result when it is the same purchase, a conflict otherwise.
ResolveExistingOrder(c) ==
  LET order == orders[c.key]
      same  == /\ order.user = c.user
               /\ order.product = c.product
               /\ order.quantity = c.quantity
      log   == CHOOSE i \in PaymentLogs(c.key) : TRUE
  IN  IF ~same THEN Answered("O409_IDEMPOTENCY_KEY_REUSED")
      ELSE IF PaymentLogs(c.key) = {} THEN Answered("O500_ORDER_CREATE_FAILED")
      ELSE [code |-> "OK", total |-> order.total,
            remaining |-> tokenLogs[order.user][log].after]

\* Mutant: the balance is not checked.
RefusalWithoutBalance(c) ==
  IF ~IsActiveStudent(c.user) THEN "O403_ORDER_NOT_ALLOWED"
  ELSE IF products[c.product].stock < c.quantity THEN "O409_INSUFFICIENT_STOCK"
  ELSE "none"

\* Mutant: the account is trusted because the guard let it in.
RefusalTrustingGuard(c) ==
  LET product == products[c.product]
  IN  IF product.stock < c.quantity THEN "O409_INSUFFICIENT_STOCK"
      ELSE IF tokenBalance[c.user] < product.price * c.quantity
      THEN "O409_INSUFFICIENT_TOKENS"
      ELSE "none"

\* The first check of the transaction body that refuses purchase c, or "none".
PurchaseRefusal(c) ==
  LET product == products[c.product]
      total   == product.price * c.quantity
  IN  IF ~IsActiveStudent(c.user) THEN "O403_ORDER_NOT_ALLOWED"
      ELSE IF product = NoRow THEN "O404_PRODUCT_NOT_FOUND"
      ELSE IF ~(product.published /\ product.orderable)
           THEN "O409_PRODUCT_UNAVAILABLE"
      ELSE IF product.stock < c.quantity THEN "O409_INSUFFICIENT_STOCK"
      ELSE IF total > MaxInt \/ tokenBalance[c.user] < total
           THEN "O409_INSUFFICIENT_TOKENS"
      ELSE "none"

\* The account passed the authentication guard, which refuses blocked users.
ReceivePurchase(r, c) ==
  /\ status[c.user] = "ACTIVE"
  /\ Receive(r, c, "lookup")
  /\ UNCHANGED <<databaseVars, orderVars>>

\* The fast path of a retry, outside any transaction.
LookUpKey(r) ==
  /\ pc[r] = "lookup" /\ call[r] \in PurchaseCalls
  /\ \/ /\ orders[call[r].key] # NoOrder
        /\ Respond(r, ResolveExistingOrder(call[r]))
     \/ /\ orders[call[r].key] = NoOrder
        /\ Goto(r, "tx")
  /\ UNCHANGED <<databaseVars, orderVars>>

\* The transaction finds the key taken.
FindKeyTaken(r) ==
  /\ pc[r] = "tx" /\ call[r] \in PurchaseCalls
  /\ orders[call[r].key] # NoOrder
  /\ Respond(r, ResolveExistingOrder(call[r]))
  /\ UNCHANGED <<databaseVars, orderVars>>

RefusePurchase(r) ==
  /\ pc[r] = "tx" /\ call[r] \in PurchaseCalls
  /\ orders[call[r].key] = NoOrder
  /\ PurchaseRefusal(call[r]) # "none"
  /\ Respond(r, Answered(PurchaseRefusal(call[r])))
  /\ UNCHANGED <<databaseVars, orderVars>>

\* The order row that purchase c inserts.
NewOrder(c) ==
  [user |-> c.user, product |-> c.product, quantity |-> c.quantity,
   unitPrice |-> products[c.product].price,
   total |-> products[c.product].price * c.quantity,
   status |-> "ORDERED", stamps |-> {}, reason |-> NoReason]

\* Mutant: the balance read back is taken for the balance before.
PaymentLogFromBefore(c, balanceAfter) ==
  LET total == products[c.product].price * c.quantity
  IN  [type |-> "ORDER_PAYMENT", source |-> c.key,
       before |-> balanceAfter, after |-> balanceAfter - total,
       delta |-> -total]

\* The ledger entry of purchase c, computed from the balance read back after
\* the deduction.
PaymentLog(c, balanceAfter) ==
  LET total == products[c.product].price * c.quantity
  IN  [type |-> "ORDER_PAYMENT", source |-> c.key,
       before |-> balanceAfter + total, after |-> balanceAfter,
       delta |-> -total]

\* The transaction commits: stock and tokens are taken, the order and its
\* ledger entry exist, and the buyer is told what is left.
PlaceOrder(r) ==
  LET c     == call[r]
      total == products[c.product].price * c.quantity
      balanceAfter == tokenBalance[c.user] - total
  IN  /\ pc[r] = "tx" /\ c \in PurchaseCalls
      /\ KeyIsFree(c.key)
      /\ PurchaseRefusal(c) = "none"
      /\ products' = [products EXCEPT ![c.product].stock = @ - c.quantity]
      /\ tokenBalance' = [tokenBalance EXCEPT ![c.user] = @ - total]
      /\ orders' = [orders EXCEPT ![c.key] = NewOrder(c)]
      /\ tokenLogs' = [tokenLogs EXCEPT
                         ![c.user] = Append(@, PaymentLog(c, balanceAfter))]
      /\ RespondAfterCommit(r, [code |-> "OK", total |-> total,
                                remaining |-> balanceAfter])
      /\ UNCHANGED <<userVars, adminActionLogs, orderStatusLogs>>

\* The insert meets the unique key of an order committed after this attempt
\* took its snapshot: everything the attempt did is rolled back.
CollideOnKey(r) ==
  /\ pc[r] = "tx" /\ call[r] \in PurchaseCalls
  /\ orders[call[r].key] # NoOrder
  /\ Goto(r, "recover")
  /\ UNCHANGED <<databaseVars, orderVars>>

\* Mutant: a collision is a server error.
FailOnCollision(r) ==
  /\ pc[r] = "recover" /\ call[r] \in PurchaseCalls
  /\ Respond(r, Answered("O500_ORDER_CREATE_FAILED"))
  /\ UNCHANGED <<databaseVars, orderVars>>

\* The order that won the race is looked up outside the rolled back transaction.
RecoverFromCollision(r) ==
  /\ pc[r] = "recover" /\ call[r] \in PurchaseCalls
  /\ \/ /\ orders[call[r].key] # NoOrder
        /\ Respond(r, ResolveExistingOrder(call[r]))
     \/ /\ orders[call[r].key] = NoOrder
        /\ Respond(r, Answered("O500_ORDER_CREATE_FAILED"))
  /\ UNCHANGED <<databaseVars, orderVars>>

-----------------------------------------------------------------------------
(* Order status *)

\* A cancellation names its reason, and nothing else does.
ReasonIsValid(c) == (c.target = "CANCELED") <=> (c.reason # NoReason)

\* Mutant: a cancelled order may be accepted again.
TransitionThatReopens(from, to) ==
  \/ from \in {"ORDERED", "CANCELED"} /\ to \in {"ACCEPTED", "CANCELED"}
  \/ from = "ACCEPTED" /\ to \in {"DELIVERED", "CANCELED"}

\* Mutant: a delivered order may be cancelled.
TransitionAfterDelivery(from, to) ==
  \/ from = "ORDERED" /\ to = "ACCEPTED"
  \/ from = "ACCEPTED" /\ to = "DELIVERED"
  \/ from # "CANCELED" /\ to = "CANCELED"

IsValidOrderStatusTransition(from, to) ==
  \/ from = "ORDERED" /\ to \in {"ACCEPTED", "CANCELED"}
  \/ from = "ACCEPTED" /\ to \in {"DELIVERED", "CANCELED"}

\* AdminGuard let the caller in.
ReceiveStatusUpdate(r, c) ==
  /\ role[c.admin] = "ADMIN" /\ status[c.admin] = "ACTIVE"
  /\ \/ ReasonIsValid(c) /\ Receive(r, c, "tx")
     \/ ~ReasonIsValid(c) /\ ReceiveAndRespond(r, c, "O400_CANCELLATION_REASON")
  /\ UNCHANGED <<databaseVars, orderVars>>

\* The answer of the status update c to an order already in the target
\* status: a safe retry, unless it was cancelled for another reason.
SameStatusAnswer(c) ==
  IF c.target = "CANCELED" /\ orders[c.order].reason # c.reason
  THEN Answered("O409_ORDER_CANCELLATION_CONFLICT")
  ELSE Answered("OK")

\* The first check that refuses status update c, or "none".
StatusRefusal(c) ==
  LET order == orders[c.order]
  IN  IF order = NoOrder THEN "O404_ORDER_NOT_FOUND"
      ELSE IF ~IsValidOrderStatusTransition(order.status, c.target)
           THEN "O409_INVALID_ORDER_STATUS_TRANSITION"
      ELSE IF /\ c.target = "CANCELED"
              /\ tokenBalance[order.user] > MaxInt - order.total
           THEN "O409_TOKEN_BALANCE_OVERFLOW"
      ELSE IF /\ c.target = "CANCELED"
              /\ products[order.product].stock > MaxInt - order.quantity
           THEN "O409_PRODUCT_STOCK_OVERFLOW"
      ELSE "none"

\* The status update c asks for the status its order has.
IsRepeated(c) ==
  orders[c.order] # NoOrder /\ orders[c.order].status = c.target

AnswerStatusUpdate(r) ==
  LET c == call[r]
  IN  /\ pc[r] = "tx" /\ c \in StatusCalls
      /\ \/ IsRepeated(c) /\ Respond(r, SameStatusAnswer(c))
         \/ /\ ~IsRepeated(c) /\ StatusRefusal(c) # "none"
            /\ Respond(r, Answered(StatusRefusal(c)))
      /\ UNCHANGED <<databaseVars, orderVars>>

\* Mutant: cancelled_at is not written.
UpdatedOrderWithoutStamp(c) ==
  [orders[c.order] EXCEPT
     !.status = c.target,
     !.stamps = @ \cup ({c.target} \ {"CANCELED"}),
     !.reason = IF c.target = "CANCELED" THEN c.reason ELSE @]

\* The order row after status update c.
UpdatedOrder(c) ==
  [orders[c.order] EXCEPT
     !.status = c.target,
     !.stamps = @ \cup {c.target},
     !.reason = IF c.target = "CANCELED" THEN c.reason ELSE @]

RecordStatusChange(c) ==
  /\ orders' = [orders EXCEPT ![c.order] = UpdatedOrder(c)]
  /\ orderStatusLogs' =
       [orderStatusLogs EXCEPT
          ![c.order] = Append(@, [before |-> orders[c.order].status,
                                  after |-> c.target])]
  /\ LogAdminAction(c.order)

AdvanceOrder(r) ==
  LET c == call[r]
  IN  /\ pc[r] = "tx" /\ c \in StatusCalls
      /\ ~IsRepeated(c) /\ StatusRefusal(c) = "none"
      /\ c.target # "CANCELED"
      /\ RecordStatusChange(c)
      /\ RespondAfterCommit(r, Answered("OK"))
      /\ UNCHANGED <<userVars, ledgerVars, products>>

RefundLog(k, balanceBefore, balanceAfter) ==
  [type |-> "ORDER_REFUND", source |-> k,
   before |-> balanceBefore, after |-> balanceAfter,
   delta |-> orders[k].total]

\* The stock of the product once order is cancelled.
RestoredOneUnit(order) == products[order.product].stock + 1     \* mutant
RestoredStock(order) == products[order.product].stock + order.quantity

\* A cancellation gives the tokens and the stock back.
CancelOrder(r) ==
  LET c     == call[r]
      order == orders[c.order]
      user  == order.user
      refunded == tokenBalance[user] + order.total
  IN  /\ pc[r] = "tx" /\ c \in StatusCalls
      /\ ~IsRepeated(c) /\ StatusRefusal(c) = "none"
      /\ c.target = "CANCELED"
      /\ tokenBalance' = [tokenBalance EXCEPT ![user] = refunded]
      /\ products' = [products EXCEPT
                         ![order.product].stock = RestoredStock(order)]
      /\ tokenLogs' = [tokenLogs EXCEPT
           ![user] = Append(@, RefundLog(c.order, tokenBalance[user], refunded))]
      /\ RecordStatusChange(c)
      /\ RespondAfterCommit(r, Answered("OK"))
      /\ UNCHANGED userVars

\* The refund entry meets the unique (order, type) pair of a cancellation
\* committed after this attempt took its snapshot.
CollideOnRefund(r) ==
  LET c == call[r]
  IN  /\ pc[r] = "tx" /\ c \in StatusCalls
      /\ c.target = "CANCELED"
      /\ orders[c.order] # NoOrder /\ orders[c.order].status = "CANCELED"
      /\ Goto(r, "recover")
      /\ UNCHANGED <<databaseVars, orderVars>>

RecoverFromRefundCollision(r) ==
  LET c == call[r]
  IN  /\ pc[r] = "recover" /\ c \in StatusCalls
      /\ Respond(r, IF /\ orders[c.order].status = "CANCELED"
                       /\ orders[c.order].reason = c.reason
                    THEN Answered("OK")
                    ELSE Answered("O500_ORDER_STATUS_UPDATE_FAILED"))
      /\ UNCHANGED <<databaseVars, orderVars>>

-----------------------------------------------------------------------------

OrderConflict(r) ==
  /\ call[r] \in PurchaseCalls \cup StatusCalls
  /\ RetryAfterConflict(r, "O409_ORDER_CONCURRENT_UPDATE")
  /\ UNCHANGED <<databaseVars, orderVars>>

ReceiveOrderRequest(r) ==
  \/ \E c \in PurchaseCalls : ReceivePurchase(r, c)
  \/ \E c \in StatusCalls : ReceiveStatusUpdate(r, c)

\* The steps the server takes for a request it has received.
ServeOrderRequest(r) ==
  \/ LookUpKey(r)
  \/ FindKeyTaken(r)
  \/ RefusePurchase(r)
  \/ PlaceOrder(r)
  \/ CollideOnKey(r)
  \/ RecoverFromCollision(r)
  \/ AnswerStatusUpdate(r)
  \/ AdvanceOrder(r)
  \/ CancelOrder(r)
  \/ CollideOnRefund(r)
  \/ RecoverFromRefundCollision(r)
  \/ OrderConflict(r)
  \/ FailOrderRequest(r)

OrdersNext == \E r \in Slots : ReceiveOrderRequest(r) \/ ServeOrderRequest(r)

ordersAllVars == <<databaseVars, orderVars, requestVars>>

OrdersSpecInit == DatabaseInit /\ RequestsInit /\ OrdersInit

OrdersSpec == OrdersSpecInit /\ [][OrdersNext]_ordersAllVars

\* A request the server has received keeps being served: every await in the
\* handlers is a database call that returns or fails.
OrdersFairness == \A r \in Slots : WF_ordersAllVars(ServeOrderRequest(r))

FairOrdersSpec == OrdersSpec /\ OrdersFairness

-----------------------------------------------------------------------------
(* Properties *)

\* However many times a purchase is sent, raced or retried, its order is paid
\* exactly once, by the buyer and with the order's total (createOrder).
PaidOnce ==
  \A k \in Keys :
    /\ \A u \in Users : \A i \in DOMAIN tokenLogs[u] :
         IsPaymentOf(k, tokenLogs[u][i]) =>
           /\ orders[k] # NoOrder
           /\ orders[k].user = u
           /\ tokenLogs[u][i].delta = -orders[k].total
           /\ \A j \in DOMAIN tokenLogs[u] :
                IsPaymentOf(k, tokenLogs[u][j]) => i = j
    /\ orders[k] # NoOrder =>
         \E i \in DOMAIN tokenLogs[orders[k].user] :
           IsPaymentOf(k, tokenLogs[orders[k].user][i])

\* The total of an order goes back to its buyer exactly once when the order
\* is cancelled, and never otherwise, however cancellations, deliveries and
\* their retries race (updateOrderStatus).
RefundedOnce ==
  \A k \in Keys :
    /\ \A u \in Users : \A i \in DOMAIN tokenLogs[u] :
         IsRefundOf(k, tokenLogs[u][i]) =>
           /\ orders[k] # NoOrder
           /\ orders[k].status = "CANCELED"
           /\ orders[k].user = u
           /\ tokenLogs[u][i].delta = orders[k].total
           /\ \A j \in DOMAIN tokenLogs[u] :
                IsRefundOf(k, tokenLogs[u][j]) => i = j
    /\ orders[k] # NoOrder /\ orders[k].status = "CANCELED" =>
         \E i \in DOMAIN tokenLogs[orders[k].user] :
           IsRefundOf(k, tokenLogs[orders[k].user][i])

\* A purchase that was answered with success exists, is the purchase that was
\* asked for, and was answered with what its payment left, even when the
\* answer comes from a retry made after the balance has moved on; and a
\* client is told that its key is taken only if a different purchase has it
\* (resolveExistingOrder).
AnswersTruthful ==
  \A r \in Slots :
    pc[r] = "done" /\ call[r] \in PurchaseCalls =>
      LET c == call[r]
          order == orders[c.key]
          matches == /\ order # NoOrder
                     /\ order.user = c.user
                     /\ order.product = c.product
                     /\ order.quantity = c.quantity
      IN  /\ answer[r].code = "OK" =>
               /\ matches
               /\ answer[r].total = order.total
               /\ \A i \in PaymentLogs(c.key) :
                    answer[r].remaining = tokenLogs[c.user][i].after
          /\ answer[r].code = "O409_IDEMPOTENCY_KEY_REUSED" => ~matches

\* The status log of an order is the path it took from ORDERED to its status;
\* the _at columns and the administrators' log agree with it, and it carries
\* a reason exactly when it was cancelled (updateOrderStatus).
StatusHistory ==
  \A k \in Keys :
    LET log == orderStatusLogs[k]
        n   == Len(log)
    IN  IF orders[k] = NoOrder THEN n = 0
        ELSE /\ \A i \in 1..n :
                  log[i].before = IF i = 1 THEN "ORDERED" ELSE log[i - 1].after
             /\ orders[k].status = IF n = 0 THEN "ORDERED" ELSE log[n].after
             /\ orders[k].stamps = {log[i].after : i \in 1..n}
             /\ adminActionLogs[k] = n
             /\ (orders[k].reason # NoReason) <=> (orders[k].status = "CANCELED")

\* Stock is neither lost nor oversold: as long as nobody edits it, what is left
\* and what live orders hold is what there was, whatever races (createOrder,
\* updateOrderStatus).
StockConserved ==
  \A p \in Products :
    InitialProducts[p] # NoRow =>
      LET live == {k \in Keys : /\ orders[k] # NoOrder
                                /\ orders[k].product = p
                                /\ orders[k].status # "CANCELED"}
      IN  products[p].stock + SumFunction([k \in live |-> orders[k].quantity])
            = InitialProducts[p].stock

\* A step changes an order only along a legal transition: delivered and
\* cancelled orders are final, and what was bought and paid never changes.
OrdersMoveForward ==
  [][\A k \in Keys :
       orders[k] # NoOrder /\ orders'[k] # orders[k] =>
         /\ orders[k].status \notin {"DELIVERED", "CANCELED"}
         /\ orders[k].status = "ORDERED" => orders'[k].status # "DELIVERED"
         /\ orders'[k] = [orders[k] EXCEPT !.status = orders'[k].status,
                                           !.stamps = orders'[k].stamps,
                                           !.reason = orders'[k].reason]
    ]_ordersAllVars

\* Losing a race is not a failure: a purchase that lost its key to another
\* request is answered from the order that won, and a cancellation that lost
\* to the same cancellation succeeds, unless the lookup of the winner fails
\* itself (the P2002 branches of createOrder and updateOrderStatus).
CollisionsRecovered ==
  [][\A r \in Slots :
       pc[r] = "recover" /\ pc'[r] = "done" /\ answer'[r].code # "HTTP_500" =>
         LET c == call[r]
         IN  /\ c \in PurchaseCalls =>
                  answer'[r].code \in {"OK", "O409_IDEMPOTENCY_KEY_REUSED"}
             /\ c \in StatusCalls /\ orders[c.order].reason = c.reason =>
                  answer'[r].code = "OK"
    ]_ordersAllVars

\* The order with key k as its buyer sees it.
DealOf(k) ==
  LET order == orders[k]
      log   == CHOOSE i \in PaymentLogs(k) : TRUE
  IN  [user |-> order.user, product |-> order.product,
       quantity |-> order.quantity, total |-> order.total,
       left |-> tokenLogs[order.user][log].after,
       phase |-> CASE order.status = "DELIVERED" -> "delivered"
                   [] order.status = "CANCELED" -> "canceled"
                   [] OTHER -> "open"]

IsPurchase(r) == call[r] \in PurchaseCalls

Asked == [r \in Slots |-> IF IsPurchase(r) THEN call[r] ELSE NoCall]
Told  == [r \in Slots |-> IF IsPurchase(r) THEN answer[r] ELSE NoAnswer]
Deals == [k \in {key \in Keys : orders[key] # NoOrder} |-> DealOf(k)]

Promise == INSTANCE PurchasePromise WITH
  Clients <- Slots, Purchases <- PurchaseCalls, NoPurchase <- NoCall,
  NoReply <- NoAnswer, asked <- Asked, told <- Told, deals <- Deals

\* createOrder and updateOrderStatus implement the promise to the clients: one
\* deal per key, told to each request once and the same to all, refusals for
\* want of tokens or stock only to requests whose key names nothing yet, and a
\* failure of the server followed by a retry strikes no second deal.
KeepsPurchasePromise == Promise!Spec

\* Every request the server has received is answered: the retry loop ends.
EveryRequestAnswered ==
  \A r \in Slots : pc[r] # "idle" ~> pc[r] = "done"

=============================================================================
