--------------------------- MODULE PurchasePromise ---------------------------
(***************************************************************************)
(* What the order service promises its clients: purchases with idempotency *)
(* keys.  A key names at most one deal, for ever.  A request is answered   *)
(* once: with the deal it struck, with the deal its key already names if   *)
(* that is the purchase asked for, or with a refusal; and a client whose   *)
(* purchase was struck is only ever refused because of contention or a     *)
(* failure of the server.  A failure says nothing about the deal: it may   *)
(* have been struck, and asking again tells.                               *)
(***************************************************************************)
EXTENDS Naturals

CONSTANTS
  Clients,        \* requests
  Purchases,      \* what a request may ask for, key included
  NoPurchase,     \* of a request that has not been made
  NoReply         \* to a request that has not been answered

VARIABLES
  asked,          \* what each request asks for
  told,           \* what each request was answered
  deals           \* the deals struck, by key

vars == <<asked, told, deals>>

\* Deal d is what purchase c asks for.
IsFor(d, c) ==
  d.user = c.user /\ d.product = c.product /\ d.quantity = c.quantity

Receipt(d) == [code |-> "OK", total |-> d.total, remaining |-> d.left]

\* What a client is told when the server fails.
Failures == {"O500_ORDER_CREATE_FAILED", "HTTP_500"}

Ask(r) ==
  /\ asked[r] = NoPurchase
  /\ \E c \in Purchases : asked' = [asked EXCEPT ![r] = c]
  /\ UNCHANGED <<told, deals>>

\* Request r has been made and is not answered yet.
Pending(r) == asked[r] # NoPurchase /\ told[r] = NoReply

Tell(r, a) == told' = [told EXCEPT ![r] = a] /\ UNCHANGED asked

Strike(r) ==
  LET c == asked[r]
      d == deals'[c.key]
  IN  /\ Pending(r)
      /\ c.key \notin DOMAIN deals
      /\ DOMAIN deals' = DOMAIN deals \cup {c.key}
      /\ \A k \in DOMAIN deals : deals'[k] = deals[k]
      /\ IsFor(d, c) /\ d.phase = "open"
      /\ \/ Tell(r, Receipt(d))
         \/ told'[r].code \in Failures /\ Tell(r, told'[r])

Repeat(r) ==
  LET c == asked[r]
  IN  /\ Pending(r)
      /\ c.key \in DOMAIN deals /\ IsFor(deals[c.key], c)
      /\ Tell(r, Receipt(deals[c.key]))
      /\ UNCHANGED deals

\* The refusals that are possible depend on what the key names.
Refuse(r) ==
  LET c == asked[r]
      code == told'[r].code
  IN  /\ Pending(r)
      /\ code # "OK"
      /\ Tell(r, told'[r])
      /\ \/ code \in Failures \cup {"O409_ORDER_CONCURRENT_UPDATE"}
         \/ /\ code = "O409_IDEMPOTENCY_KEY_REUSED"
            /\ c.key \in DOMAIN deals /\ ~IsFor(deals[c.key], c)
         \/ /\ code # "O409_IDEMPOTENCY_KEY_REUSED"
            /\ c.key \notin DOMAIN deals
      /\ UNCHANGED deals

\* A deal ends, once.
Settle(k) ==
  /\ deals[k].phase = "open"
  /\ \E end \in {"delivered", "canceled"} :
       deals' = [deals EXCEPT ![k].phase = end]
  /\ UNCHANGED <<asked, told>>

Init ==
  /\ asked = [r \in Clients |-> NoPurchase]
  /\ told = [r \in Clients |-> NoReply]
  /\ DOMAIN deals = {}

Next ==
  \/ \E r \in Clients : Ask(r) \/ Strike(r) \/ Repeat(r) \/ Refuse(r)
  \/ \E k \in DOMAIN deals : Settle(k)

Spec == Init /\ [][Next]_vars

=============================================================================
