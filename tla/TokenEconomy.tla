----------------------------- MODULE TokenEconomy -----------------------------
(***************************************************************************)
(* The token shop as a whole: students' orders, administrators' grants,    *)
(* resets, product edits and account changes run against one database, in  *)
(* any interleaving of their steps.  Files stay what they are: module      *)
(* MediaLibrary has products edited while files come and go.               *)
(***************************************************************************)
EXTENDS Products, TokenEvents, TokenBalances, AdminUsers

economyVars ==
  <<databaseVars, requestVars, orderVars, eventVars, accessRead,
    fileVars>>

EconomyCalls ==
  PurchaseCalls \cup StatusCalls \cup ProductCalls \cup EventCalls
    \cup GrantCalls \cup ResetCalls \cup AccessCalls

EconomyCodes ==
  OrderCodes \cup ProductCodes \cup TokenEventCodes \cup ResetCodes
    \cup AccessCodes

EconomyInit ==
  /\ DatabaseInit
  /\ RequestsInit
  /\ OrdersInit
  /\ TokenEventsInit
  /\ AdminUsersInit
  /\ FileDatabaseInit

EconomyNext ==
  \/ OrdersNext /\ UNCHANGED <<eventVars, accessRead, fileVars>>
  \/ ProductsNext /\ UNCHANGED <<eventVars, accessRead, fileVars>>
  \/ TokenEventsNext /\ UNCHANGED <<orderVars, accessRead, fileVars>>
  \/ TokenBalancesNext /\ UNCHANGED <<orderVars, eventVars, accessRead, fileVars>>
  \/ AdminUsersNext /\ UNCHANGED <<orderVars, eventVars, fileVars>>

EconomySpec == EconomyInit /\ [][EconomyNext]_economyVars

-----------------------------------------------------------------------------
(* Properties *)

\* Type invariant of the whole shop.
EconomyTypeOK ==
  /\ DatabaseTypeOK
  /\ OrdersTypeOK
  /\ TokenEventsTypeOK
  /\ AdminUsersTypeOK
  /\ RequestsTypeOK(EconomyCalls, EconomyCodes)

EventsGrantedTo(u) == {e \in Events : tokenGrants[e][u] # NoRow}

LiveOrdersOf(u) ==
  {k \in Keys : /\ orders[k] # NoOrder
                /\ orders[k].user = u
                /\ orders[k].status # "CANCELED"}

ResetsOf(u) == {i \in DOMAIN tokenLogs[u] : tokenLogs[u][i].type = "RESET"}

\* The books of the services reconcile: what a student holds is what the events
\* grant, less what live orders cost, less what resets took, whichever way
\* grants, orders, cancellations and resets interleave.
BooksBalance ==
  \A u \in Users :
    tokenBalance[u] =
      InitialBalance[u]
        + SumFunction([e \in EventsGrantedTo(u) |-> tokenGrants[e][u].amount])
        - SumFunction([k \in LiveOrdersOf(u) |-> orders[k].total])
        + SumFunction([i \in ResetsOf(u) |-> tokenLogs[u][i].delta])

Ledger == INSTANCE AtomicLedger WITH
  Accounts <- Users, Limit <- MaxInt, Opening <- InitialBalance,
  balance <- tokenBalance, entries <- tokenLogs

\* The services together implement the atomic ledger: balances move only with
\* an appended entry of the right type and direction, one account for a
\* payment or refund, and no entry is ever changed or removed.
KeepsLedgerPromise == Ledger!Spec

\* A step that takes an order or raises a balance without refunding an order
\* finds the account a student's and not blocked, even if the account was
\* changed after the guard let its request in (createOrder and saveGrants
\* against AdminUsersService.update).
OnlyActiveStudentsServed ==
  [][/\ \A u \in Users :
          tokenBalance'[u] > tokenBalance[u] =>
            \/ role[u] = "STUDENT" /\ status[u] = "ACTIVE"
            \/ tokenLogs'[u][Len(tokenLogs'[u])].type = "ORDER_REFUND"
     /\ \A k \in Keys :
          orders[k] = NoOrder /\ orders'[k] # NoOrder =>
            LET u == orders'[k].user
            IN  role[u] = "STUDENT" /\ status[u] = "ACTIVE"
    ]_economyVars

=============================================================================
