--------------------------- MODULE TokenDatabase ---------------------------
(***************************************************************************)
(* The tables of the token shop that every service shares: users, token    *)
(* ledger, products and the administrators' action log.                    *)
(*                                                                         *)
(* The database is PostgreSQL, reached through Prisma.  A SERIALIZABLE     *)
(* transaction that commits is one step of the service that runs it; one   *)
(* that does not commit leaves no trace (see module Requests).  Users and  *)
(* products are never deleted by any endpoint, so their deleted_at column  *)
(* has no counterpart here.                                                *)
(***************************************************************************)
EXTENDS Integers, Sequences

CONSTANTS
  Users,             \* accounts, students and administrators
  Admins,            \* the accounts that start as administrators
  Products,          \* product ids
  Keys,              \* idempotency keys; an order is named by its key
  Events,            \* token event ids
  Images,            \* ids of uploaded files
  MaxInt,            \* the largest value of an int4 column
  InitialBalance,    \* tokens of each user at the start
  InitialProducts,   \* contents of the product table at the start
  NoRow,             \* an id that has no row
  NoSource           \* the source of a ledger entry made by no order or event

VARIABLES
  role,              \* users.role
  status,            \* users.status
  tokenBalance,      \* users.token_balance
  tokenLogs,         \* token_logs, per user in order of creation
  products,          \* products
  adminActionLogs    \* number of admin_action_logs rows per target id

userVars    == <<role, status>>
ledgerVars  == <<tokenBalance, tokenLogs>>
databaseVars == <<role, status, tokenBalance, tokenLogs, products, adminActionLogs>>

Roles    == {"STUDENT", "ADMIN"}
Statuses == {"ACTIVE", "BLOCKED"}

TransactionTypes ==
  {"EVENT_GRANT", "EVENT_ADJUSTMENT", "ORDER_PAYMENT", "ORDER_REFUND", "RESET"}

Sources == Keys \cup Events \cup {NoSource}

TokenLog == [type   : TransactionTypes,
             source : Sources,
             before : 0..MaxInt,
             after  : 0..MaxInt,
             delta  : Int]

Product == [price      : 1..MaxInt,
            stock      : 0..MaxInt,
            orderable  : BOOLEAN,
            published  : BOOLEAN,
            described  : BOOLEAN,
            image      : Images \cup {NoRow}]

AuditTargets == Users \cup Products \cup Sources

ASSUME TokenDatabaseAssumption ==
  /\ MaxInt \in Nat \ {0}
  /\ Admins \subseteq Users
  /\ InitialBalance \in [Users -> 0..MaxInt]
  /\ InitialProducts \in [Products -> Product \cup {NoRow}]
  /\ NoRow \notin Product

\* Ids of different tables never meet: a ledger entry has one column for its
\* order and one for its grant, and a log row names the kind of its target.
ASSUME DistinctIds ==
  /\ Keys \cap (Users \cup Products \cup Events) = {}
  /\ NoSource \notin Keys \cup Events

-----------------------------------------------------------------------------

\* The tokens a user holds at the start were granted by an event that is
\* no longer in the event table, so the ledger already explains them.
InitialLogs(u) ==
  IF InitialBalance[u] = 0
  THEN <<>>
  ELSE << [type |-> "EVENT_GRANT", source |-> NoSource,
           before |-> 0, after |-> InitialBalance[u],
           delta |-> InitialBalance[u]] >>

DatabaseInit ==
  /\ role = [u \in Users |-> IF u \in Admins THEN "ADMIN" ELSE "STUDENT"]
  /\ status = [u \in Users |-> "ACTIVE"]
  /\ tokenBalance = InitialBalance
  /\ tokenLogs = [u \in Users |-> InitialLogs(u)]
  /\ products = InitialProducts
  /\ adminActionLogs = [t \in AuditTargets |-> 0]

DatabaseTypeOK ==
  /\ role \in [Users -> Roles]
  /\ status \in [Users -> Statuses]
  /\ tokenBalance \in [Users -> 0..MaxInt]
  /\ tokenLogs \in [Users -> Seq(TokenLog)]
  /\ products \in [Products -> Product \cup {NoRow}]
  /\ adminActionLogs \in [AuditTargets -> Nat]

\* A student whose account is active: the only account that may buy or be
\* granted tokens.
IsActiveStudent(u) == role[u] = "STUDENT" /\ status[u] = "ACTIVE"

\* One more row of the administrators' action log about target t.
LogAdminAction(t) ==
  adminActionLogs' = [adminActionLogs EXCEPT ![t] = @ + 1]

-----------------------------------------------------------------------------
(* Properties *)

\* The ledger explains every balance: entry after entry it adds up, each entry
\* starts where the one before it ended, and the last one ends at the balance
\* the user has.  Every service that moves tokens writes its entry in the
\* transaction that moves them.
LedgerChain ==
  \A u \in Users :
    LET log == tokenLogs[u]
        n   == Len(log)
    IN  /\ \A i \in 1..n :
             /\ log[i].after = log[i].before + log[i].delta
             /\ log[i].before = IF i = 1 THEN 0 ELSE log[i - 1].after
        /\ tokenBalance[u] = IF n = 0 THEN 0 ELSE log[n].after

=============================================================================
