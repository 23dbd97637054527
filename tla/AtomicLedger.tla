---------------------------- MODULE AtomicLedger ----------------------------
(***************************************************************************)
(* What the token ledger promises, whichever services write it: accounts   *)
(* move in single steps, each move is explained by one entry appended to   *)
(* the account's ledger in the same step, and nothing written is ever      *)
(* rewritten.  Payments and refunds move one account; events and resets    *)
(* may move many at once; a reset empties the accounts it moves.           *)
(***************************************************************************)
EXTENDS Integers, Sequences

CONSTANTS
  Accounts,
  Limit,        \* the largest balance
  Opening       \* the balance of each account at the start

VARIABLES
  balance,      \* of each account
  entries       \* of each account, oldest first

vars == <<balance, entries>>

\* Whether an entry of its type may move a balance its way.
DirectionFits(entry) ==
  /\ entry.type \in {"ORDER_PAYMENT", "RESET"} => entry.delta < 0
  /\ entry.type \in {"ORDER_REFUND", "EVENT_GRANT"} => entry.delta > 0
  /\ entry.type = "EVENT_ADJUSTMENT" => entry.delta # 0

\* Account a moves, explained by one new entry of one of the types.
Moves(a, types) ==
  LET n == Len(entries[a])
      entry == entries'[a][n + 1]
  IN  /\ Len(entries'[a]) = n + 1
      /\ \A i \in 1..n : entries'[a][i] = entries[a][i]
      /\ entry.type \in types
      /\ entry.before = balance[a]
      /\ entry.after = balance'[a]
      /\ entry.delta = entry.after - entry.before
      /\ DirectionFits(entry)

\* The accounts in moved move, and no other.
Post(moved, types) ==
  /\ balance' \in [Accounts -> 0..Limit]
  /\ DOMAIN entries' = Accounts
  /\ \A a \in moved : Moves(a, types)
  /\ \A a \in Accounts \ moved :
       balance'[a] = balance[a] /\ entries'[a] = entries[a]

Pay    == \E a \in Accounts : Post({a}, {"ORDER_PAYMENT"})
Refund == \E a \in Accounts : Post({a}, {"ORDER_REFUND"})
Award  == \E moved \in SUBSET Accounts :
            Post(moved, {"EVENT_GRANT", "EVENT_ADJUSTMENT"})
Reset  == \E moved \in SUBSET Accounts :
            /\ Post(moved, {"RESET"})
            /\ \A a \in moved : balance'[a] = 0

Init ==
  /\ balance = Opening
  /\ \A a \in Accounts :
       IF Opening[a] = 0 THEN entries[a] = <<>>
       ELSE /\ Len(entries[a]) = 1
            /\ entries[a][1].before = 0
            /\ entries[a][1].after = Opening[a]

Next == Pay \/ Refund \/ Award \/ Reset

Spec == Init /\ [][Next]_vars

=============================================================================
