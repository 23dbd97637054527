---------------------------- MODULE LedgerProofs ----------------------------
(***************************************************************************)
(* The services of the token shop together implement the atomic ledger.    *)
(* The mapping is the identity on balances and entries, so the proof shows *)
(* that each of the four steps that move tokens posts what AtomicLedger    *)
(* allows, and that every other step leaves the ledger alone.              *)
(***************************************************************************)
EXTENDS EconomyProofs

\* What a step of the shop appends is a move of the abstract ledger.
LEMMA EntryIsMove ==
  ASSUME TypeInv, NEW u \in Users, NEW T, MovesByEntry(u, T)
  PROVE  Ledger!Moves(u, T)
<1> PICK entry \in TokenLog :
      /\ entry.type \in T
      /\ entry.before = tokenBalance[u]
      /\ entry.after = tokenBalance'[u]
      /\ entry.after = entry.before + entry.delta
      /\ Ledger!DirectionFits(entry)
      /\ tokenLogs'[u] = Append(tokenLogs[u], entry)
  BY DEF MovesByEntry
<1> DEFINE n == Len(tokenLogs[u])
<1>1. tokenLogs[u] \in Seq(TokenLog)
  BY DEF TypeInv, EconomyTypeOK, DatabaseTypeOK
<1>2. /\ Len(tokenLogs'[u]) = n + 1
      /\ \A i \in 1..n : tokenLogs'[u][i] = tokenLogs[u][i]
      /\ tokenLogs'[u][n + 1] = entry
  BY <1>1
<1>3. entry.before \in Int /\ entry.after \in Int /\ entry.delta \in Int
  BY TokenDatabaseAssumption DEF TokenLog
<1>4. entry.delta = entry.after - entry.before
  BY <1>3
<1> HIDE DEF n
<1> QED
  BY <1>2, <1>4 DEF Ledger!Moves, n

\* A step whose moves are those of a set of accounts posts them.
LEMMA MovesArePost ==
  ASSUME TypeInv, TypeInv', NEW moved \in SUBSET Users, NEW T,
         \A u \in moved : MovesByEntry(u, T),
         \A u \in Users \ moved : /\ tokenBalance'[u] = tokenBalance[u]
                                  /\ tokenLogs'[u] = tokenLogs[u]
  PROVE  Ledger!Post(moved, T)
<1>1. /\ tokenBalance' \in [Users -> 0..MaxInt]
      /\ DOMAIN tokenLogs' = Users
  BY DEF TypeInv, EconomyTypeOK, DatabaseTypeOK
<1>2. \A u \in moved : Ledger!Moves(u, T)
  BY EntryIsMove
<1> QED
  BY <1>1, <1>2 DEF Ledger!Post

\* A sequence is not what appending to it makes of it.
LEMMA AppendChanges ==
  ASSUME NEW S, NEW s \in Seq(S), NEW e \in S
  PROVE  Append(s, e) # s
<1>1. Len(Append(s, e)) = Len(s) + 1
  OBVIOUS
<1>2. Len(s) \in Nat
  OBVIOUS
<1>3. Len(s) # Len(s) + 1
  BY <1>2
<1> QED
  BY <1>1, <1>3

\* The accounts that a step moves.
MovedUsers == {u \in Users : tokenLogs'[u] # tokenLogs[u]}

\* A step that moves ledgers by entries posts the accounts it moves.
LEMMA LedgerMovesPost ==
  ASSUME TypeInv, TypeInv', NEW T, LedgerMoves(T)
  PROVE  Ledger!Post(MovedUsers, T)
<1>1. \A u \in MovedUsers : MovesByEntry(u, T)
  BY DEF MovedUsers, LedgerMoves
<1>2. ASSUME NEW u \in Users \ MovedUsers
      PROVE  tokenBalance'[u] = tokenBalance[u] /\ tokenLogs'[u] = tokenLogs[u]
  <2>1. tokenLogs'[u] = tokenLogs[u] /\ tokenLogs[u] \in Seq(TokenLog)
    BY DEF MovedUsers, TypeInv, EconomyTypeOK, DatabaseTypeOK
  <2>2. ~MovesByEntry(u, T)
    <3> SUFFICES ASSUME NEW entry \in TokenLog,
                        tokenLogs'[u] = Append(tokenLogs[u], entry)
                 PROVE  FALSE
      BY DEF MovesByEntry
    <3> QED
      BY <2>1, AppendChanges
  <2> QED
    BY <2>1, <2>2 DEF LedgerMoves
<1>3. MovedUsers \subseteq Users
  BY DEF MovedUsers
<1> QED
  BY <1>1, <1>2, <1>3, MovesArePost

\* A step that appends to the ledger of user v alone posts {v}.
LEMMA SingleMovePost ==
  ASSUME TypeInv, TypeInv', NEW T, LedgerMoves(T), NEW v \in Users,
         NEW entry \in TokenLog,
         tokenLogs' = [tokenLogs EXCEPT ![v] = Append(@, entry)]
  PROVE  Ledger!Post(MovedUsers, T) /\ MovedUsers = {v}
<1>1. /\ tokenLogs'[v] = Append(tokenLogs[v], entry)
      /\ tokenLogs[v] \in Seq(TokenLog) /\ tokenLogs'[v] \in Seq(TokenLog)
      /\ \A u \in Users \ {v} : tokenLogs'[u] = tokenLogs[u]
  BY DEF TypeInv, EconomyTypeOK, DatabaseTypeOK
<1>2. tokenLogs'[v] # tokenLogs[v]
  BY <1>1, AppendChanges
<1>3. MovedUsers = {v}
  BY <1>1, <1>2 DEF MovedUsers
<1> QED
  BY <1>3, LedgerMovesPost

\* Every step of the shop is a step of the abstract ledger or leaves it alone.
LEMMA LedgerStep ==
  ASSUME TypeInv, [EconomyNext]_economyVars
  PROVE  [Ledger!Next]_(Ledger!vars)
<1>0. TypeInv'
  BY TypeNext
<1>1. ASSUME NEW r \in Slots, PlaceOrder(r)
      PROVE  Ledger!Next
  <2>1. LedgerMoves({"ORDER_PAYMENT"})
    BY <1>1, PlaceOrderMoves
  <2>2. PICK v \in Users, entry \in TokenLog :
          tokenLogs' = [tokenLogs EXCEPT ![v] = Append(@, entry)]
    BY <1>1, PlaceOrderMoves
  <2>3. Ledger!Post({v}, {"ORDER_PAYMENT"})
    BY <1>0, <2>1, <2>2, SingleMovePost
  <2> QED
    BY <2>3 DEF Ledger!Next, Ledger!Pay
<1>2. ASSUME NEW r \in Slots, CancelOrder(r)
      PROVE  Ledger!Next
  <2>1. LedgerMoves({"ORDER_REFUND"})
    BY <1>2, CancelOrderMoves
  <2>2. PICK v \in Users, entry \in TokenLog :
          tokenLogs' = [tokenLogs EXCEPT ![v] = Append(@, entry)]
    BY <1>2, CancelOrderMoves
  <2>3. Ledger!Post({v}, {"ORDER_REFUND"})
    BY <1>0, <2>1, <2>2, SingleMovePost
  <2> QED
    BY <2>3 DEF Ledger!Next, Ledger!Refund
<1>3. ASSUME NEW r \in Slots, SaveGrants(r)
      PROVE  Ledger!Next
  <2>1. LedgerMoves(EventTypes)
    BY <1>3, SaveGrantsMoves
  <2>2. Ledger!Post(MovedUsers, {"EVENT_GRANT", "EVENT_ADJUSTMENT"})
    BY <1>0, <2>1, LedgerMovesPost DEF EventTypes
  <2> QED
    BY <2>2 DEF Ledger!Next, Ledger!Award, MovedUsers
<1>4. ASSUME NEW r \in Slots, ResetTokenBalances(r)
      PROVE  Ledger!Next
  <2>1. LedgerMoves({"RESET"})
    BY <1>4, ResetMoves
  <2>2. Ledger!Post(MovedUsers, {"RESET"})
    BY <1>0, <2>1, LedgerMovesPost
  <2>3. \A u \in MovedUsers : tokenBalance'[u] = 0
    BY <1>4 DEF MovedUsers, ResetTokenBalances
  <2> QED
    BY <2>2, <2>3 DEF Ledger!Next, Ledger!Reset, MovedUsers
<1>5. ASSUME NEW r \in Slots,
             AdvanceOrder(r) \/ CreateProduct(r) \/ UpdateProduct(r)
      PROVE  UNCHANGED Ledger!vars
  BY <1>5 DEF AdvanceOrder, CreateProduct, UpdateProduct, ledgerVars, Ledger!vars
<1>6. CASE WritesNoMoney
  BY <1>6 DEF WritesNoMoney, ledgerVars, Ledger!vars
<1> QED
  BY <1>1, <1>2, <1>3, <1>4, <1>5, <1>6, EconomyStep

\* Whatever services run and however they interleave, the shop is an atomic
\* ledger: it starts as one and every step is one of its steps.
THEOREM ShopIsAtomicLedger == EconomySpec => KeepsLedgerPromise
<1>1. EconomyInit => Ledger!Init
  <2> SUFFICES ASSUME EconomyInit PROVE Ledger!Init
    OBVIOUS
  <2>1. /\ tokenBalance = InitialBalance
        /\ \A u \in Users : tokenLogs[u] = InitialLogs(u)
    BY DEF EconomyInit, DatabaseInit
  <2>2. ASSUME NEW u \in Users
        PROVE  IF InitialBalance[u] = 0 THEN tokenLogs[u] = <<>>
               ELSE /\ Len(tokenLogs[u]) = 1
                    /\ tokenLogs[u][1].before = 0
                    /\ tokenLogs[u][1].after = InitialBalance[u]
    <3>1. tokenLogs[u] = InitialLogs(u)
      BY <2>1
    <3>2. CASE InitialBalance[u] = 0
      BY <3>1, <3>2 DEF InitialLogs
    <3>3. CASE InitialBalance[u] # 0
      <4>1. tokenLogs[u] = << [type |-> "EVENT_GRANT", source |-> NoSource,
                               before |-> 0, after |-> InitialBalance[u],
                               delta |-> InitialBalance[u]] >>
        BY <3>1, <3>3 DEF InitialLogs
      <4> QED
        BY <3>3, <4>1
    <3> QED
      BY <3>2, <3>3
  <2> QED
    BY <2>1, <2>2 DEF Ledger!Init
<1>2. TypeInv /\ [EconomyNext]_economyVars => [Ledger!Next]_(Ledger!vars)
  BY LedgerStep
<1> QED
  BY <1>1, <1>2, TypeCorrect, PTL
     DEF EconomySpec, KeepsLedgerPromise, Ledger!Spec

=============================================================================
