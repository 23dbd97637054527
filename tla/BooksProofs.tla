----------------------------- MODULE BooksProofs -----------------------------
(***************************************************************************)
(* The books of the token shop reconcile, for any numbers of users,        *)
(* products, keys, events and requests: grants with the ledger, balances   *)
(* with grants, live orders and resets, and stock with live orders.        *)
(*                                                                         *)
(* Each of these says that a number is a sum over a set that steps grow,   *)
(* shrink or change at one element, so the module first proves what such   *)
(* changes do to the sums of the community modules, which are folds over   *)
(* a finite set in an order that no one knows.                             *)
(***************************************************************************)
EXTENDS OrderProofs

-----------------------------------------------------------------------------
(* Sums *)

\* Induction over the subsets of a finite set, from a smallest counterexample.
LEMMA SubsetInduction ==
  ASSUME NEW S, IsFiniteSet(S), NEW G, {} \in G,
         \A s \in SUBSET S : s # {} /\ (\A t \in SUBSET s : t # s => t \in G) => s \in G
  PROVE  S \in G
<1> DEFINE R == StrictSubsetOrdering(S)
           B == {s \in SUBSET S : s \notin G}
<1>1. SUFFICES ASSUME B # {} PROVE FALSE
  OBVIOUS
<1>2. IsWellFoundedOn(R, SUBSET S)
  BY FS_StrictSubsetOrderingWellFounded, FS_FiniteSubsetsOfFinite
<1>3. \A s, t \in SUBSET S : s \subseteq t /\ s # t => <<s, t>> \in R
  BY DEF StrictSubsetOrdering
<1>4. B \subseteq SUBSET S
  OBVIOUS
<1> HIDE DEF R, B
<1>5. PICK t \in B : \A s \in B : ~ (<<s, t>> \in R)
  BY <1>1, <1>2, <1>4, WFMin
<1>6. t \in SUBSET S /\ t \notin G
  BY DEF B
<1>7. \A s \in SUBSET t : s # t => s \in SUBSET S /\ s \notin B
  BY <1>3, <1>5, <1>6
<1>8. \A s \in SUBSET t : s # t => s \in G
  BY <1>7 DEF B
<1>9. t # {}
  BY <1>6
<1> QED
  BY <1>6, <1>8, <1>9

\* h holds the sum of f over every subset of S: nothing sums to 0, and it does
\* not matter which element is added last.
IsSum(h, f, S) ==
  /\ h \in [SUBSET S -> Int]
  /\ h[{}] = 0
  /\ \A t \in SUBSET S : \A y \in t : h[t] = f[y] + h[t \ {y}]

\* Every finite family of integers has sums.
LEMMA SumExists ==
  ASSUME NEW S, IsFiniteSet(S), NEW f, \A x \in S : f[x] \in Int
  PROVE  \E h : IsSum(h, f, S)
<1> DEFINE G == {s \in SUBSET S : \E h : IsSum(h, f, s)}
<1>1. {} \in G
  <2> DEFINE z == [s \in SUBSET {} |-> 0]
  <2>1. IsSum(z, f, {})
    BY DEF IsSum
  <2> HIDE DEF z
  <2> QED
    BY <2>1
<1>2. ASSUME NEW s \in SUBSET S, NEW x \in S \ s, s \in G
      PROVE  s \cup {x} \in G
  <2> PICK h : IsSum(h, f, s)
    BY <1>2
  <2> DEFINE g == [t \in SUBSET (s \cup {x}) |->
                     IF x \in t THEN f[x] + h[t \ {x}] ELSE h[t]]
  <2>1. /\ \A t \in SUBSET s : h[t] \in Int
        /\ h[{}] = 0
        /\ \A t \in SUBSET s : \A y \in t : h[t] = f[y] + h[t \ {y}]
    BY DEF IsSum
  <2>2. /\ \A t \in SUBSET (s \cup {x}) : t \ {x} \in SUBSET s
        /\ \A t \in SUBSET (s \cup {x}) : x \notin t => t \in SUBSET s
    OBVIOUS
  <2>3. g \in [SUBSET (s \cup {x}) -> Int]
    BY <2>1, <2>2
  <2>4. g[{}] = 0
    BY <2>1
  <2>5. ASSUME NEW t \in SUBSET (s \cup {x}), NEW y \in t
        PROVE  g[t] = f[y] + g[t \ {y}]
    <3>0. t \ {y} \in SUBSET (s \cup {x})
      OBVIOUS
    <3>1. CASE x \notin t
      BY <2>1, <2>2, <3>0, <3>1
    <3>2. CASE x = y
      <4>1. x \notin t \ {y} /\ g[t \ {y}] = h[t \ {y}]
        BY <3>0, <3>2
      <4> QED
        BY <3>2, <4>1
    <3>3. CASE x \in t /\ x # y
      <4>1. g[t] = f[x] + h[t \ {x}] /\ g[t \ {y}] = f[x] + h[(t \ {y}) \ {x}]
        BY <3>0, <3>3
      <4>2. h[t \ {x}] = f[y] + h[(t \ {x}) \ {y}]
        BY <2>1, <2>2, <3>3
      <4>3. (t \ {y}) \ {x} = (t \ {x}) \ {y} /\ (t \ {x}) \ {y} \in SUBSET s
        BY <2>2
      <4> DEFINE rest == h[(t \ {x}) \ {y}]
      <4>4. f[x] \in Int /\ f[y] \in Int /\ rest \in Int
        BY <2>1, <4>3
      <4>5. g[t] = f[x] + (f[y] + rest) /\ g[t \ {y}] = f[x] + rest
        BY <4>1, <4>2, <4>3
      <4> HIDE DEF g, rest
      <4> QED
        BY <4>4, <4>5
    <3> QED
      BY <3>1, <3>2, <3>3
  <2> HIDE DEF g
  <2>6. IsSum(g, f, s \cup {x})
    BY <2>3, <2>4, <2>5 DEF IsSum
  <2> QED
    BY <2>6
<1> HIDE DEF G
<1>3. ASSUME NEW s \in SUBSET S, s # {}, \A t \in SUBSET s : t # s => t \in G
      PROVE  s \in G
  <2> PICK x \in s : TRUE
    BY <1>3
  <2>1. /\ s \ {x} \in SUBSET S /\ s \ {x} \in SUBSET s /\ s \ {x} # s
        /\ x \in S \ (s \ {x}) /\ (s \ {x}) \cup {x} = s
    OBVIOUS
  <2>2. s \ {x} \in G
    BY <1>3, <2>1
  <2> QED
    BY <1>2, <2>1, <2>2
<1>4. S \in G
  BY <1>1, <1>3, SubsetInduction
<1> QED
  BY <1>4 DEF G

\* The library's sum, a fold that takes the elements in some order, is that sum.
LEMMA SumIs ==
  ASSUME NEW S, IsFiniteSet(S), NEW f, NEW h, IsSum(h, f, S)
  PROVE  SumFunctionOnSet(f, S) = h[S]
<1> DEFINE c(s) == CHOOSE x \in s : TRUE
           step(g) == [s \in SUBSET S |->
                        IF s = {} THEN 0 ELSE f[c(s)] + g[s \ {c(s)}]]
           iter == CHOOSE g : g = step(g)
<1>1. SumFunctionOnSet(f, S) = iter[S]
  BY DEF SumFunctionOnSet, FoldFunctionOnSet, MapThenFoldSet
<1>2. \A s \in SUBSET S : s # {} => c(s) \in s
  OBVIOUS
<1>3. h = step(h)
  BY <1>2 DEF IsSum
<1>4. iter = step(iter)
  BY <1>3
<1> HIDE DEF iter
<1> DEFINE G == {s \in SUBSET S : iter[s] = h[s]}
<1>5. {} \in G
  BY <1>4 DEF IsSum
<1>6. ASSUME NEW s \in SUBSET S, s # {}, \A t \in SUBSET s : t # s => t \in G
      PROVE  s \in G
  <2>1. s \ {c(s)} \in SUBSET s /\ s \ {c(s)} # s
    BY <1>2, <1>6
  <2>2. iter[s] = f[c(s)] + iter[s \ {c(s)}]
    BY <1>4, <1>6
  <2>3. h[s] = f[c(s)] + h[s \ {c(s)}]
    BY <1>2, <1>6 DEF IsSum
  <2> QED
    BY <1>6, <2>1, <2>2, <2>3
<1> HIDE DEF G
<1>7. S \in G
  BY <1>5, <1>6, SubsetInduction
<1> QED
  BY <1>1, <1>7 DEF G

\* Nothing sums to 0.
LEMMA SumEmpty ==
  ASSUME NEW f
  PROVE  SumFunctionOnSet(f, {}) = 0
<1> DEFINE z == [s \in SUBSET {} |-> 0]
<1>1. IsSum(z, f, {}) /\ z[{}] = 0
  BY DEF IsSum
<1> HIDE DEF z
<1> QED
  BY <1>1, SumIs, FS_EmptySet

\* A finite sum of integers is an integer.
LEMMA SumType ==
  ASSUME NEW S, IsFiniteSet(S), NEW f, \A x \in S : f[x] \in Int
  PROVE  SumFunctionOnSet(f, S) \in Int
<1> PICK h : IsSum(h, f, S)
  BY SumExists
<1>1. h[S] \in Int
  BY DEF IsSum
<1> QED
  BY <1>1, SumIs

\* Any element may be taken out of a sum.
LEMMA SumRemove ==
  ASSUME NEW S, IsFiniteSet(S), NEW f, \A x \in S : f[x] \in Int, NEW x \in S
  PROVE  SumFunctionOnSet(f, S) = f[x] + SumFunctionOnSet(f, S \ {x})
<1> PICK h : IsSum(h, f, S)
  BY SumExists
<1> DEFINE T == S \ {x}
           g == [s \in SUBSET T |-> h[s]]
<1>1. IsSum(g, f, T)
  BY DEF IsSum
<1>2. h[S] = f[x] + h[T] /\ g[T] = h[T]
  BY DEF IsSum
<1>3. IsFiniteSet(T)
  BY FS_RemoveElement
<1> HIDE DEF T, g
<1>4. SumFunctionOnSet(f, S) = h[S] /\ SumFunctionOnSet(f, T) = h[T]
  BY <1>1, <1>2, <1>3, SumIs
<1> QED
  BY <1>2, <1>4 DEF T

\* A sum depends on the summands only.
LEMMA SumSame ==
  ASSUME NEW S, IsFiniteSet(S), NEW f, NEW g, \A x \in S : f[x] \in Int /\ g[x] = f[x]
  PROVE  SumFunctionOnSet(g, S) = SumFunctionOnSet(f, S)
<1> PICK h : IsSum(h, f, S)
  BY SumExists
<1>1. IsSum(h, g, S)
  BY DEF IsSum
<1> QED
  BY <1>1, SumIs

\* An element that joins adds its summand.
LEMMA SumAdd ==
  ASSUME NEW S, IsFiniteSet(S), NEW f, NEW x, x \notin S,
         \A y \in S \cup {x} : f[y] \in Int
  PROVE  SumFunctionOnSet(f, S \cup {x}) = f[x] + SumFunctionOnSet(f, S)
<1>1. IsFiniteSet(S \cup {x}) /\ (S \cup {x}) \ {x} = S
  BY FS_AddElement
<1> QED
  BY <1>1, SumRemove

\* A sum of which one element is added, or taken away when read backwards.
LEMMA SumGrows ==
  ASSUME NEW S, IsFiniteSet(S), NEW x, x \notin S, NEW f, NEW g,
         DOMAIN f = S, DOMAIN g = S \cup {x},
         \A y \in S : f[y] \in Int /\ g[y] = f[y], g[x] \in Int
  PROVE  SumFunction(g) = SumFunction(f) + g[x] /\ SumFunction(f) \in Int
<1>1. SumFunctionOnSet(g, S \cup {x}) = g[x] + SumFunctionOnSet(g, S)
  BY SumAdd
<1>2. SumFunctionOnSet(g, S) = SumFunctionOnSet(f, S)
  BY SumSame
<1>3. SumFunctionOnSet(f, S) \in Int
  BY SumType
<1> QED
  BY <1>1, <1>2, <1>3 DEF SumFunction

\* A sum of which one summand changes.
LEMMA SumChanges ==
  ASSUME NEW S, IsFiniteSet(S), NEW x \in S, NEW f, NEW g,
         DOMAIN f = S, DOMAIN g = S,
         \A y \in S : f[y] \in Int /\ g[y] \in Int,
         \A y \in S \ {x} : g[y] = f[y]
  PROVE  /\ SumFunction(g) = SumFunction(f) - f[x] + g[x]
         /\ SumFunction(f) \in Int
<1> DEFINE T == S \ {x}
<1>1. IsFiniteSet(T)
  BY FS_RemoveElement
<1>2. SumFunctionOnSet(f, S) = f[x] + SumFunctionOnSet(f, T)
  BY SumRemove
<1>3. SumFunctionOnSet(g, S) = g[x] + SumFunctionOnSet(g, T)
  BY SumRemove
<1>4. SumFunctionOnSet(g, T) = SumFunctionOnSet(f, T)
  BY <1>1, SumSame
<1>5. SumFunctionOnSet(f, T) \in Int
  BY <1>1, SumType
<1> HIDE DEF T
<1> QED
  BY <1>2, <1>3, <1>4, <1>5 DEF SumFunction

\* A sum over nothing.
LEMMA SumOfNothing ==
  ASSUME NEW f, DOMAIN f = {}
  PROVE  SumFunction(f) = 0
BY SumEmpty DEF SumFunction

\* Finite sums are integers.
LEMMA SumInteger ==
  ASSUME NEW f, IsFiniteSet(DOMAIN f), \A x \in DOMAIN f : f[x] \in Int
  PROVE  SumFunction(f) \in Int
BY SumType DEF SumFunction

-----------------------------------------------------------------------------
(* Steps *)

\* The steps of the shop, by what they write to the books.
LEMMA BooksStep ==
  ASSUME TypeInv, [EconomyNext]_economyVars
  PROVE  \/ \E r \in Slots : PlaceOrder(r) /\ tokenGrants' = tokenGrants
         \/ \E r \in Slots : AdvanceOrder(r) /\ tokenGrants' = tokenGrants
         \/ \E r \in Slots : CancelOrder(r) /\ tokenGrants' = tokenGrants
         \/ \E r \in Slots : SaveGrants(r) /\ orders' = orders
         \/ \E r \in Slots : /\ ResetTokenBalances(r)
                             /\ orders' = orders /\ tokenGrants' = tokenGrants
         \/ UNCHANGED <<orders, tokenGrants, ledgerVars>>
<1>1. RequestsTyped
  BY DEF TypeInv, EconomyTypeOK, RequestsTyped
<1>2. ASSUME NEW q \in Slots, OrderStep(q)
      PROVE  \/ PlaceOrder(q) \/ AdvanceOrder(q) \/ CancelOrder(q)
             \/ UNCHANGED <<databaseVars, orderVars>>
  BY <1>2 DEF OrderStep, ReceiveOrderRequest, ServeOrderRequest, ReceivePurchase,
       ReceiveStatusUpdate, LookUpKey, FindKeyTaken, RefusePurchase,
       CollideOnKey, RecoverFromCollision, AnswerStatusUpdate,
       CollideOnRefund, RecoverFromRefundCollision, OrderConflict,
       FailOrderRequest
<1>3. ASSUME NEW q \in Slots, ProductStep(q)
      PROVE  UNCHANGED <<orderVars, ledgerVars>>
  BY <1>3 DEF ProductStep, ReceiveProductCall, RefuseProductCall, CreateProduct,
              UpdateProduct, ProductConflict, databaseVars, ledgerVars
<1>4. ASSUME NEW q \in Slots, EventStep(q)
      PROVE  SaveGrants(q) \/ UNCHANGED <<tokenGrants, ledgerVars>>
  BY <1>4 DEF EventStep, ReceiveTokenEventRequest, ServeTokenEventRequest,
       CreateEvent, ReceiveEventCall, ReceiveGrants, AnswerEventCall,
       RenameEvent, DeleteEvent, RefuseGrants, OverflowGrants,
       TokenEventConflict, databaseVars, ledgerVars, eventVars
<1>5. ASSUME NEW q \in Slots, ResetStep(q)
      PROVE  ResetTokenBalances(q) \/ UNCHANGED ledgerVars
  BY <1>5 DEF ResetStep, ReceiveReset, ResetNothing, ResetConflict, databaseVars,
              ledgerVars
<1>6. ASSUME NEW q \in Slots, AccessStep(q)
      PROVE  UNCHANGED ledgerVars
  BY <1>6 DEF AccessStep, ReceiveAccess, ReadAccess, WriteAccess, databaseVars,
              ledgerVars
<1>7. /\ UNCHANGED databaseVars => UNCHANGED ledgerVars
      /\ UNCHANGED orderVars => orders' = orders
      /\ UNCHANGED eventVars => tokenGrants' = tokenGrants
  BY DEF databaseVars, ledgerVars, orderVars, eventVars
<1> QED
  BY <1>1, <1>2, <1>3, <1>4, <1>5, <1>6, <1>7, OneRequestMoves DEF economyVars

-----------------------------------------------------------------------------
(* Grants and the ledger *)

\* What event e granted to user u is what its ledger entries say, the first of
\* which made the grant.
GrantBooked(e, u) ==
  /\ GrantedAmount(e, u) =
       SumFunction([i \in EventLogs(e, u) |-> tokenLogs[u][i].delta])
  /\ tokenGrants[e][u] = NoRow <=> EventLogs(e, u) = {}
  /\ \A i \in EventLogs(e, u) :
       (tokenLogs[u][i].type = "EVENT_GRANT")
         <=> (\A j \in EventLogs(e, u) : i <= j)

GrantsBooked == \A e \in Events, u \in Users : GrantBooked(e, u)

\* The entries of an event are finitely many, and numbers.
LEMMA EventLogsFinite ==
  ASSUME TypeInv, NEW e \in Events, NEW u \in Users
  PROVE  /\ IsFiniteSet(EventLogs(e, u))
         /\ EventLogs(e, u) \subseteq 1..Len(tokenLogs[u])
         /\ Len(tokenLogs[u]) \in Nat
         /\ \A i \in EventLogs(e, u) : tokenLogs[u][i].delta \in Int
<1>1. tokenLogs[u] \in Seq(TokenLog)
  BY DEF TypeInv, EconomyTypeOK, DatabaseTypeOK
<1>2. Len(tokenLogs[u]) \in Nat /\ DOMAIN tokenLogs[u] = 1..Len(tokenLogs[u])
  BY <1>1
<1>3. EventLogs(e, u) \subseteq 1..Len(tokenLogs[u])
  BY <1>2 DEF EventLogs
<1>4. IsFiniteSet(1..Len(tokenLogs[u]))
  BY <1>2, FS_Interval
<1>5. IsFiniteSet(EventLogs(e, u))
  BY <1>3, <1>4, FS_Subset
<1>6. \A i \in 1..Len(tokenLogs[u]) : tokenLogs[u][i] \in TokenLog
  BY <1>1
<1>7. \A i \in 1..Len(tokenLogs[u]) : tokenLogs[u][i].delta \in Int
  BY <1>6 DEF TokenLog
<1> QED
  BY <1>2, <1>3, <1>5, <1>7

\* A step that adds no entry of the event and keeps the granted amount.
LEMMA GrantUntouched ==
  ASSUME TypeInv, NEW e \in Events, NEW u \in Users, GrantBooked(e, u),
         tokenGrants'[e][u] = NoRow <=> tokenGrants[e][u] = NoRow,
         GrantedAmount(e, u)' = GrantedAmount(e, u),
         \/ tokenLogs'[u] = tokenLogs[u]
         \/ \E entry \in TokenLog :
              entry.source # e /\ tokenLogs'[u] = Append(tokenLogs[u], entry)
  PROVE  GrantBooked(e, u)'
<1>1. /\ EventLogs(e, u)' = EventLogs(e, u)
      /\ \A i \in EventLogs(e, u) : tokenLogs'[u][i] = tokenLogs[u][i]
  <2>1. CASE tokenLogs'[u] = tokenLogs[u]
    BY <2>1 DEF EventLogs
  <2>2. ASSUME NEW entry \in TokenLog, entry.source # e,
               tokenLogs'[u] = Append(tokenLogs[u], entry)
        PROVE  /\ EventLogs(e, u)' = EventLogs(e, u)
               /\ \A i \in EventLogs(e, u) : tokenLogs'[u][i] = tokenLogs[u][i]
    <3> DEFINE n == Len(tokenLogs[u])
    <3>1. /\ n \in Nat
          /\ DOMAIN tokenLogs[u] = 1..n
          /\ DOMAIN tokenLogs'[u] = 1..(n + 1)
          /\ \A i \in DOMAIN tokenLogs[u] : tokenLogs'[u][i] = tokenLogs[u][i]
          /\ tokenLogs'[u][n + 1] = entry
      BY <2>2, GrownLedger
    <3>2. /\ 1..n \subseteq 1..(n + 1)
          /\ \A i \in 1..(n + 1) : i \in 1..n \/ i = n + 1
      BY <3>1
    <3> HIDE DEF n
    <3> QED
      BY <2>2, <3>1, <3>2 DEF EventLogs
  <2> QED
    BY <2>1, <2>2
<1>2. [i \in EventLogs(e, u)' |-> tokenLogs'[u][i].delta] =
        [i \in EventLogs(e, u) |-> tokenLogs[u][i].delta]
  BY <1>1
<1> QED
  BY <1>1, <1>2 DEF GrantBooked

\* A batch that moves a member's grant books the difference.
LEMMA GrantMoved ==
  ASSUME TypeInv, NEW e \in Events, NEW u \in Users, NEW entry \in TokenLog, NEW n
  PROVE  /\ n = Len(tokenLogs[u])
         /\ GrantBooked(e, u)
         /\ entry.source = e
         /\ entry.type = "EVENT_GRANT" <=> tokenGrants[e][u] = NoRow
         /\ DOMAIN tokenLogs'[u] = 1..(n + 1)
         /\ \A i \in 1..n : tokenLogs'[u][i] = tokenLogs[u][i]
         /\ tokenLogs'[u][n + 1] = entry
         /\ tokenGrants'[e][u] # NoRow
         /\ GrantedAmount(e, u) \in Int
         /\ GrantedAmount(e, u)' = GrantedAmount(e, u) + entry.delta
         => GrantBooked(e, u)'
<1>0. SUFFICES ASSUME n = Len(tokenLogs[u]),
                      GrantBooked(e, u),
                      entry.source = e,
                      entry.type = "EVENT_GRANT" <=> tokenGrants[e][u] = NoRow,
                      DOMAIN tokenLogs'[u] = 1..(n + 1),
                      \A i \in 1..n : tokenLogs'[u][i] = tokenLogs[u][i],
                      tokenLogs'[u][n + 1] = entry,
                      tokenGrants'[e][u] # NoRow,
                      GrantedAmount(e, u) \in Int,
                      GrantedAmount(e, u)' = GrantedAmount(e, u) + entry.delta
               PROVE  GrantBooked(e, u)'
  OBVIOUS
<1> DEFINE S == EventLogs(e, u)
<1>1. n \in Nat /\ DOMAIN tokenLogs[u] = 1..n
  <2>1. tokenLogs[u] \in Seq(TokenLog)
    BY DEF TypeInv, EconomyTypeOK, DatabaseTypeOK
  <2> QED
    BY <1>0, <2>1
<1>2. /\ IsFiniteSet(S) /\ S \subseteq 1..n
      /\ \A i \in S : tokenLogs[u][i].delta \in Int
  BY <1>0, EventLogsFinite
<1>3. 1..(n + 1) = 1..n \cup {n + 1} /\ n + 1 \notin 1..n
  BY <1>1
<1>4. entry.delta \in Int
  BY DEF TokenLog
<1>5. S' = S \cup {n + 1}
  BY <1>0, <1>1, <1>3 DEF EventLogs
<1>6. \A i \in S : tokenLogs'[u][i] = tokenLogs[u][i]
  BY <1>0, <1>1, <1>2
<1> HIDE DEF S
<1>7. n + 1 \notin S
  BY <1>2, <1>3
<1>8. /\ \A i \in S : tokenLogs[u][i].delta \in Int /\ tokenLogs'[u][i] = tokenLogs[u][i]
      /\ tokenLogs'[u][n + 1].delta \in Int
  BY <1>0, <1>1, <1>2, <1>4, <1>6
<1> DEFINE x == n + 1
           f == [i \in S |-> tokenLogs[u][i].delta]
           g == [i \in S \cup {x} |-> tokenLogs'[u][i].delta]
<1>9. /\ DOMAIN f = S /\ DOMAIN g = S \cup {x} /\ x \notin S
      /\ \A i \in S : f[i] \in Int /\ g[i] = f[i]
      /\ g[x] \in Int /\ g[x] = entry.delta
  BY <1>0, <1>7, <1>8
<1> HIDE DEF f, g, x
<1>10. SumFunction(g) = SumFunction(f) + g[x]
  <2>1. IsFiniteSet(S)
    BY <1>2
  <2> QED
    BY <1>9, <2>1, SumGrows
<1>11. GrantedAmount(e, u) = SumFunction(f)
  BY <1>0 DEF GrantBooked, f, S
<1>12. GrantedAmount(e, u)' = SumFunction(g)
  BY <1>0, <1>9, <1>10, <1>11
<1>13. GrantedAmount(e, u)' =
         SumFunction([i \in EventLogs(e, u)' |-> tokenLogs'[u][i].delta])
  BY <1>5, <1>12 DEF S, g, x
<1>14. \A i \in S' :
         (tokenLogs'[u][i].type = "EVENT_GRANT") <=> (\A j \in S' : i <= j)
  <2>1. CASE S = {}
    <3>1. entry.type = "EVENT_GRANT" /\ S' = {n + 1}
      BY <1>0, <1>5, <2>1 DEF GrantBooked, S
    <3> QED
      BY <1>0, <1>1, <3>1
  <2>2. CASE S # {}
    <3>1. entry.type # "EVENT_GRANT"
      BY <1>0, <2>2 DEF GrantBooked, S
    <3>2. \A i \in S : i \in Int /\ i < n + 1
      BY <1>1, <1>2
    <3>3. \A i \in S : (tokenLogs[u][i].type = "EVENT_GRANT") <=> (\A j \in S : i <= j)
      BY <1>0 DEF GrantBooked, S
    <3>4. ASSUME NEW i \in S
          PROVE  (\A j \in S' : i <= j) <=> (\A j \in S : i <= j)
      BY <1>1, <1>5, <3>2
    <3>5. ~ \A j \in S' : n + 1 <= j
      BY <1>1, <1>5, <2>2, <3>2
    <3> QED
      BY <1>0, <1>1, <1>5, <1>6, <3>1, <3>3, <3>4, <3>5
  <2> QED
    BY <2>1, <2>2
<1>15. S' # {}
  BY <1>5
<1> QED
  BY <1>0, <1>13, <1>14, <1>15 DEF GrantBooked, S

\* What a batch of grants does to one member's grant from one event.
LEMMA GrantSaved ==
  ASSUME TypeInv, NEW r \in Slots, SaveGrants(r), NEW e \in Events, NEW u \in Users
  PROVE  LET c == call[r]
         IN  /\ GrantedAmount(e, u) \in Int
             /\ GrantedAmount(e, u)' =
                  IF e = c.event /\ u \in Moved(c)
                  THEN GrantedAmount(e, u) + DeltaAmount(c, u)
                  ELSE GrantedAmount(e, u)
             /\ IF e = c.event /\ u \in Moved(c)
                THEN tokenGrants'[e][u] # NoRow
                ELSE tokenGrants'[e][u] = NoRow <=> tokenGrants[e][u] = NoRow
             /\ u \in Moved(c) =>
                  /\ GrantLog(c, u) \in TokenLog
                  /\ DeltaAmount(c, u) \in Int
                  /\ tokenLogs'[u] = Append(tokenLogs[u], GrantLog(c, u))
                  /\ GrantLog(c, u).type = "EVENT_GRANT"
                       <=> tokenGrants[c.event][u] = NoRow
             /\ u \notin Moved(c) => tokenLogs'[u] = tokenLogs[u]
<1> DEFINE c == call[r]
           D == DOMAIN c.grants
           changed == {x \in D : PlanStatus(c, x) # "UNCHANGED"}
<1>1. /\ c \in GrantCalls /\ GrantsAccepted(c) /\ ~Overflows(c)
      /\ tokenGrants' = [tokenGrants EXCEPT ![c.event] =
            [x \in Users |-> IF x \in changed THEN c.grants[x] ELSE @[x]]]
      /\ tokenLogs' = [x \in Users |-> IF x \in Moved(c)
                                       THEN Append(tokenLogs[x], GrantLog(c, x))
                                       ELSE tokenLogs[x]]
  BY DEF SaveGrants
<1>2. \A x \in D : /\ x \in Users /\ c.grants[x] \in TokenGrant
                   /\ DeltaAmount(c, x) \in Int /\ GrantLog(c, x) \in TokenLog
  BY <1>1, AcceptedGrants
<1>3. c.event \in Events
  BY <1>1, TokenEventsAssumption DEF GrantCall
<1>4. Moved(c) = {x \in D : DeltaAmount(c, x) # 0}
  BY DEF Moved
<1>5. /\ tokenGrants \in [Events -> [Users -> TokenGrant \cup {NoRow}]]
      /\ NoRow \notin TokenGrant
      /\ \A g \in TokenGrant : g.amount \in Nat
  BY TokenEventsAssumption DEF TypeInv, EconomyTypeOK, TokenEventsTypeOK, TokenGrant
<1>6. \A x \in D : DeltaAmount(c, x) = c.grants[x].amount - GrantedAmount(c.event, x)
  BY DEF DeltaAmount
<1>7. \A x \in D :
        PlanStatus(c, x) =
          IF tokenGrants[c.event][x] = NoRow
          THEN IF c.grants[x].amount > 0 THEN "CREATED" ELSE "UNCHANGED"
          ELSE IF DeltaAmount(c, x) # 0
                    \/ tokenGrants[c.event][x].reason # c.grants[x].reason
               THEN "UPDATED" ELSE "UNCHANGED"
  BY DEF PlanStatus
<1>8. GrantLog(c, u).type = IF PlanStatus(c, u) = "CREATED" THEN "EVENT_GRANT"
                            ELSE "EVENT_ADJUSTMENT"
  BY DEF GrantLog
<1>9. /\ GrantedAmount(e, u) = IF tokenGrants[e][u] = NoRow THEN 0
                               ELSE tokenGrants[e][u].amount
      /\ GrantedAmount(e, u)' = IF tokenGrants'[e][u] = NoRow THEN 0
                                ELSE tokenGrants'[e][u].amount
      /\ GrantedAmount(c.event, u) = IF tokenGrants[c.event][u] = NoRow THEN 0
                                     ELSE tokenGrants[c.event][u].amount
  BY DEF GrantedAmount
<1>10. GrantedAmount(e, u) \in Int
  BY <1>5, <1>9
<1>11. e # c.event => tokenGrants'[e] = tokenGrants[e]
  BY <1>1, <1>3, <1>5
<1>12. e = c.event => tokenGrants'[e][u] = IF u \in changed THEN c.grants[u]
                                           ELSE tokenGrants[e][u]
  BY <1>1, <1>3, <1>5
<1>13. u \in changed <=> u \in D /\ PlanStatus(c, u) # "UNCHANGED"
  OBVIOUS
<1>14. u \in Moved(c) <=> u \in D /\ DeltaAmount(c, u) # 0
  BY <1>4
<1> HIDE DEF changed, D, c
<1>15. CASE u \in Moved(c)
  <2>1. u \in D /\ DeltaAmount(c, u) # 0 /\ DeltaAmount(c, u) \in Int
        /\ c.grants[u] \in TokenGrant
        /\ DeltaAmount(c, u) = c.grants[u].amount - GrantedAmount(c.event, u)
    BY <1>2, <1>6, <1>14, <1>15
  <2>2. tokenGrants[c.event][u] \in TokenGrant \cup {NoRow}
    BY <1>3, <1>5
  <2>3. u \in changed
    BY <1>5, <1>7, <1>9, <1>13, <2>1, <2>2
  <2>4. PlanStatus(c, u) = "CREATED" <=> tokenGrants[c.event][u] = NoRow
    BY <1>5, <1>7, <1>9, <2>1, <2>2
  <2>5. e = c.event =>
          /\ tokenGrants'[e][u] # NoRow
          /\ GrantedAmount(e, u)' = GrantedAmount(e, u) + DeltaAmount(c, u)
    BY <1>5, <1>9, <1>10, <1>12, <2>1, <2>3
  <2>6. tokenLogs'[u] = Append(tokenLogs[u], GrantLog(c, u)) /\ GrantLog(c, u) \in TokenLog
    BY <1>1, <1>2, <1>15, <2>1
  <2> QED
    BY <1>8, <1>9, <1>10, <1>11, <1>15, <2>1, <2>4, <2>5, <2>6 DEF c
<1>16. CASE u \notin Moved(c)
  <2>1. tokenLogs'[u] = tokenLogs[u]
    BY <1>1, <1>16
  <2>2. CASE e = c.event /\ u \in changed
    <3>1. u \in D /\ PlanStatus(c, u) # "UNCHANGED" /\ DeltaAmount(c, u) = 0
          /\ c.grants[u] \in TokenGrant
          /\ DeltaAmount(c, u) = c.grants[u].amount - GrantedAmount(c.event, u)
      BY <1>2, <1>6, <1>13, <1>14, <1>16, <2>2
    <3>2. tokenGrants[c.event][u] # NoRow
      BY <1>5, <1>7, <1>9, <3>1
    <3>3. GrantedAmount(e, u)' = GrantedAmount(e, u) /\ tokenGrants'[e][u] # NoRow
      <4>1. tokenGrants'[e][u] = c.grants[u] /\ c.grants[u] # NoRow
        BY <1>5, <1>12, <2>2, <3>1
      <4>2. c.grants[u].amount = GrantedAmount(e, u)
        BY <1>5, <1>10, <2>2, <3>1
      <4> QED
        BY <1>9, <4>1, <4>2
    <3> QED
      BY <1>10, <1>16, <2>1, <2>2, <3>2, <3>3 DEF c
  <2>3. CASE ~(e = c.event /\ u \in changed)
    <3>1. tokenGrants'[e][u] = tokenGrants[e][u]
      BY <1>11, <1>12, <2>3
    <3> QED
      BY <1>9, <1>10, <1>16, <2>1, <3>1 DEF c
  <2> QED
    BY <2>2, <2>3
<1> QED
  BY <1>15, <1>16

-----------------------------------------------------------------------------
\* A step keeps the books of event e and user u when it leaves the grant alone
\* and any entry it writes has another source.
WritesElsewhere(e, u) ==
  \/ tokenLogs'[u] = tokenLogs[u]
  \/ \E entry \in TokenLog :
       entry.source # e /\ tokenLogs'[u] = Append(tokenLogs[u], entry)

\* An entry written for one user only, with a source that is no event.
LEMMA OrderWritesElsewhere ==
  ASSUME TypeInv, NEW v \in Users, NEW entry \in TokenLog, entry.source \in Keys,
         tokenLogs' = [tokenLogs EXCEPT ![v] = Append(@, entry)],
         NEW e \in Events, NEW u \in Users
  PROVE  WritesElsewhere(e, u)
<1>1. entry.source # e
  BY DistinctIds
<1>2. DOMAIN tokenLogs = Users
  BY DEF TypeInv, EconomyTypeOK, DatabaseTypeOK
<1>3. tokenLogs'[u] = IF u = v THEN Append(tokenLogs[u], entry) ELSE tokenLogs[u]
  BY <1>2
<1> QED
  BY <1>1, <1>3 DEF WritesElsewhere

\* The entry of a reset is no entry of an event.
LEMMA ResetWritesElsewhere ==
  ASSUME TypeInv, NEW r \in Slots, ResetTokenBalances(r),
         NEW e \in Events, NEW u \in Users
  PROVE  WritesElsewhere(e, u)
<1>1. tokenLogs'[u] = IF u \in ResetTargets THEN Append(tokenLogs[u], ResetLog(u))
                      ELSE tokenLogs[u]
  BY DEF ResetTokenBalances
<1>2. tokenBalance[u] \in 0..MaxInt /\ MaxInt \in Nat
  BY TokenDatabaseAssumption DEF TypeInv, EconomyTypeOK, DatabaseTypeOK
<1>3. ResetLog(u) \in TokenLog
  BY <1>2 DEF ResetLog, TokenLog, TransactionTypes, Sources
<1>4. ResetLog(u).source # e
  BY DistinctIds DEF ResetLog
<1> QED
  BY <1>1, <1>3, <1>4 DEF WritesElsewhere

\* Every step of the shop keeps the books of every grant.
LEMMA GrantsBookedStep ==
  ASSUME TypeInv, GrantsBooked, [EconomyNext]_economyVars
  PROVE  GrantsBooked'
<1> SUFFICES ASSUME NEW e \in Events, NEW u \in Users
             PROVE  GrantBooked(e, u)'
  BY DEF GrantsBooked
<1>1. GrantBooked(e, u)
  BY DEF GrantsBooked
<1>2. ASSUME tokenGrants' = tokenGrants, WritesElsewhere(e, u)
      PROVE  GrantBooked(e, u)'
  <2>1. /\ tokenGrants'[e][u] = NoRow <=> tokenGrants[e][u] = NoRow
        /\ GrantedAmount(e, u)' = GrantedAmount(e, u)
    BY <1>2 DEF GrantedAmount
  <2> QED
    BY <1>1, <1>2, <2>1, GrantUntouched DEF WritesElsewhere
<1>3. ASSUME NEW r \in Slots, PlaceOrder(r)
      PROVE  WritesElsewhere(e, u)
  BY <1>3, PlaceOrderMoves, OrderWritesElsewhere DEF IsPaymentOf
<1>4. ASSUME NEW r \in Slots, AdvanceOrder(r)
      PROVE  WritesElsewhere(e, u)
  BY <1>4 DEF AdvanceOrder, ledgerVars, WritesElsewhere
<1>5. ASSUME NEW r \in Slots, CancelOrder(r)
      PROVE  WritesElsewhere(e, u)
  BY <1>5, CancelOrderMoves, OrderWritesElsewhere DEF IsRefundOf
<1>6. ASSUME NEW r \in Slots, SaveGrants(r)
      PROVE  GrantBooked(e, u)'
  <2> DEFINE c == call[r]
             entry == GrantLog(c, u)
  <2>1. /\ GrantedAmount(e, u) \in Int
        /\ GrantedAmount(e, u)' = IF e = c.event /\ u \in Moved(c)
                                  THEN GrantedAmount(e, u) + DeltaAmount(c, u)
                                  ELSE GrantedAmount(e, u)
        /\ IF e = c.event /\ u \in Moved(c)
           THEN tokenGrants'[e][u] # NoRow
           ELSE tokenGrants'[e][u] = NoRow <=> tokenGrants[e][u] = NoRow
        /\ u \in Moved(c) =>
             /\ entry \in TokenLog
             /\ tokenLogs'[u] = Append(tokenLogs[u], entry)
             /\ entry.type = "EVENT_GRANT" <=> tokenGrants[c.event][u] = NoRow
        /\ u \notin Moved(c) => tokenLogs'[u] = tokenLogs[u]
    BY <1>6, GrantSaved
  <2>2. entry.source = c.event /\ entry.delta = DeltaAmount(c, u)
    BY DEF GrantLog
  <2> HIDE DEF c, entry
  <2>3. CASE e = c.event /\ u \in Moved(c)
    <3> DEFINE n == Len(tokenLogs[u])
    <3>1. /\ DOMAIN tokenLogs'[u] = 1..(n + 1)
          /\ \A i \in 1..n : tokenLogs'[u][i] = tokenLogs[u][i]
          /\ tokenLogs'[u][n + 1] = entry
      BY <2>1, <2>3, GrownLedger
    <3>2. n = Len(tokenLogs[u])
      OBVIOUS
    <3> HIDE DEF n
    <3> QED
      BY <1>1, <2>1, <2>2, <2>3, <3>1, <3>2, GrantMoved
  <2>4. CASE ~(e = c.event /\ u \in Moved(c))
    <3>1. WritesElsewhere(e, u)
      BY <2>1, <2>2, <2>4 DEF WritesElsewhere
    <3> QED
      BY <1>1, <2>1, <2>4, <3>1, GrantUntouched DEF WritesElsewhere
  <2> QED
    BY <2>3, <2>4
<1>7. ASSUME NEW r \in Slots, ResetTokenBalances(r)
      PROVE  WritesElsewhere(e, u)
  BY <1>7, ResetWritesElsewhere
<1>8. UNCHANGED ledgerVars => WritesElsewhere(e, u)
  BY DEF ledgerVars, WritesElsewhere
<1> QED
  BY <1>2, <1>3, <1>4, <1>5, <1>6, <1>7, <1>8, BooksStep

\* Grants and their ledger entries agree in every reachable state.
LEMMA GrantsAreBooked == EconomySpec => []GrantsBooked
<1>1. EconomyInit => GrantsBooked
  <2> SUFFICES ASSUME EconomyInit, NEW e \in Events, NEW u \in Users
               PROVE  GrantBooked(e, u)
    BY DEF GrantsBooked
  <2>1. tokenLogs[u] = InitialLogs(u) /\ tokenGrants[e][u] = NoRow
    BY DEF EconomyInit, DatabaseInit, TokenEventsInit
  <2>2. \A i \in DOMAIN InitialLogs(u) : InitialLogs(u)[i].source = NoSource
    BY DEF InitialLogs
  <2>3. EventLogs(e, u) = {}
    BY <2>1, <2>2, DistinctIds DEF EventLogs
  <2> DEFINE f == [i \in EventLogs(e, u) |-> tokenLogs[u][i].delta]
  <2>4. DOMAIN f = {}
    BY <2>3
  <2> HIDE DEF f
  <2>5. SumFunction(f) = 0
    BY <2>4, SumOfNothing
  <2>6. GrantedAmount(e, u) = 0
    BY <2>1 DEF GrantedAmount
  <2> QED
    BY <2>1, <2>3, <2>5, <2>6 DEF GrantBooked, f
<1>2. TypeInv /\ GrantsBooked /\ [EconomyNext]_economyVars => GrantsBooked'
  BY GrantsBookedStep
<1> QED
  BY <1>1, <1>2, TypeCorrect, PTL DEF EconomySpec

\* What an event granted to a member is what the ledger says the member got
\* from it, through every raise, reduction, retry and reset.
THEOREM GrantsMatchLedger == EconomySpec => []GrantMatchesLedger
<1>1. GrantsBooked => GrantMatchesLedger
  BY DEF GrantsBooked, GrantBooked, GrantMatchesLedger
<1> QED
  BY <1>1, GrantsAreBooked, PTL

\* The entry that made a grant is the first of its event, and the only one that
\* is called a grant.
THEOREM FirstEntriesAreGrants == EconomySpec => []FirstEntryIsGrant
<1>1. GrantsBooked => FirstEntryIsGrant
  BY DEF GrantsBooked, GrantBooked, FirstEntryIsGrant
<1> QED
  BY <1>1, GrantsAreBooked, PTL

-----------------------------------------------------------------------------
\* A sum of which only the summand of x joins, leaves or changes.
LEMMA SumMoves ==
  ASSUME NEW S, IsFiniteSet(S), NEW T, NEW x, S \ {x} = T \ {x},
         NEW f, NEW g, DOMAIN f = S, DOMAIN g = T,
         \A y \in S : f[y] \in Int, \A y \in T : g[y] \in Int,
         \A y \in S \ {x} : g[y] = f[y],
         NEW a, a = IF x \in S THEN f[x] ELSE 0,
         NEW b, b = IF x \in T THEN g[x] ELSE 0
  PROVE  /\ IsFiniteSet(T)
         /\ SumFunction(f) \in Int /\ SumFunction(g) \in Int
         /\ SumFunction(g) = SumFunction(f) - a + b
<1> DEFINE R == S \ {x}
           r == SumFunctionOnSet(f, R)
           q == SumFunctionOnSet(g, R)
<1>1. IsFiniteSet(R)
  BY FS_RemoveElement
<1>2. IsFiniteSet(T)
  <2>1. T = IF x \in T THEN R \cup {x} ELSE R
    OBVIOUS
  <2> HIDE DEF R
  <2> QED
    BY <1>1, <2>1, FS_AddElement
<1>3. r \in Int
  BY <1>1, SumType
<1>4. q = r
  BY <1>1, SumSame
<1>5. SumFunctionOnSet(f, S) = a + r
  <2>1. CASE x \in S
    BY <2>1, SumRemove
  <2>2. CASE x \notin S
    BY <1>3, <2>2
  <2> QED
    BY <2>1, <2>2
<1>6. SumFunctionOnSet(g, T) = b + q
  <2>1. CASE x \in T
    BY <1>2, <2>1, SumRemove
  <2>2. CASE x \notin T
    <3>1. T = R
      BY <2>2
    <3> QED
      BY <1>3, <1>4, <2>2, <3>1
  <2> QED
    BY <2>1, <2>2
<1>7. a \in Int /\ b \in Int
  OBVIOUS
<1>8. SumFunction(f) = SumFunctionOnSet(f, S) /\ SumFunction(g) = SumFunctionOnSet(g, T)
  BY DEF SumFunction
<1> HIDE DEF R, r, q
<1> QED
  BY <1>2, <1>3, <1>4, <1>5, <1>6, <1>7, <1>8

-----------------------------------------------------------------------------
(* The sums of the books *)

\* What the events grant to u, what the live orders of u cost and what resets
\* wrote to the ledger of u.
GrantSum(u) == SumFunction([e \in EventsGrantedTo(u) |-> tokenGrants[e][u].amount])
OrderSum(u) == SumFunction([k \in LiveOrdersOf(u) |-> orders[k].total])
ResetSum(u) == SumFunction([i \in ResetsOf(u) |-> tokenLogs[u][i].delta])

\* Grants that change for one event only change the sum by the difference.
LEMMA GrantSumMoves ==
  ASSUME TypeInv, TypeInv', NEW e \in Events, NEW u \in Users
  PROVE  /\ IsFiniteSet(EventsGrantedTo(u))
         /\ \A d \in Events \ {e} : tokenGrants'[d][u] = tokenGrants[d][u]
         => /\ IsFiniteSet(EventsGrantedTo(u)')
            /\ GrantSum(u) \in Int /\ GrantSum(u)' \in Int
            /\ GrantSum(u)' = GrantSum(u) - GrantedAmount(e, u) + GrantedAmount(e, u)'
<1>0. SUFFICES ASSUME IsFiniteSet(EventsGrantedTo(u)),
                      \A d \in Events \ {e} : tokenGrants'[d][u] = tokenGrants[d][u]
               PROVE  /\ IsFiniteSet(EventsGrantedTo(u)')
                      /\ GrantSum(u) \in Int /\ GrantSum(u)' \in Int
                      /\ GrantSum(u)' =
                           GrantSum(u) - GrantedAmount(e, u) + GrantedAmount(e, u)'
  OBVIOUS
<1> DEFINE S == {d \in Events : tokenGrants[d][u] # NoRow}
           T == {d \in Events : tokenGrants'[d][u] # NoRow}
           f == [d \in S |-> tokenGrants[d][u].amount]
           g == [d \in T |-> tokenGrants'[d][u].amount]
           a == GrantedAmount(e, u)
           b == GrantedAmount(e, u)'
<1>1. S = EventsGrantedTo(u) /\ T = EventsGrantedTo(u)'
  BY DEF EventsGrantedTo
<1>2. SumFunction(f) = GrantSum(u) /\ SumFunction(g) = GrantSum(u)'
  BY DEF GrantSum, EventsGrantedTo
<1>3. S \ {e} = T \ {e} /\ \A d \in S \ {e} : g[d] = f[d]
  BY <1>0
<1>4. /\ \A d \in S : tokenGrants[d][u].amount \in Int
      /\ \A d \in T : tokenGrants'[d][u].amount \in Int
  <2>1. /\ tokenGrants \in [Events -> [Users -> TokenGrant \cup {NoRow}]]
        /\ tokenGrants' \in [Events -> [Users -> TokenGrant \cup {NoRow}]]
    BY DEF TypeInv, EconomyTypeOK, TokenEventsTypeOK
  <2>2. \A x \in TokenGrant : x.amount \in Int
    BY TokenEventsAssumption DEF TokenGrant
  <2> QED
    BY <2>1, <2>2
<1>5. DOMAIN f = S /\ DOMAIN g = T /\ (\A d \in S : f[d] \in Int) /\ \A d \in T : g[d] \in Int
  BY <1>4
<1>6. /\ a = IF e \in S THEN f[e] ELSE 0
      /\ b = IF e \in T THEN g[e] ELSE 0
  BY DEF GrantedAmount
<1>7. IsFiniteSet(S)
  BY <1>0, <1>1
<1> HIDE DEF S, T, f, g, a, b
<1>8. /\ IsFiniteSet(T)
      /\ SumFunction(f) \in Int /\ SumFunction(g) \in Int
      /\ SumFunction(g) = SumFunction(f) - a + b
  BY <1>3, <1>5, <1>6, <1>7, SumMoves
<1> QED
  BY <1>1, <1>2, <1>8 DEF a, b

\* What order k costs user u as long as it is not cancelled.
Cost(k, u) ==
  IF orders[k] # NoOrder /\ orders[k].user = u /\ orders[k].status # "CANCELED"
  THEN orders[k].total ELSE 0

\* A step that writes one order changes the sum by what it does to that order.
LEMMA OrderSumMoves ==
  ASSUME TypeInv, TypeInv', NEW k \in Keys, NEW u \in Users
  PROVE  /\ IsFiniteSet(LiveOrdersOf(u))
         /\ \A j \in Keys \ {k} : orders'[j] = orders[j]
         => /\ OrderSum(u) \in Int /\ OrderSum(u)' \in Int
            /\ OrderSum(u)' = OrderSum(u) - Cost(k, u) + Cost(k, u)'
<1>0. SUFFICES ASSUME IsFiniteSet(LiveOrdersOf(u)),
                      \A j \in Keys \ {k} : orders'[j] = orders[j]
               PROVE  /\ OrderSum(u) \in Int /\ OrderSum(u)' \in Int
                      /\ OrderSum(u)' =
                           OrderSum(u) - Cost(k, u) + Cost(k, u)'
  OBVIOUS
<1> DEFINE S == {j \in Keys : /\ orders[j] # NoOrder
                            /\ orders[j].user = u
                            /\ orders[j].status # "CANCELED"}
           T == {j \in Keys : /\ orders'[j] # NoOrder
                            /\ orders'[j].user = u
                            /\ orders'[j].status # "CANCELED"}
           f == [j \in S |-> orders[j].total]
           g == [j \in T |-> orders'[j].total]
           a == Cost(k, u)
           b == Cost(k, u)'
<1>1. S = LiveOrdersOf(u) /\ T = LiveOrdersOf(u)'
  BY DEF LiveOrdersOf
<1>2. SumFunction(f) = OrderSum(u) /\ SumFunction(g) = OrderSum(u)'
  BY DEF OrderSum, LiveOrdersOf
<1>3. S \ {k} = T \ {k} /\ \A j \in S \ {k} : g[j] = f[j]
  BY <1>0
<1>4. /\ \A j \in S : orders[j].total \in Int
      /\ \A j \in T : orders'[j].total \in Int
  <2>1. /\ orders \in [Keys -> Order \cup {NoOrder}]
        /\ orders' \in [Keys -> Order \cup {NoOrder}]
    BY DEF TypeInv, EconomyTypeOK, OrdersTypeOK
  <2>2. \A x \in Order : x.total \in Int
    BY OrdersAssumption, TokenDatabaseAssumption DEF Order
  <2> QED
    BY <2>1, <2>2
<1>5. DOMAIN f = S /\ DOMAIN g = T /\ (\A j \in S : f[j] \in Int) /\ \A j \in T : g[j] \in Int
  BY <1>4
<1>6. /\ a = IF k \in S THEN f[k] ELSE 0
      /\ b = IF k \in T THEN g[k] ELSE 0
  BY DEF Cost
<1>7. IsFiniteSet(S)
  BY <1>0, <1>1
<1> HIDE DEF S, T, f, g, a, b
<1>8. /\ SumFunction(f) \in Int /\ SumFunction(g) \in Int
      /\ SumFunction(g) = SumFunction(f) - a + b
  BY <1>3, <1>5, <1>6, <1>7, SumMoves
<1> QED
  BY <1>2, <1>8 DEF a, b

\* The live orders of product p, the units they hold, and those that order k
\* holds.
LiveOrdersFor(p) ==
  {k \in Keys : /\ orders[k] # NoOrder
                /\ orders[k].product = p
                /\ orders[k].status # "CANCELED"}

HeldSum(p) == SumFunction([k \in LiveOrdersFor(p) |-> orders[k].quantity])

Held(k, p) ==
  IF orders[k] # NoOrder /\ orders[k].product = p /\ orders[k].status # "CANCELED"
  THEN orders[k].quantity ELSE 0

\* A step that writes one order changes the units held by what it does to it.
LEMMA HeldSumMoves ==
  ASSUME TypeInv, TypeInv', NEW k \in Keys, NEW p \in Products
  PROVE  /\ IsFiniteSet(LiveOrdersFor(p))
         /\ \A j \in Keys \ {k} : orders'[j] = orders[j]
         => /\ HeldSum(p) \in Int /\ HeldSum(p)' \in Int
            /\ HeldSum(p)' = HeldSum(p) - Held(k, p) + Held(k, p)'
<1>0. SUFFICES ASSUME IsFiniteSet(LiveOrdersFor(p)),
                      \A j \in Keys \ {k} : orders'[j] = orders[j]
               PROVE  /\ HeldSum(p) \in Int /\ HeldSum(p)' \in Int
                      /\ HeldSum(p)' =
                           HeldSum(p) - Held(k, p) + Held(k, p)'
  OBVIOUS
<1> DEFINE S == {j \in Keys : /\ orders[j] # NoOrder
                            /\ orders[j].product = p
                            /\ orders[j].status # "CANCELED"}
           T == {j \in Keys : /\ orders'[j] # NoOrder
                            /\ orders'[j].product = p
                            /\ orders'[j].status # "CANCELED"}
           f == [j \in S |-> orders[j].quantity]
           g == [j \in T |-> orders'[j].quantity]
           a == Held(k, p)
           b == Held(k, p)'
<1>1. S = LiveOrdersFor(p) /\ T = LiveOrdersFor(p)'
  BY DEF LiveOrdersFor
<1>2. SumFunction(f) = HeldSum(p) /\ SumFunction(g) = HeldSum(p)'
  BY DEF HeldSum, LiveOrdersFor
<1>3. S \ {k} = T \ {k} /\ \A j \in S \ {k} : g[j] = f[j]
  BY <1>0
<1>4. /\ \A j \in S : orders[j].quantity \in Int
      /\ \A j \in T : orders'[j].quantity \in Int
  <2>1. /\ orders \in [Keys -> Order \cup {NoOrder}]
        /\ orders' \in [Keys -> Order \cup {NoOrder}]
    BY DEF TypeInv, EconomyTypeOK, OrdersTypeOK
  <2>2. \A x \in Order : x.quantity \in Int
    <3>1. \A x \in Order : x.quantity \in Quantities
      BY DEF Order
    <3>2. \A y \in Quantities : y \in Int
      BY OrdersAssumption
    <3> QED
      BY <3>1, <3>2
  <2> QED
    BY <2>1, <2>2
<1>5. DOMAIN f = S /\ DOMAIN g = T /\ (\A j \in S : f[j] \in Int) /\ \A j \in T : g[j] \in Int
  BY <1>4
<1>6. /\ a = IF k \in S THEN f[k] ELSE 0
      /\ b = IF k \in T THEN g[k] ELSE 0
  BY DEF Held
<1>7. IsFiniteSet(S)
  BY <1>0, <1>1
<1> HIDE DEF S, T, f, g, a, b
<1>8. /\ SumFunction(f) \in Int /\ SumFunction(g) \in Int
      /\ SumFunction(g) = SumFunction(f) - a + b
  BY <1>3, <1>5, <1>6, <1>7, SumMoves
<1> QED
  BY <1>2, <1>8 DEF a, b

\* The resets in a ledger are finitely many.
LEMMA ResetsFinite ==
  ASSUME TypeInv, NEW u \in Users
  PROVE  /\ IsFiniteSet(ResetsOf(u))
         /\ ResetsOf(u) \subseteq 1..Len(tokenLogs[u])
         /\ Len(tokenLogs[u]) \in Nat
         /\ \A i \in ResetsOf(u) : tokenLogs[u][i].delta \in Int
<1>1. tokenLogs[u] \in Seq(TokenLog)
  BY DEF TypeInv, EconomyTypeOK, DatabaseTypeOK
<1>2. Len(tokenLogs[u]) \in Nat /\ DOMAIN tokenLogs[u] = 1..Len(tokenLogs[u])
  BY <1>1
<1>3. ResetsOf(u) \subseteq 1..Len(tokenLogs[u])
  BY <1>2 DEF ResetsOf
<1>4. IsFiniteSet(1..Len(tokenLogs[u]))
  BY <1>2, FS_Interval
<1>5. IsFiniteSet(ResetsOf(u))
  BY <1>3, <1>4, FS_Subset
<1>6. \A i \in 1..Len(tokenLogs[u]) : tokenLogs[u][i] \in TokenLog
  BY <1>1
<1>7. \A i \in 1..Len(tokenLogs[u]) : tokenLogs[u][i].delta \in Int
  BY <1>6 DEF TokenLog
<1> QED
  BY <1>2, <1>3, <1>5, <1>7

\* An entry changes the sum of the resets if it is one.
LEMMA ResetSumMoves ==
  ASSUME TypeInv, NEW u \in Users, NEW entry \in TokenLog, NEW n
  PROVE  /\ n = Len(tokenLogs[u])
         /\ DOMAIN tokenLogs'[u] = 1..(n + 1)
         /\ \A i \in 1..n : tokenLogs'[u][i] = tokenLogs[u][i]
         /\ tokenLogs'[u][n + 1] = entry
         => /\ ResetSum(u) \in Int
            /\ ResetSum(u)' =
                 ResetSum(u) + (IF entry.type = "RESET" THEN entry.delta ELSE 0)
<1>0. SUFFICES ASSUME n = Len(tokenLogs[u]),
                      DOMAIN tokenLogs'[u] = 1..(n + 1),
                      \A i \in 1..n : tokenLogs'[u][i] = tokenLogs[u][i],
                      tokenLogs'[u][n + 1] = entry
               PROVE  /\ ResetSum(u) \in Int
                      /\ ResetSum(u)' = ResetSum(u)
                           + (IF entry.type = "RESET" THEN entry.delta ELSE 0)
  OBVIOUS
<1> DEFINE S == {i \in 1..n : tokenLogs[u][i].type = "RESET"}
           T == {i \in 1..(n + 1) : tokenLogs'[u][i].type = "RESET"}
           x == n + 1
           f == [i \in S |-> tokenLogs[u][i].delta]
           g == [i \in T |-> tokenLogs'[u][i].delta]
           b == IF entry.type = "RESET" THEN entry.delta ELSE 0
<1>1. n \in Nat /\ DOMAIN tokenLogs[u] = 1..n
  <2>1. tokenLogs[u] \in Seq(TokenLog)
    BY DEF TypeInv, EconomyTypeOK, DatabaseTypeOK
  <2> QED
    BY <1>0, <2>1
<1>2. S = ResetsOf(u) /\ SumFunction(f) = ResetSum(u) /\ SumFunction(g) = ResetSum(u)'
  BY <1>0, <1>1 DEF ResetSum, ResetsOf
<1>3. /\ n + 1 \notin 1..n /\ n + 1 \in 1..(n + 1)
      /\ \A i \in 1..(n + 1) : i = n + 1 \/ i \in 1..n
      /\ 1..n \subseteq 1..(n + 1)
  BY <1>1
<1>4. S \ {x} = T \ {x} /\ x \notin S /\ \A i \in S \ {x} : g[i] = f[i]
  BY <1>0, <1>3
<1>5. IsFiniteSet(S)
  BY <1>2, ResetsFinite
<1>6. \A i \in S : tokenLogs[u][i].delta \in Int
  BY <1>2, ResetsFinite
<1>7. entry.delta \in Int
  BY DEF TokenLog
<1>8. DOMAIN f = S /\ DOMAIN g = T /\ (\A i \in S : f[i] \in Int) /\ \A i \in T : g[i] \in Int
  BY <1>0, <1>3, <1>6, <1>7
<1>9. 0 = (IF x \in S THEN f[x] ELSE 0) /\ b = IF x \in T THEN g[x] ELSE 0
  BY <1>0, <1>3, <1>4
<1> HIDE DEF S, T, f, g, b, x
<1>10. /\ SumFunction(f) \in Int
       /\ SumFunction(g) = SumFunction(f) - 0 + b
  BY <1>4, <1>5, <1>8, <1>9, SumMoves
<1>11. b \in Int
  BY <1>7 DEF b
<1> QED
  BY <1>2, <1>10, <1>11 DEF b

-----------------------------------------------------------------------------
\* What user u holds is what the books say.
UserBalances(u) ==
  tokenBalance[u] = InitialBalance[u] + GrantSum(u) - OrderSum(u) + ResetSum(u)

\* The inductive invariant: there are finitely many orders and grants, however
\* many keys and events there are, and every user's books balance.
BooksKept ==
  /\ IsFiniteSet(Placed)
  /\ \A u \in Users : IsFiniteSet(EventsGrantedTo(u)) /\ UserBalances(u)

\* The terms of the books are integers.
LEMMA SumsTyped ==
  ASSUME TypeInv, BooksKept, NEW u \in Users
  PROVE  /\ GrantSum(u) \in Int /\ OrderSum(u) \in Int /\ ResetSum(u) \in Int
         /\ InitialBalance[u] \in Int /\ tokenBalance[u] \in Int
         /\ IsFiniteSet(LiveOrdersOf(u)) /\ IsFiniteSet(EventsGrantedTo(u))
         /\ tokenBalance[u] = InitialBalance[u] + GrantSum(u) - OrderSum(u) + ResetSum(u)
<1> DEFINE f == [e \in EventsGrantedTo(u) |-> tokenGrants[e][u].amount]
           g == [k \in LiveOrdersOf(u) |-> orders[k].total]
           h == [i \in ResetsOf(u) |-> tokenLogs[u][i].delta]
<1>1. /\ IsFiniteSet(EventsGrantedTo(u)) /\ IsFiniteSet(Placed)
      /\ UserBalances(u)
  BY DEF BooksKept
<1>2. IsFiniteSet(LiveOrdersOf(u))
  <2>1. LiveOrdersOf(u) \subseteq Placed
    BY DEF LiveOrdersOf, Placed
  <2> QED
    BY <1>1, <2>1, FS_Subset
<1>3. \A e \in EventsGrantedTo(u) : tokenGrants[e][u].amount \in Int
  <2>1. tokenGrants \in [Events -> [Users -> TokenGrant \cup {NoRow}]]
    BY DEF TypeInv, EconomyTypeOK, TokenEventsTypeOK
  <2>2. \A x \in TokenGrant : x.amount \in Int
    BY TokenEventsAssumption DEF TokenGrant
  <2> QED
    BY <2>1, <2>2 DEF EventsGrantedTo
<1>4. \A k \in LiveOrdersOf(u) : orders[k].total \in Int
  <2>1. orders \in [Keys -> Order \cup {NoOrder}]
    BY DEF TypeInv, EconomyTypeOK, OrdersTypeOK
  <2>2. \A x \in Order : x.total \in Int
    BY TokenDatabaseAssumption DEF Order
  <2> QED
    BY <2>1, <2>2 DEF LiveOrdersOf
<1>5. IsFiniteSet(DOMAIN f) /\ \A x \in DOMAIN f : f[x] \in Int
  BY <1>1, <1>3
<1>6. IsFiniteSet(DOMAIN g) /\ \A x \in DOMAIN g : g[x] \in Int
  BY <1>2, <1>4
<1>7. IsFiniteSet(DOMAIN h) /\ \A x \in DOMAIN h : h[x] \in Int
  BY ResetsFinite
<1> HIDE DEF f, g, h
<1>8. SumFunction(f) \in Int /\ SumFunction(g) \in Int /\ SumFunction(h) \in Int
  BY <1>5, <1>6, <1>7, SumInteger
<1>9. InitialBalance[u] \in Int /\ tokenBalance[u] \in Int
  BY TokenDatabaseAssumption DEF TypeInv, EconomyTypeOK, DatabaseTypeOK
<1> QED
  BY <1>1, <1>2, <1>8, <1>9 DEF GrantSum, OrderSum, ResetSum, UserBalances, f, g, h

\* An entry in a ledger counts among the resets only if it is one.
LEMMA EntryResets ==
  ASSUME TypeInv, NEW u \in Users, NEW entry \in TokenLog,
         tokenLogs'[u] = Append(tokenLogs[u], entry)
  PROVE  ResetSum(u)' = ResetSum(u) + (IF entry.type = "RESET" THEN entry.delta ELSE 0)
<1> DEFINE n == Len(tokenLogs[u])
<1>1. /\ n = Len(tokenLogs[u])
      /\ DOMAIN tokenLogs'[u] = 1..(n + 1)
      /\ \A i \in 1..n : tokenLogs'[u][i] = tokenLogs[u][i]
      /\ tokenLogs'[u][n + 1] = entry
  BY GrownLedger
<1> HIDE DEF n
<1> QED
  BY <1>1, ResetSumMoves

\* A step that writes no reset to the ledger of u.
ResetsNothingOf(u) ==
  \/ tokenLogs'[u] = tokenLogs[u]
  \/ \E entry \in TokenLog :
       entry.type # "RESET" /\ tokenLogs'[u] = Append(tokenLogs[u], entry)

\* Such a step leaves the sum of the resets alone.
LEMMA ResetSumKept ==
  ASSUME TypeInv, BooksKept, NEW u \in Users, ResetsNothingOf(u)
  PROVE  ResetSum(u)' = ResetSum(u)
<1>1. ResetSum(u) \in Int
  BY SumsTyped
<1>2. CASE tokenLogs'[u] = tokenLogs[u]
  BY <1>2 DEF ResetSum, ResetsOf
<1>3. ASSUME NEW entry \in TokenLog, entry.type # "RESET",
             tokenLogs'[u] = Append(tokenLogs[u], entry)
      PROVE  ResetSum(u)' = ResetSum(u)
  <2>1. ResetSum(u)' = ResetSum(u) + 0
    BY <1>3, EntryResets
  <2> QED
    BY <1>1, <2>1
<1> QED
  BY <1>2, <1>3 DEF ResetsNothingOf

\* An entry of an order, written for one user, resets nobody.
LEMMA OrderResetsNothing ==
  ASSUME TypeInv, NEW v \in Users, NEW entry \in TokenLog, entry.type # "RESET",
         tokenLogs' = [tokenLogs EXCEPT ![v] = Append(@, entry)], NEW u \in Users
  PROVE  ResetsNothingOf(u)
<1>1. DOMAIN tokenLogs = Users
  BY DEF TypeInv, EconomyTypeOK, DatabaseTypeOK
<1>2. tokenLogs'[u] = IF u = v THEN Append(tokenLogs[u], entry) ELSE tokenLogs[u]
  BY <1>1
<1> QED
  BY <1>2 DEF ResetsNothingOf

\* What placing an order writes, seen from its key.
LEMMA OrderPlaced ==
  ASSUME TypeInv, NEW r \in Slots, PlaceOrder(r)
  PROVE  LET c == call[r]
         IN  /\ c.key \in Keys /\ c.user \in Users /\ c.product \in Products
             /\ orders[c.key] = NoOrder /\ orders'[c.key] = NewOrder(c)
             /\ NewOrder(c) \in Order /\ NewOrder(c) # NoOrder
             /\ NewOrder(c).user = c.user /\ NewOrder(c).product = c.product
             /\ NewOrder(c).quantity = c.quantity
             /\ NewOrder(c).status = "ORDERED"
             /\ NewOrder(c).total \in Int /\ c.quantity \in Int
             /\ \A j \in Keys \ {c.key} : orders'[j] = orders[j]
             /\ \A u \in Users : tokenBalance'[u] =
                  IF u = c.user THEN tokenBalance[u] - NewOrder(c).total
                  ELSE tokenBalance[u]
<1> DEFINE c == call[r]
<1>1. /\ c \in PurchaseCalls /\ PurchaseRefusal(c) = "none"
      /\ orders[c.key] = NoOrder
      /\ orders' = [orders EXCEPT ![c.key] = NewOrder(c)]
      /\ tokenBalance' = [tokenBalance EXCEPT
                            ![c.user] = @ - products[c.product].price * c.quantity]
  BY DEF PlaceOrder, KeyIsFree
<1>2. c \in PurchaseCall /\ NewOrder(c) \in Order
  BY <1>1, AcceptedPurchase
<1>3. /\ NewOrder(c).user = c.user /\ NewOrder(c).product = c.product
      /\ NewOrder(c).quantity = c.quantity
      /\ NewOrder(c).total = products[c.product].price * c.quantity
      /\ NewOrder(c).status = "ORDERED"
  BY DEF NewOrder
<1>4. /\ orders \in [Keys -> Order \cup {NoOrder}]
      /\ tokenBalance \in [Users -> 0..MaxInt]
  BY DEF TypeInv, EconomyTypeOK, OrdersTypeOK, DatabaseTypeOK
<1>5. c.key \in Keys /\ c.user \in Users /\ c.product \in Products
      /\ c.quantity \in Quantities
  BY <1>2 DEF PurchaseCall
<1>6. c.quantity \in Int
  <2>1. \A y \in Quantities : y \in Int
    BY OrdersAssumption
  <2> HIDE DEF c
  <2> QED
    BY <1>5, <2>1
<1>7. NewOrder(c).total \in Int
  BY <1>2, TokenDatabaseAssumption DEF Order
<1>8. NewOrder(c) # NoOrder
  BY <1>2, OrdersAssumption
<1> DEFINE new == NewOrder(c)
<1> HIDE DEF c, new
<1>9. orders' = [orders EXCEPT ![c.key] = new]
  BY <1>1 DEF new
<1>10. orders'[c.key] = new /\ \A j \in Keys \ {c.key} : orders'[j] = orders[j]
  BY <1>4, <1>5, <1>9
<1>11. \A u \in Users : tokenBalance'[u] =
         IF u = c.user THEN tokenBalance[u] - products[c.product].price * c.quantity
         ELSE tokenBalance[u]
  BY <1>1, <1>4
<1> QED
  BY <1>1, <1>2, <1>3, <1>5, <1>6, <1>7, <1>8, <1>10, <1>11 DEF c, new

\* Finitely many orders stay finitely many.
LEMMA PlacedFinite ==
  ASSUME TypeInv, IsFiniteSet(Placed), [EconomyNext]_economyVars
  PROVE  IsFiniteSet(Placed)'
<1>1. ASSUME NEW r \in Slots, PlaceOrder(r)
      PROVE  IsFiniteSet(Placed)'
  <2> PICK k \in Keys : k = call[r].key
    BY <1>1, OrderPlaced
  <2>1. \A j \in Keys \ {k} : orders'[j] = orders[j]
    BY <1>1, OrderPlaced
  <2>2. Placed' \subseteq Placed \cup {k}
    BY <2>1 DEF Placed
  <2>3. IsFiniteSet(Placed \cup {k})
    BY FS_AddElement
  <2> QED
    BY <2>2, <2>3, FS_Subset
<1>2. ASSUME NEW r \in Slots, AdvanceOrder(r) \/ CancelOrder(r)
      PROVE  IsFiniteSet(Placed)'
  <2>1. Placed' = Placed
    BY <1>2, StatusChangeKeepsTerms DEF Placed
  <2> QED
    BY <2>1
<1>3. orders' = orders => IsFiniteSet(Placed)'
  BY DEF Placed
<1> QED
  BY <1>1, <1>2, <1>3, BooksStep

\* Placing an order takes from its buyer what it costs.
LEMMA PlaceKeepsBooks ==
  ASSUME TypeInv, TypeInv', BooksKept, NEW r \in Slots, PlaceOrder(r),
         tokenGrants' = tokenGrants, NEW u \in Users
  PROVE  UserBalances(u)' /\ EventsGrantedTo(u)' = EventsGrantedTo(u)
<1> PICK k \in Keys : k = call[r].key
  BY OrderPlaced
<1> DEFINE c == call[r]
           total == NewOrder(c).total
<1>1. /\ orders[k] = NoOrder /\ orders'[k] # NoOrder
      /\ orders'[k].user = c.user /\ orders'[k].total = total
      /\ orders'[k].status = "ORDERED" /\ total \in Int
      /\ \A j \in Keys \ {k} : orders'[j] = orders[j]
      /\ tokenBalance'[u] = IF u = c.user THEN tokenBalance[u] - total
                            ELSE tokenBalance[u]
  BY OrderPlaced
<1>2. ResetsNothingOf(u)
  BY PlaceOrderMoves, OrderResetsNothing DEF IsPaymentOf
<1>3. /\ GrantSum(u)' = GrantSum(u) /\ EventsGrantedTo(u)' = EventsGrantedTo(u)
      /\ InitialBalance' = InitialBalance
  BY DEF GrantSum, EventsGrantedTo
<1>4. ResetSum(u)' = ResetSum(u)
  BY <1>2, ResetSumKept
<1>5. /\ GrantSum(u) \in Int /\ OrderSum(u) \in Int /\ ResetSum(u) \in Int
      /\ InitialBalance[u] \in Int /\ tokenBalance[u] \in Int
      /\ IsFiniteSet(LiveOrdersOf(u))
      /\ tokenBalance[u] = InitialBalance[u] + GrantSum(u) - OrderSum(u) + ResetSum(u)
  BY SumsTyped
<1>6. OrderSum(u)' = OrderSum(u) - Cost(k, u) + Cost(k, u)'
  BY <1>1, <1>5, OrderSumMoves
<1>7. Cost(k, u) = 0 /\ Cost(k, u)' = IF u = c.user THEN total ELSE 0
  BY <1>1 DEF Cost
<1>8. tokenBalance'[u] = InitialBalance[u] + GrantSum(u)' - OrderSum(u)' + ResetSum(u)'
  <2> HIDE DEF c, total
  <2> QED
    BY <1>1, <1>3, <1>4, <1>5, <1>6, <1>7
<1> QED
  BY <1>3, <1>8 DEF UserBalances

\* Accepting or delivering an order moves nothing, and cancelling it gives its
\* owner back what it cost.
LEMMA StatusKeepsBooks ==
  ASSUME TypeInv, TypeInv', BooksKept, NEW r \in Slots,
         AdvanceOrder(r) \/ CancelOrder(r),
         tokenGrants' = tokenGrants, NEW u \in Users
  PROVE  UserBalances(u)' /\ EventsGrantedTo(u)' = EventsGrantedTo(u)
<1> DEFINE c == call[r]
<1> PICK k \in Keys : k = call[r].order
  BY StatusChange
<1> DEFINE owner == orders[k].user
           total == orders[k].total
           back == IF u = owner /\ IsCanceled(k)' THEN total ELSE 0
<1>1. /\ orders[k] # NoOrder /\ orders'[k] # NoOrder
      /\ orders'[k].user = owner /\ orders'[k].total = total
      /\ \A j \in Keys \ {k} : orders'[j] = orders[j]
      /\ ~IsCanceled(k)
  BY StatusChange, StatusChangeKeepsTerms, StatusChangeCancels
<1>2. total \in Int
  BY <1>1, TokenDatabaseAssumption DEF TypeInv, EconomyTypeOK, OrdersTypeOK, Order
<1>3. tokenBalance'[u] = tokenBalance[u] + back
  <2>0. tokenBalance \in [Users -> 0..MaxInt] /\ tokenBalance[u] \in Int
    BY SumsTyped DEF TypeInv, EconomyTypeOK, DatabaseTypeOK
  <2>1. CASE CancelOrder(r)
    <3>1. IsCanceled(k)'
      BY <2>1, StatusChangeCancels
    <3>2. tokenBalance' = [tokenBalance EXCEPT ![owner] = tokenBalance[owner] + total]
      BY <2>1 DEF CancelOrder
    <3> QED
      BY <2>0, <3>1, <3>2
  <2>2. CASE AdvanceOrder(r)
    <3>1. ~IsCanceled(k)'
      <4>1. c.target # "CANCELED" /\ orders'[k] = UpdatedOrder(c)
            /\ orders[k] \in Order
        BY <2>2, StatusChange DEF AdvanceOrder
      <4>2. orders'[k].status = c.target
        BY <4>1 DEF UpdatedOrder, Order
      <4> QED
        BY <4>1, <4>2 DEF IsCanceled
    <3>2. tokenBalance' = tokenBalance
      BY <2>2 DEF AdvanceOrder, ledgerVars
    <3> QED
      BY <2>0, <3>1, <3>2
  <2> QED
    BY <2>1, <2>2
<1>4. ResetsNothingOf(u)
  <2>1. CASE CancelOrder(r)
    BY <2>1, CancelOrderMoves, OrderResetsNothing DEF IsRefundOf
  <2>2. CASE AdvanceOrder(r)
    BY <2>2 DEF AdvanceOrder, ledgerVars, ResetsNothingOf
  <2> QED
    BY <2>1, <2>2
<1>5. /\ GrantSum(u)' = GrantSum(u) /\ EventsGrantedTo(u)' = EventsGrantedTo(u)
      /\ InitialBalance' = InitialBalance
  BY DEF GrantSum, EventsGrantedTo
<1>6. ResetSum(u)' = ResetSum(u)
  BY <1>4, ResetSumKept
<1>7. /\ GrantSum(u) \in Int /\ OrderSum(u) \in Int /\ ResetSum(u) \in Int
      /\ InitialBalance[u] \in Int /\ tokenBalance[u] \in Int
      /\ IsFiniteSet(LiveOrdersOf(u))
      /\ tokenBalance[u] = InitialBalance[u] + GrantSum(u) - OrderSum(u) + ResetSum(u)
  BY SumsTyped
<1>8. OrderSum(u)' = OrderSum(u) - Cost(k, u) + Cost(k, u)'
  BY <1>1, <1>7, OrderSumMoves
<1>9. /\ Cost(k, u) = IF u = owner THEN total ELSE 0
      /\ Cost(k, u)' = IF u = owner /\ ~IsCanceled(k)' THEN total ELSE 0
  BY <1>1 DEF Cost, IsCanceled
<1>10. back \in Int /\ Cost(k, u)' = Cost(k, u) - back /\ Cost(k, u) \in Int
  BY <1>2, <1>9
<1>11. tokenBalance'[u] = InitialBalance[u] + GrantSum(u)' - OrderSum(u)' + ResetSum(u)'
  <2> HIDE DEF c, total, owner, back
  <2> QED
    BY <1>3, <1>5, <1>6, <1>7, <1>8, <1>10
<1> QED
  BY <1>5, <1>11 DEF UserBalances

-----------------------------------------------------------------------------
\* A batch of grants moves a balance by what it moves the grant.
LEMMA GrantsKeepBooks ==
  ASSUME TypeInv, TypeInv', BooksKept, NEW r \in Slots, SaveGrants(r),
         orders' = orders, NEW u \in Users
  PROVE  UserBalances(u)' /\ IsFiniteSet(EventsGrantedTo(u)')
<1> DEFINE c == call[r]
           delta == IF u \in Moved(c) THEN DeltaAmount(c, u) ELSE 0
<1>1. c \in GrantCalls /\ c.event \in Events
  BY TokenEventsAssumption DEF SaveGrants, GrantCall
<1> PICK e \in Events : e = c.event
  BY <1>1
<1>2. /\ GrantedAmount(e, u) \in Int
      /\ GrantedAmount(e, u)' = IF u \in Moved(c)
                                THEN GrantedAmount(e, u) + DeltaAmount(c, u)
                                ELSE GrantedAmount(e, u)
      /\ u \in Moved(c) =>
           /\ GrantLog(c, u) \in TokenLog /\ DeltaAmount(c, u) \in Int
           /\ tokenLogs'[u] = Append(tokenLogs[u], GrantLog(c, u))
      /\ u \notin Moved(c) => tokenLogs'[u] = tokenLogs[u]
  BY GrantSaved
<1>3. \A d \in Events \ {e} : tokenGrants'[d][u] = tokenGrants[d][u]
  <2>1. DOMAIN tokenGrants = Events
    BY DEF TypeInv, EconomyTypeOK, TokenEventsTypeOK
  <2>2. tokenGrants' = [tokenGrants EXCEPT ![e] =
          [x \in Users |-> IF x \in {y \in DOMAIN c.grants : PlanStatus(c, y) # "UNCHANGED"}
                           THEN c.grants[x] ELSE tokenGrants[e][x]]]
    BY DEF SaveGrants
  <2> QED
    BY <2>1, <2>2
<1>4. tokenBalance'[u] = IF u \in Moved(c) THEN tokenBalance[u] + DeltaAmount(c, u)
                         ELSE tokenBalance[u]
  BY DEF SaveGrants
<1>5. ResetsNothingOf(u)
  <2>1. GrantLog(c, u).type # "RESET"
    BY DEF GrantLog
  <2> QED
    BY <1>2, <2>1 DEF ResetsNothingOf
<1>6. OrderSum(u)' = OrderSum(u) /\ InitialBalance' = InitialBalance
  BY DEF OrderSum, LiveOrdersOf
<1>7. ResetSum(u)' = ResetSum(u)
  BY <1>5, ResetSumKept
<1>8. /\ GrantSum(u) \in Int /\ OrderSum(u) \in Int /\ ResetSum(u) \in Int
      /\ InitialBalance[u] \in Int /\ tokenBalance[u] \in Int
      /\ IsFiniteSet(EventsGrantedTo(u))
      /\ tokenBalance[u] = InitialBalance[u] + GrantSum(u) - OrderSum(u) + ResetSum(u)
  BY SumsTyped
<1>9. /\ IsFiniteSet(EventsGrantedTo(u)')
      /\ GrantSum(u)' = GrantSum(u) - GrantedAmount(e, u) + GrantedAmount(e, u)'
  BY <1>3, <1>8, GrantSumMoves
<1> HIDE DEF c
<1>10. /\ delta \in Int
       /\ GrantedAmount(e, u)' = GrantedAmount(e, u) + delta
       /\ tokenBalance'[u] = tokenBalance[u] + delta
  BY <1>2, <1>4, <1>8
<1> HIDE DEF delta
<1>11. tokenBalance'[u] = InitialBalance[u] + GrantSum(u)' - OrderSum(u)' + ResetSum(u)'
  BY <1>2, <1>6, <1>7, <1>8, <1>9, <1>10
<1> QED
  BY <1>6, <1>9, <1>11 DEF UserBalances

\* A reset takes what a student has and books it.
LEMMA ResetKeepsBooks ==
  ASSUME TypeInv, BooksKept, NEW r \in Slots, ResetTokenBalances(r),
         orders' = orders, tokenGrants' = tokenGrants, NEW u \in Users
  PROVE  UserBalances(u)' /\ EventsGrantedTo(u)' = EventsGrantedTo(u)
<1>1. /\ tokenBalance'[u] = IF u \in ResetTargets THEN 0 ELSE tokenBalance[u]
      /\ tokenLogs'[u] = IF u \in ResetTargets THEN Append(tokenLogs[u], ResetLog(u))
                         ELSE tokenLogs[u]
  BY DEF ResetTokenBalances
<1>2. OrderSum(u)' = OrderSum(u) /\ InitialBalance' = InitialBalance
  BY DEF OrderSum, LiveOrdersOf
<1>3. GrantSum(u)' = GrantSum(u) /\ EventsGrantedTo(u)' = EventsGrantedTo(u)
  BY DEF GrantSum, EventsGrantedTo
<1>4. /\ GrantSum(u) \in Int /\ OrderSum(u) \in Int /\ ResetSum(u) \in Int
      /\ InitialBalance[u] \in Int /\ tokenBalance[u] \in Int
      /\ tokenBalance[u] = InitialBalance[u] + GrantSum(u) - OrderSum(u) + ResetSum(u)
  BY SumsTyped
<1>5. CASE u \in ResetTargets
  <2>1. ResetLog(u) \in TokenLog
    <3>1. tokenBalance[u] \in 0..MaxInt /\ MaxInt \in Nat
      BY TokenDatabaseAssumption DEF TypeInv, EconomyTypeOK, DatabaseTypeOK
    <3> QED
      BY <3>1 DEF ResetLog, TokenLog, TransactionTypes, Sources
  <2>2. ResetLog(u).type = "RESET" /\ ResetLog(u).delta = -tokenBalance[u]
    BY DEF ResetLog
  <2>3. ResetSum(u)' = ResetSum(u) + (-tokenBalance[u])
    BY <1>1, <1>5, <2>1, <2>2, EntryResets
  <2>4. tokenBalance'[u] = InitialBalance[u] + GrantSum(u)' - OrderSum(u)' + ResetSum(u)'
    BY <1>1, <1>2, <1>3, <1>4, <1>5, <2>3
  <2> QED
    BY <1>2, <1>3, <2>4 DEF UserBalances
<1>6. CASE u \notin ResetTargets
  <2>1. ResetSum(u)' = ResetSum(u)
    BY <1>1, <1>6, ResetSumKept DEF ResetsNothingOf
  <2> QED
    BY <1>1, <1>2, <1>3, <1>4, <1>6, <2>1 DEF UserBalances
<1> QED
  BY <1>5, <1>6

\* Every step of the shop keeps every user's books.
LEMMA BooksKeptStep ==
  ASSUME TypeInv, BooksKept, [EconomyNext]_economyVars
  PROVE  BooksKept'
<1>1. TypeInv'
  BY TypeNext
<1>2. IsFiniteSet(Placed)'
  BY PlacedFinite DEF BooksKept
<1>3. ASSUME NEW u \in Users
      PROVE  IsFiniteSet(EventsGrantedTo(u)') /\ UserBalances(u)'
  <2>1. IsFiniteSet(EventsGrantedTo(u)) /\ UserBalances(u)
    BY DEF BooksKept
  <2>2. ASSUME NEW r \in Slots, PlaceOrder(r), tokenGrants' = tokenGrants
        PROVE  IsFiniteSet(EventsGrantedTo(u)') /\ UserBalances(u)'
    BY <1>1, <2>1, <2>2, PlaceKeepsBooks
  <2>3. ASSUME NEW r \in Slots, AdvanceOrder(r) \/ CancelOrder(r),
               tokenGrants' = tokenGrants
        PROVE  IsFiniteSet(EventsGrantedTo(u)') /\ UserBalances(u)'
    BY <1>1, <2>1, <2>3, StatusKeepsBooks
  <2>4. ASSUME NEW r \in Slots, SaveGrants(r), orders' = orders
        PROVE  IsFiniteSet(EventsGrantedTo(u)') /\ UserBalances(u)'
    BY <1>1, <2>4, GrantsKeepBooks
  <2>5. ASSUME NEW r \in Slots, ResetTokenBalances(r),
               orders' = orders, tokenGrants' = tokenGrants
        PROVE  IsFiniteSet(EventsGrantedTo(u)') /\ UserBalances(u)'
    BY <2>1, <2>5, ResetKeepsBooks
  <2>6. ASSUME UNCHANGED <<orders, tokenGrants, ledgerVars>>
        PROVE  IsFiniteSet(EventsGrantedTo(u)') /\ UserBalances(u)'
    BY <2>1, <2>6 DEF EventsGrantedTo, UserBalances, GrantSum, OrderSum, ResetSum,
                      LiveOrdersOf, ResetsOf, ledgerVars
  <2> QED
    BY <2>2, <2>3, <2>4, <2>5, <2>6, BooksStep
<1> QED
  BY <1>2, <1>3 DEF BooksKept

\* What a student holds is what the events grant, less what live orders cost,
\* less what resets took, for any numbers of students, orders and events.
THEOREM BooksAlwaysBalance == EconomySpec => []BooksBalance
<1>1. EconomyInit => BooksKept
  <2> SUFFICES ASSUME EconomyInit PROVE BooksKept
    OBVIOUS
  <2>1. Placed = {}
    BY DEF EconomyInit, OrdersInit, Placed
  <2>2. ASSUME NEW u \in Users
        PROVE  IsFiniteSet(EventsGrantedTo(u)) /\ UserBalances(u)
    <3> DEFINE f == [e \in EventsGrantedTo(u) |-> tokenGrants[e][u].amount]
               g == [k \in LiveOrdersOf(u) |-> orders[k].total]
               h == [i \in ResetsOf(u) |-> tokenLogs[u][i].delta]
    <3>1. EventsGrantedTo(u) = {}
      BY DEF EconomyInit, TokenEventsInit, EventsGrantedTo
    <3>2. LiveOrdersOf(u) = {}
      BY DEF EconomyInit, OrdersInit, LiveOrdersOf
    <3>3. ResetsOf(u) = {}
      <4>1. tokenLogs[u] = InitialLogs(u)
        BY DEF EconomyInit, DatabaseInit
      <4>2. \A i \in DOMAIN InitialLogs(u) : InitialLogs(u)[i].type # "RESET"
        BY DEF InitialLogs
      <4> QED
        BY <4>1, <4>2 DEF ResetsOf
    <3>4. DOMAIN f = {} /\ DOMAIN g = {} /\ DOMAIN h = {}
      BY <3>1, <3>2, <3>3
    <3> HIDE DEF f, g, h
    <3>5. SumFunction(f) = 0 /\ SumFunction(g) = 0 /\ SumFunction(h) = 0
      BY <3>4, SumOfNothing
    <3>6. GrantSum(u) = 0 /\ OrderSum(u) = 0 /\ ResetSum(u) = 0
      BY <3>5 DEF GrantSum, OrderSum, ResetSum, f, g, h
    <3>7. tokenBalance[u] = InitialBalance[u] /\ InitialBalance[u] \in Int
      BY TokenDatabaseAssumption DEF EconomyInit, DatabaseInit
    <3>8. UserBalances(u)
      BY <3>6, <3>7 DEF UserBalances
    <3> QED
      BY <3>1, <3>8, FS_EmptySet
  <2> QED
    BY <2>1, <2>2, FS_EmptySet DEF BooksKept
<1>2. TypeInv /\ BooksKept /\ [EconomyNext]_economyVars => BooksKept'
  BY BooksKeptStep
<1>3. BooksKept => BooksBalance
  BY DEF BooksKept, UserBalances, BooksBalance, GrantSum, OrderSum, ResetSum
<1> QED
  BY <1>1, <1>2, <1>3, TypeCorrect, PTL DEF EconomySpec

-----------------------------------------------------------------------------
(* Stock *)

\* A step in which an administrator sets the stock of product p.
StockEdited(p) ==
  \E r \in Slots :
    UpdateProduct(r) /\ call[r].product = p /\ call[r].stock # Keep

\* The stock of p and what live orders hold of it.
StockAndHeld(p) == products[p].stock + HeldSum(p)

\* The units held are an integer, and so is the stock.
LEMMA StockTyped ==
  ASSUME TypeInv, IsFiniteSet(Placed), NEW p \in Products
  PROVE  /\ IsFiniteSet(LiveOrdersFor(p)) /\ HeldSum(p) \in Int
         /\ products[p] # NoRow => products[p].stock \in Int
<1> DEFINE f == [k \in LiveOrdersFor(p) |-> orders[k].quantity]
<1>1. IsFiniteSet(LiveOrdersFor(p))
  <2>1. LiveOrdersFor(p) \subseteq Placed
    BY DEF LiveOrdersFor, Placed
  <2> QED
    BY <2>1, FS_Subset
<1>2. \A k \in LiveOrdersFor(p) : orders[k].quantity \in Int
  <2>1. orders \in [Keys -> Order \cup {NoOrder}]
    BY DEF TypeInv, EconomyTypeOK, OrdersTypeOK
  <2>2. \A x \in Order : x.quantity \in Quantities
    BY DEF Order
  <2>3. \A y \in Quantities : y \in Int
    BY OrdersAssumption
  <2> QED
    BY <2>1, <2>2, <2>3 DEF LiveOrdersFor
<1>3. IsFiniteSet(DOMAIN f) /\ \A x \in DOMAIN f : f[x] \in Int
  BY <1>1, <1>2
<1> HIDE DEF f
<1>4. SumFunction(f) \in Int
  BY <1>3, SumInteger
<1>5. products[p] # NoRow => products[p].stock \in Int
  BY ProductRow, TokenDatabaseAssumption DEF Product
<1> QED
  BY <1>1, <1>4, <1>5 DEF HeldSum, f

\* Placing an order moves units from the stock to the order.
LEMMA PlaceKeepsStock ==
  ASSUME TypeInv, TypeInv', IsFiniteSet(Placed), NEW r \in Slots, PlaceOrder(r),
         NEW p \in Products, products[p] # NoRow
  PROVE  StockAndHeld(p)' = StockAndHeld(p)
<1> PICK k \in Keys : k = call[r].key
  BY OrderPlaced
<1> DEFINE c == call[r]
<1>1. /\ orders[k] = NoOrder /\ orders'[k] # NoOrder
      /\ orders'[k].product = c.product /\ orders'[k].quantity = c.quantity
      /\ orders'[k].status = "ORDERED" /\ c.quantity \in Int
      /\ \A j \in Keys \ {k} : orders'[j] = orders[j]
  BY OrderPlaced
<1>2. products'[p].stock = IF p = c.product THEN products[p].stock - c.quantity
                           ELSE products[p].stock
  <2>1. products' = [products EXCEPT ![c.product].stock =
                       products[c.product].stock - c.quantity]
    BY DEF PlaceOrder
  <2>2. products[p] \in Product /\ DOMAIN products = Products
    BY ProductRow DEF TypeInv, EconomyTypeOK, DatabaseTypeOK
  <2> QED
    BY <2>1, <2>2 DEF Product
<1>3. /\ IsFiniteSet(LiveOrdersFor(p)) /\ HeldSum(p) \in Int
      /\ products[p].stock \in Int
  BY StockTyped
<1>4. HeldSum(p)' = HeldSum(p) - Held(k, p) + Held(k, p)'
  BY <1>1, <1>3, HeldSumMoves
<1>5. Held(k, p) = 0 /\ Held(k, p)' = IF p = c.product THEN c.quantity ELSE 0
  BY <1>1 DEF Held
<1>6. products'[p].stock + HeldSum(p)' = products[p].stock + HeldSum(p)
  <2> HIDE DEF c
  <2> QED
    BY <1>1, <1>2, <1>3, <1>4, <1>5
<1> QED
  BY <1>6 DEF StockAndHeld

\* Accepting or delivering an order moves no units, and cancelling it moves
\* them back.
LEMMA StatusKeepsStock ==
  ASSUME TypeInv, TypeInv', IsFiniteSet(Placed), NEW r \in Slots,
         AdvanceOrder(r) \/ CancelOrder(r),
         NEW p \in Products, products[p] # NoRow
  PROVE  StockAndHeld(p)' = StockAndHeld(p)
<1> DEFINE c == call[r]
<1> PICK k \in Keys : k = call[r].order
  BY StatusChange
<1> DEFINE bought == orders[k].product
           quantity == orders[k].quantity
           back == IF p = bought /\ IsCanceled(k)' THEN quantity ELSE 0
<1>1. /\ orders[k] # NoOrder /\ orders'[k] # NoOrder
      /\ orders'[k].product = bought /\ orders'[k].quantity = quantity
      /\ \A j \in Keys \ {k} : orders'[j] = orders[j]
      /\ ~IsCanceled(k)
  BY StatusChange, StatusChangeKeepsTerms, StatusChangeCancels
<1>2. quantity \in Int
  <2>1. orders[k] \in Order
    BY <1>1 DEF TypeInv, EconomyTypeOK, OrdersTypeOK
  <2>2. quantity \in Quantities
    BY <2>1 DEF Order
  <2>3. \A y \in Quantities : y \in Int
    BY OrdersAssumption
  <2> QED
    BY <2>2, <2>3
<1>3. /\ IsFiniteSet(LiveOrdersFor(p)) /\ HeldSum(p) \in Int
      /\ products[p].stock \in Int
  BY StockTyped
<1>4. products'[p].stock = products[p].stock + back
  <2>0. products[p] \in Product /\ DOMAIN products = Products
    BY ProductRow DEF TypeInv, EconomyTypeOK, DatabaseTypeOK
  <2>1. CASE CancelOrder(r)
    <3>1. IsCanceled(k)'
      BY <2>1, StatusChangeCancels
    <3>2. products' = [products EXCEPT ![bought].stock =
                         products[bought].stock + quantity]
      BY <2>1 DEF CancelOrder, RestoredStock
    <3> QED
      BY <1>3, <2>0, <3>1, <3>2 DEF Product
  <2>2. CASE AdvanceOrder(r)
    <3>1. ~IsCanceled(k)'
      <4>1. c.target # "CANCELED" /\ orders'[k] = UpdatedOrder(c)
            /\ orders[k] \in Order
        BY <2>2, StatusChange DEF AdvanceOrder
      <4>2. orders'[k].status = c.target
        BY <4>1 DEF UpdatedOrder, Order
      <4> QED
        BY <4>1, <4>2 DEF IsCanceled
    <3>2. products' = products
      BY <2>2 DEF AdvanceOrder
    <3> QED
      BY <1>3, <3>1, <3>2
  <2> QED
    BY <2>1, <2>2
<1>5. HeldSum(p)' = HeldSum(p) - Held(k, p) + Held(k, p)'
  BY <1>1, <1>3, HeldSumMoves
<1>6. /\ Held(k, p) = IF p = bought THEN quantity ELSE 0
      /\ Held(k, p)' = IF p = bought /\ ~IsCanceled(k)' THEN quantity ELSE 0
  BY <1>1 DEF Held, IsCanceled
<1>7. back \in Int /\ Held(k, p)' = Held(k, p) - back /\ Held(k, p) \in Int
  BY <1>2, <1>6
<1>8. products'[p].stock + HeldSum(p)' = products[p].stock + HeldSum(p)
  <2> HIDE DEF c, bought, quantity, back
  <2> QED
    BY <1>3, <1>4, <1>5, <1>7
<1> QED
  BY <1>8 DEF StockAndHeld

\* Only an administrator's edit moves stock that no order gets or gives back.
LEMMA StockStep ==
  ASSUME TypeInv, IsFiniteSet(Placed), [EconomyNext]_economyVars,
         NEW p \in Products, products[p] # NoRow
  PROVE  /\ products'[p] # NoRow
         /\ StockAndHeld(p)' = StockAndHeld(p) \/ StockEdited(p)
<1>0. TypeInv'
  BY TypeNext
<1>1. products'[p] # NoRow
  BY OrderedPricesKept
<1>2. ASSUME NEW r \in Slots, PlaceOrder(r)
      PROVE  StockAndHeld(p)' = StockAndHeld(p)
  BY <1>0, <1>2, PlaceKeepsStock
<1>3. ASSUME NEW r \in Slots, AdvanceOrder(r) \/ CancelOrder(r)
      PROVE  StockAndHeld(p)' = StockAndHeld(p)
  BY <1>0, <1>3, StatusKeepsStock
<1>4. ASSUME orders' = orders, products'[p].stock = products[p].stock
      PROVE  StockAndHeld(p)' = StockAndHeld(p)
  BY <1>4 DEF StockAndHeld, HeldSum, LiveOrdersFor
<1>5. ASSUME NEW r \in Slots, CreateProduct(r)
      PROVE  StockAndHeld(p)' = StockAndHeld(p)
  <2>1. /\ products[call[r].product] = NoRow /\ orders' = orders
        /\ products' = [products EXCEPT ![call[r].product] = CreatedProduct(call[r])]
    BY <1>5 DEF CreateProduct, orderVars
  <2>2. DOMAIN products = Products
    BY DEF TypeInv, EconomyTypeOK, DatabaseTypeOK
  <2>3. products'[p] = products[p]
    BY <2>1, <2>2
  <2> QED
    BY <1>4, <2>1, <2>3
<1>6. ASSUME NEW r \in Slots, UpdateProduct(r)
      PROVE  StockAndHeld(p)' = StockAndHeld(p) \/ StockEdited(p)
  <2> DEFINE c == call[r]
  <2>1. /\ orders' = orders
        /\ \/ products' = [products EXCEPT ![c.product] = UpdatedProduct(c)]
           \/ products' = products
    BY <1>6 DEF UpdateProduct, orderVars
  <2>2. CASE c.product = p /\ c.stock # Keep
    BY <1>6, <2>2 DEF StockEdited
  <2>3. CASE ~(c.product = p /\ c.stock # Keep)
    <3>1. DOMAIN products = Products
      BY DEF TypeInv, EconomyTypeOK, DatabaseTypeOK
    <3>2. c.product = p => UpdatedProduct(c).stock = products[p].stock
      BY <2>3 DEF UpdatedProduct, Chosen
    <3>3. products'[p].stock = products[p].stock
      BY <2>1, <3>1, <3>2
    <3> QED
      BY <1>4, <2>1, <3>3
  <2> QED
    BY <2>2, <2>3
<1>7. ASSUME NEW r \in Slots, SaveGrants(r) \/ ResetTokenBalances(r), UNCHANGED orderVars
      PROVE  StockAndHeld(p)' = StockAndHeld(p)
  <2>1. orders' = orders /\ products' = products
    BY <1>7 DEF SaveGrants, ResetTokenBalances, orderVars
  <2> QED
    BY <1>4, <2>1
<1>8. WritesNoMoney => orders' = orders /\ products' = products
  BY DEF WritesNoMoney, orderVars
<1> QED
  BY <1>1, <1>2, <1>3, <1>4, <1>5, <1>6, <1>7, <1>8, EconomyStep

\* There are finitely many orders, however many keys there are.
LEMMA OrdersFinite == EconomySpec => []IsFiniteSet(Placed)
<1>1. EconomyInit => IsFiniteSet(Placed)
  <2> SUFFICES ASSUME EconomyInit PROVE IsFiniteSet(Placed)
    OBVIOUS
  <2>1. Placed = {}
    BY DEF EconomyInit, OrdersInit, Placed
  <2> QED
    BY <2>1, FS_EmptySet
<1>2. TypeInv /\ IsFiniteSet(Placed) /\ [EconomyNext]_economyVars => IsFiniteSet(Placed)'
  BY PlacedFinite
<1> QED
  BY <1>1, <1>2, TypeCorrect, PTL DEF EconomySpec

\* A product that exists stays, and no step changes the sum of its stock and
\* the units in live orders, unless it sets the stock to a number.
StockMovesByEditOnly ==
  [][\A p \in Products :
       products[p] # NoRow =>
         /\ products'[p] # NoRow
         /\ StockAndHeld(p)' = StockAndHeld(p) \/ StockEdited(p)
    ]_economyVars

\* Orders, cancellations, grants, resets, account changes and edits of anything
\* but the stock never lose or create a unit of a product.
THEOREM StockLostByEditOnly == EconomySpec => StockMovesByEditOnly
<1>1. TypeInv /\ IsFiniteSet(Placed) /\ [EconomyNext]_economyVars =>
        [\A p \in Products :
           products[p] # NoRow =>
             /\ products'[p] # NoRow
             /\ StockAndHeld(p)' = StockAndHeld(p) \/ StockEdited(p)]_economyVars
  BY StockStep
<1> QED
  BY <1>1, TypeCorrect, OrdersFinite, PTL DEF EconomySpec, StockMovesByEditOnly

\* Where no request sets a stock, what is left of a product and what live
\* orders hold of it is what there was at the start.
THEOREM StockAlwaysConserved ==
  ASSUME \A c \in ProductCalls : c.op = "update" => c.stock = Keep
  PROVE  EconomySpec => []StockConserved
<1> DEFINE Kept(p) == /\ products[p] # NoRow
                      /\ StockAndHeld(p) = InitialProducts[p].stock
           Inv == \A p \in Products : InitialProducts[p] # NoRow => Kept(p)
<1>1. EconomyInit => Inv
  <2> SUFFICES ASSUME EconomyInit, NEW p \in Products, InitialProducts[p] # NoRow
               PROVE  Kept(p)
    OBVIOUS
  <2> DEFINE f == [k \in LiveOrdersFor(p) |-> orders[k].quantity]
  <2>1. products[p] = InitialProducts[p]
    BY DEF EconomyInit, DatabaseInit
  <2>2. LiveOrdersFor(p) = {}
    BY DEF EconomyInit, OrdersInit, LiveOrdersFor
  <2>3. DOMAIN f = {}
    BY <2>2
  <2> HIDE DEF f
  <2>4. SumFunction(f) = 0
    BY <2>3, SumOfNothing
  <2>5. InitialProducts[p] \in Product
    BY TokenDatabaseAssumption
  <2>6. InitialProducts[p].stock \in Int
    BY <2>5, TokenDatabaseAssumption DEF Product
  <2> QED
    BY <2>1, <2>4, <2>6 DEF StockAndHeld, HeldSum, f
<1>2. TypeInv /\ IsFiniteSet(Placed) /\ Inv /\ [EconomyNext]_economyVars => Inv'
  <2> SUFFICES ASSUME TypeInv, IsFiniteSet(Placed), Inv, [EconomyNext]_economyVars,
                      NEW p \in Products, InitialProducts[p] # NoRow
               PROVE  Kept(p)'
    OBVIOUS
  <2>1. ~StockEdited(p)
    BY DEF StockEdited, UpdateProduct
  <2>2. products'[p] # NoRow /\ StockAndHeld(p)' = StockAndHeld(p)
    BY <2>1, StockStep
  <2> QED
    BY <2>2
<1>3. Inv => StockConserved
  BY DEF StockConserved, StockAndHeld, HeldSum, LiveOrdersFor
<1> QED
  BY <1>1, <1>2, <1>3, TypeCorrect, OrdersFinite, PTL DEF EconomySpec

=============================================================================
