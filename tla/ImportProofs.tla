---------------------------- MODULE ImportProofs ----------------------------
(***************************************************************************)
(* What an import may do to the whitelist, for lists of any length.        *)
(*                                                                         *)
(* Decisions and CarriedOut are recursive functions over the rows of the   *)
(* list.  The induction theorems of the library take an operator, which    *)
(* the provers cannot instantiate; UpTo states induction over a set        *)
(* instead, from a minimal counterexample, and Recursion says that a       *)
(* function which is defined step by step exists.                          *)
(***************************************************************************)
EXTENDS WhitelistImport, FiniteSetTheorems, WellFoundedInduction, TLAPS

\* Induction up to N, over a set.
LEMMA UpTo ==
  ASSUME NEW N \in Nat, NEW T, 0 \in T, \A n \in 0..N-1 : n \in T => n + 1 \in T
  PROVE  \A n \in 0..N : n \in T
<1> DEFINE R == OpToRel(<, Nat)
           B == {n \in 0..N : n \notin T}
<1>0. \A x, y \in Nat : x < y => <<x, y>> \in R
  BY DEF OpToRel
<1>1. SUFFICES ASSUME B # {} PROVE FALSE
  OBVIOUS
<1>2. B \subseteq Nat
  OBVIOUS
<1> HIDE DEF R
<1>3. IsWellFoundedOn(R, Nat)
  BY NatLessThanWellFounded DEF R
<1> HIDE DEF B
<1>4. PICK x \in B : \A y \in B : ~ (<<y, x>> \in R)
  BY <1>1, <1>2, <1>3, WFMin
<1>5. x \in 0..N /\ x \notin T
  BY DEF B
<1>6. x - 1 \in 0..N-1 /\ x - 1 \in Nat /\ x - 1 < x
  BY <1>5
<1>7. x - 1 \in B
  BY <1>5, <1>6 DEF B
<1> QED
  BY <1>0, <1>2, <1>4, <1>6, <1>7

StepsOver(N, X) == [1..N -> [X -> X]]

\* From a, N steps of st lead through a run f of values in X.
IsRunOf(f, N, X, a, st) ==
  f \in [0..N -> X] /\ f[0] = a /\ \A n \in 1..N : f[n] = st[n][f[n - 1]]

\* A function that is defined step by step exists.
LEMMA Recursion ==
  ASSUME NEW N \in Nat, NEW X, NEW a \in X, NEW st \in StepsOver(N, X)
  PROVE  \E f : IsRunOf(f, N, X, a, st)
<1> USE DEF StepsOver
<1> DEFINE Run(f, k) == f \in [0..k -> X] /\ f[0] = a /\ \A n \in 1..k : f[n] = st[n][f[n - 1]]
           T == {k \in 0..N : \E f : Run(f, k)}
<1>1. 0 \in T
  <2> DEFINE g == [n \in 0..0 |-> a]
  <2>1. Run(g, 0)
    OBVIOUS
  <2> HIDE DEF g
  <2>2. \E f : Run(f, 0)
    BY <2>1
  <2> QED
    BY <2>2
<1>2. ASSUME NEW k \in 0..N-1, k \in T
      PROVE  k + 1 \in T
  <2> PICK f : Run(f, k)
    BY <1>2
  <2> DEFINE g == [n \in 0..k+1 |-> IF n = k + 1 THEN st[k + 1][f[k]] ELSE f[n]]
  <2>0. f[k] \in X /\ k + 1 \in 1..N
    OBVIOUS
  <2>1. g \in [0..k+1 -> X]
    <3> SUFFICES ASSUME NEW n \in 0..k+1
                 PROVE  (IF n = k + 1 THEN st[k + 1][f[k]] ELSE f[n]) \in X
      OBVIOUS
    <3>1. st[k + 1][f[k]] \in X
      BY <2>0
    <3>2. n # k + 1 => n \in 0..k
      OBVIOUS
    <3> QED
      BY <3>1, <3>2
  <2>2. g[0] = a
    OBVIOUS
  <2>3. ASSUME NEW n \in 1..k+1 PROVE g[n] = st[n][g[n - 1]]
    <3>1. CASE n = k + 1
      <4>1. n - 1 = k /\ g[n - 1] = f[k] /\ g[n] = st[k + 1][f[k]]
        BY <3>1
      <4> QED
        BY <3>1, <4>1
    <3>2. CASE n # k + 1
      <4>1. n \in 1..k /\ n - 1 \in 0..k /\ n - 1 # k + 1
        BY <3>2
      <4>2. g[n] = f[n] /\ g[n - 1] = f[n - 1]
        BY <3>2, <4>1
      <4> QED
        BY <4>1, <4>2
    <3> QED
      BY <3>1, <3>2
  <2> HIDE DEF g
  <2>4. Run(g, k + 1)
    BY <2>1, <2>2, <2>3
  <2> QED
    BY <2>4
<1> HIDE DEF T
<1>3. \A n \in 0..N : n \in T
  BY <1>1, <1>2, UpTo
<1>4. N \in T
  BY <1>3
<1> QED
  BY <1>4 DEF T, IsRunOf

-----------------------------------------------------------------------------
(* The decisions *)

RowsTyped == whitelist \in [People -> WhitelistRow \cup {NoRow}]

\* A decision names a row that exists, and writes a row that is valid.
Fits(d, row) ==
  /\ d \in Decision
  /\ d.kind \in Written => row \in Identity
  /\ d.kind \in {"UPDATE", "RESTORE"} => d.person \in People /\ whitelist[d.person] # NoRow

\* The call of an import, field by field.
LEMMA ImportTyped ==
  ASSUME NEW c \in ImportCalls
  PROVE  /\ c.op = "import" /\ c.policy \in Policies
         /\ c.rows \in Seq(Identity \cup {InvalidRow}) /\ Len(c.rows) \in Nat
         /\ DOMAIN c.rows = 1..Len(c.rows)
BY WhitelistImportAssumption DEF ImportCall

\* One decision (importUsers, the loop over the rows).
LEMMA DecisionFits ==
  ASSUME RowsTyped, NEW c \in ImportCalls, NEW n \in 1..Len(c.rows), NEW earlier
  PROVE  /\ Fits(DecisionFor(c, c.rows[n], earlier), c.rows[n])
         /\ LET d == DecisionFor(c, c.rows[n], earlier)
            IN  d.kind \in {"UPDATE", "RESTORE"} => NotYetTargeted(d.person, earlier)
<1> DEFINE row == c.rows[n]
           taken == HolderOf(row.email, row.number)
           p == CHOOSE q \in taken : TRUE
           d == DecisionFor(c, row, earlier)
<1>1. row \in Identity \cup {InvalidRow}
  BY ImportTyped
<1>2. taken \subseteq People /\ \A q \in taken : whitelist[q] # NoRow
  BY DEF HolderOf
<1> HIDE DEF taken
<1>3. taken # {} => p \in taken
  OBVIOUS
<1> HIDE DEF p, row
<1>4. KindFor(p, row) \in {"RESTORE", "UPDATE", "TAKEN"}
  BY DEF KindFor
<1>5. \/ d = [kind |-> "INVALID", person |-> NoRow] /\ row = InvalidRow
      \/ d \in {[kind |-> k, person |-> NoRow] : k \in {"DUPLICATE", "TAKEN"}}
      \/ d = [kind |-> "CREATE", person |-> NoRow] /\ row # InvalidRow
      \/ d = [kind |-> "TAKEN", person |-> p] /\ taken # {}
      \/ /\ d = [kind |-> KindFor(p, row), person |-> p] /\ taken # {} /\ row # InvalidRow
         /\ NotYetTargeted(p, earlier)
  BY DEF DecisionFor, p, taken
<1>6. /\ d \in Decision
      /\ d.kind \in Written => row # InvalidRow
      /\ d.kind \in {"UPDATE", "RESTORE"} => d.person = p /\ taken # {} /\ NotYetTargeted(p, earlier)
  BY <1>2, <1>3, <1>4, <1>5 DEF Decision, Kinds, Written
<1> HIDE DEF d
<1>7. Fits(d, row)
  BY <1>1, <1>2, <1>3, <1>6 DEF Fits, row
<1> QED
  BY <1>6, <1>7 DEF d, row

\* The decisions about a list: one for each row, and no row of the whitelist is
\* the target of two.
DecisionsFit(c, d) ==
  /\ d \in Seq(Decision) /\ Len(d) = Len(c.rows)
  /\ \A i \in 1..Len(c.rows) : Fits(d[i], c.rows[i])
  /\ \A i, j \in 1..Len(c.rows) :
       /\ i < j /\ d[i].kind \in Written /\ d[j].kind \in {"UPDATE", "RESTORE"}
       => d[i].person # d[j].person

\* Decisions is the last of the lists that grow by one decision a row.
LEMMA DecisionsDefined ==
  ASSUME RowsTyped, NEW c \in ImportCalls
  PROVE  \E f \in [0..Len(c.rows) -> Seq(Decision)] :
           /\ f[0] = <<>> /\ Decisions(c) = f[Len(c.rows)]
           /\ \A n \in 1..Len(c.rows) :
                f[n] = Append(f[n - 1], DecisionFor(c, c.rows[n], f[n - 1]))
<1> DEFINE N == Len(c.rows)
           st == [n \in 1..N |-> [s \in Seq(Decision) |->
                    Append(s, DecisionFor(c, c.rows[n], s))]]
           IsRun(f) == f = [n \in 0..N |-> IF n = 0 THEN <<>>
                              ELSE Append(f[n - 1], DecisionFor(c, c.rows[n], f[n - 1]))]
<1>0. N \in Nat
  BY ImportTyped
<1>1. \A s \in Seq(Decision), n \in 1..N :
        Append(s, DecisionFor(c, c.rows[n], s)) \in Seq(Decision)
  <2> TAKE s \in Seq(Decision), n \in 1..N
  <2>1. DecisionFor(c, c.rows[n], s) \in Decision
    BY DecisionFits DEF Fits
  <2> QED
    BY <2>1
<1>2. st \in [1..N -> [Seq(Decision) -> Seq(Decision)]]
  BY <1>1
<1>s. \A s \in Seq(Decision), n \in 1..N :
        st[n][s] = Append(s, DecisionFor(c, c.rows[n], s))
  OBVIOUS
<1> HIDE DEF st, N
<1>3. PICK f : IsRunOf(f, N, Seq(Decision), <<>>, st)
  <2>1. <<>> \in Seq(Decision) /\ st \in StepsOver(N, Seq(Decision))
    BY <1>2 DEF StepsOver
  <2> QED
    BY <1>0, <2>1, Recursion
<1>4. \A n \in 1..N : f[n] = Append(f[n - 1], DecisionFor(c, c.rows[n], f[n - 1]))
  <2> TAKE n \in 1..N
  <2>1. n - 1 \in 0..N
    BY <1>0
  <2> QED
    BY <1>3, <1>s, <2>1 DEF IsRunOf
<1>5. IsRun(f)
  <2> SUFFICES ASSUME NEW n \in 0..N
               PROVE  f[n] = IF n = 0 THEN <<>>
                             ELSE Append(f[n - 1], DecisionFor(c, c.rows[n], f[n - 1]))
    BY <1>3 DEF IsRunOf
  <2>1. n # 0 => n \in 1..N
    BY <1>0
  <2> QED
    BY <1>3, <1>4, <2>1 DEF IsRunOf
<1> DEFINE h == CHOOSE g : IsRun(g)
<1>6. IsRun(h)
  BY <1>5, Zenon
<1>7. Decisions(c) = h[N]
  BY DEF Decisions, N
<1> HIDE DEF h
<1>8. h[0] = <<>> /\ \A n \in 1..N : h[n] = Append(h[n - 1], DecisionFor(c, c.rows[n], h[n - 1]))
  <2>1. \A n \in 0..N : h[n] = IF n = 0 THEN <<>>
                              ELSE Append(h[n - 1], DecisionFor(c, c.rows[n], h[n - 1]))
    BY <1>6
  <2>2. 0 \in 0..N /\ \A n \in 1..N : n \in 0..N /\ n # 0
    BY <1>0
  <2> QED
    BY <2>1, <2>2
<1>9. \A n \in 0..N : h[n] \in Seq(Decision)
  <2> DEFINE T == {n \in 0..N : h[n] \in Seq(Decision)}
  <2>1. 0 \in T
    <3>1. 0 \in 0..N /\ h[0] \in Seq(Decision)
      BY <1>0, <1>8
    <3> QED
      BY <3>1
  <2>2. ASSUME NEW n \in 0..N-1, n \in T PROVE n + 1 \in T
    <3>1. n + 1 \in 1..N /\ (n + 1) - 1 = n /\ n + 1 \in 0..N /\ h[n] \in Seq(Decision)
      BY <1>0, <2>2
    <3>2. h[n + 1] \in Seq(Decision)
      BY <1>1, <1>8, <3>1
    <3> QED
      BY <3>1, <3>2
  <2> HIDE DEF T
  <2>3. \A n \in 0..N : n \in T
    BY <1>0, <2>1, <2>2, UpTo
  <2> QED
    BY <2>3 DEF T
<1>10. h \in [0..N -> Seq(Decision)]
  BY <1>6, <1>9
<1> QED
  BY <1>7, <1>8, <1>10 DEF N

\* The decisions about a list are one for each row, and none interferes with another.
LEMMA AllDecisionsFit ==
  ASSUME RowsTyped, NEW c \in ImportCalls
  PROVE  DecisionsFit(c, Decisions(c))
<1> DEFINE N == Len(c.rows)
           Good(d, k) ==
             /\ d \in Seq(Decision) /\ Len(d) = k
             /\ \A i \in 1..k : Fits(d[i], c.rows[i])
             /\ \A i, j \in 1..k :
                  /\ i < j /\ d[i].kind \in Written /\ d[j].kind \in {"UPDATE", "RESTORE"}
                  => d[i].person # d[j].person
<1>0. N \in Nat
  BY ImportTyped
<1> PICK f \in [0..N -> Seq(Decision)] :
      /\ f[0] = <<>> /\ Decisions(c) = f[N]
      /\ \A n \in 1..N : f[n] = Append(f[n - 1], DecisionFor(c, c.rows[n], f[n - 1]))
  BY DecisionsDefined
<1> DEFINE T == {n \in 0..N : Good(f[n], n)}
<1>1. 0 \in T
  <2>1. 0 \in 0..N /\ f[0] \in Seq(Decision) /\ Len(f[0]) = 0
    BY <1>0
  <2>2. \A i \in 1..0 : FALSE
    OBVIOUS
  <2>3. Good(f[0], 0)
    BY <2>1, <2>2
  <2> HIDE DEF Good
  <2> QED
    BY <2>1, <2>3
<1>2. ASSUME NEW n \in 0..N-1, n \in T PROVE n + 1 \in T
  <2> DEFINE m == n + 1
             e == f[n]
             x == DecisionFor(c, c.rows[m], e)
  <2>1. m \in 1..N /\ m - 1 = n /\ m \in 0..N /\ n \in Nat
    BY <1>0
  <2>2. Good(e, n)
    BY <1>2
  <2>3. f[m] = Append(e, x)
    BY <2>1
  <2>4. Fits(x, c.rows[m]) /\ (x.kind \in {"UPDATE", "RESTORE"} => NotYetTargeted(x.person, e))
    BY <2>1, DecisionFits
  <2> HIDE DEF x, e
  <2>5. /\ f[m] \in Seq(Decision) /\ Len(f[m]) = m /\ f[m][m] = x
        /\ \A i \in 1..n : f[m][i] = e[i]
    <3>1. e \in Seq(Decision) /\ Len(e) = n /\ x \in Decision
      BY <2>2, <2>4 DEF Fits
    <3>2. Append(e, x) \in Seq(Decision) /\ Len(Append(e, x)) = n + 1 /\ Append(e, x)[n + 1] = x
      BY <3>1
    <3>3. \A i \in 1..n : Append(e, x)[i] = e[i]
      BY <3>1
    <3> QED
      BY <2>3, <3>2, <3>3
  <2>6. \A i \in 1..m : i \in 1..n \/ i = m
    BY <2>1
  <2>7. \A i \in 1..m : Fits(f[m][i], c.rows[i])
    BY <2>2, <2>4, <2>5, <2>6
  <2>8. ASSUME NEW i \in 1..m, NEW j \in 1..m, i < j,
               f[m][i].kind \in Written, f[m][j].kind \in {"UPDATE", "RESTORE"}
        PROVE  f[m][i].person # f[m][j].person
    <3>1. i \in 1..n /\ f[m][i] = e[i]
      <4>1. i \in 1..n
        BY <2>1, <2>8
      <4> QED
        BY <2>5, <4>1
    <3>2. CASE j \in 1..n
      BY <2>2, <2>5, <2>8, <3>1, <3>2
    <3>3. CASE j = m
      <4>1. NotYetTargeted(x.person, e)
        BY <2>4, <2>5, <2>8, <3>3
      <4>2. i \in DOMAIN e
        BY <2>2, <3>1
      <4> QED
        BY <2>5, <2>8, <3>1, <3>3, <4>1, <4>2 DEF NotYetTargeted
    <3> QED
      BY <2>6, <3>2, <3>3
  <2> QED
    BY <2>1, <2>5, <2>7, <2>8
<1> HIDE DEF T
<1>3. \A n \in 0..N : n \in T
  BY <1>0, <1>1, <1>2, UpTo
<1>4. N \in T
  BY <1>0, <1>3
<1> QED
  BY <1>4 DEF T, DecisionsFit

-----------------------------------------------------------------------------
(* Carrying them out *)

\* What an import may make of row old of the whitelist: add it, restore it, or
\* correct it while it is not a member's and no link is in use.
ImportMoves(old, new) ==
  \/ new = old
  \/ /\ new \in WhitelistRow /\ ~new.deleted /\ new.user = NoRow
     /\ old # NoRow => old.user = NoRow /\ old.status # "ACCEPTED" /\ new.version > old.version
     /\ \/ old = NoRow /\ new.status = "PENDING"
        \/ old # NoRow /\ old.deleted /\ new.status = "PENDING"
        \/ /\ old # NoRow /\ ~old.deleted
           /\ new.status = old.status /\ old.status \in {"PENDING", "FAILED", "EXPIRED"}

\* What an import may do twice it may do at once.
LEMMA ImportMovesAdd ==
  ASSUME NEW a \in WhitelistRow \cup {NoRow}, NEW b \in WhitelistRow \cup {NoRow}, NEW c,
         ImportMoves(a, b), ImportMoves(b, c)
  PROVE  ImportMoves(a, c)
<1>1. CASE a = b \/ b = c
  BY <1>1
<1>2. CASE a # b /\ b # c
  <2>1. b \in WhitelistRow /\ c \in WhitelistRow /\ b # NoRow /\ b.version \in Nat /\ c.version \in Nat
    BY <1>2, InvitationDatabaseAssumption DEF ImportMoves, WhitelistRow
  <2>2. a # NoRow => a.version \in Nat
    BY DEF WhitelistRow
  <2> QED
    BY <1>2, <2>1, <2>2 DEF ImportMoves
<1> QED
  BY <1>1, <1>2

Tables == [People -> WhitelistRow \cup {NoRow}]

\* An inserted row is a row that waits, with the identity asked for.
LEMMA NewPersonRow ==
  ASSUME NEW email \in Emails, NEW number \in Numbers
  PROVE  LET new == NewPerson(email, number)
         IN  /\ new \in WhitelistRow /\ new.status = "PENDING" /\ ~new.deleted /\ new.user = NoRow
             /\ new.email = email /\ new.number = number
BY DEF NewPerson, WhitelistRow, InvitationStatuses

WithIdentity(row, email, number) == [row EXCEPT !.email = email, !.number = number]

\* A correction changes address and number only.
LEMMA CorrectedRow ==
  ASSUME NEW row \in WhitelistRow, NEW email \in Emails, NEW number \in Numbers
  PROVE  LET new == WithIdentity(row, email, number)
         IN  /\ new \in WhitelistRow /\ new.status = row.status /\ new.deleted = row.deleted
             /\ new.user = row.user /\ new.email = email /\ new.number = number
             /\ new.version = row.version
BY DEF WhitelistRow, WithIdentity

\* A touched row has moved its version only.
LEMMA TouchedRow ==
  ASSUME NEW row \in WhitelistRow
  PROVE  LET new == Touched(row)
         IN  /\ new \in WhitelistRow /\ new.status = row.status /\ new.deleted = row.deleted
             /\ new.user = row.user /\ new.email = row.email /\ new.number = row.number
             /\ new.version = row.version + 1
BY DEF Touched, WhitelistRow

\* A restored row starts over under the identity it had.
LEMMA RestoredRow ==
  ASSUME NEW row \in WhitelistRow
  PROVE  LET new == Restored(row)
         IN  /\ new \in WhitelistRow /\ new.status = "PENDING" /\ ~new.deleted
             /\ new.user = row.user /\ new.email = row.email /\ new.number = row.number
             /\ new.version = row.version + 1
<1> DEFINE mid == [row EXCEPT !.status = "PENDING", !.deleted = FALSE]
<1>1. /\ mid \in WhitelistRow /\ mid.status = "PENDING" /\ ~mid.deleted
      /\ mid.user = row.user /\ mid.email = row.email /\ mid.number = row.number
      /\ mid.version = row.version
  BY DEF WhitelistRow, InvitationStatuses
<1>2. Restored(row) = Touched(mid)
  BY DEF Restored
<1> HIDE DEF mid
<1> QED
  BY <1>1, <1>2, TouchedRow

\* One write of an import (importUsers, the loop of its transaction).
LEMMA WriteOneMoves ==
  ASSUME NEW w \in Tables, NEW p \in People, NEW kind \in Written, NEW id \in Identity,
         kind \in {"UPDATE", "RESTORE"} => w[p] # NoRow
  PROVE  LET result == WriteOne(w, kind, p, id)
         IN  /\ result = [code |-> result.code, table |-> result.table]
             /\ result.code \in ImportCodes /\ result.table \in Tables
             /\ (kind = "CREATE" => w[p] = NoRow) => ImportMoves(w[p], result.table[p])
             /\ w[p] # NoRow => result.table[p] # NoRow
             /\ \A q \in People \ {p} : result.table[q] = w[q]
             /\ result.code = "OK" =>
                  /\ result.table[p] # NoRow /\ ~result.table[p].deleted
                  /\ result.table[p].email = id.email /\ result.table[p].number = id.number
<1> DEFINE row == w[p]
           fits == CASE kind = "CREATE"  -> TRUE
                     [] kind = "RESTORE" -> /\ row.deleted /\ row.user = NoRow
                                            /\ row.status # "ACCEPTED"
                     [] kind = "UPDATE"  -> /\ IsOpen(row)
                                            /\ row.status \in {"PENDING", "FAILED", "EXPIRED"}
           taken == EmailIn(w, id.email, p) \/ NumberIn(w, id.number, p)
           new == CASE kind = "CREATE"  -> NewPerson(id.email, id.number)
                    [] kind = "RESTORE" -> [Restored(row) EXCEPT
                                             !.email = id.email, !.number = id.number]
                    [] kind = "UPDATE"  -> Touched([row EXCEPT
                                             !.email = id.email, !.number = id.number])
           result == WriteOne(w, kind, p, id)
           code == IF ~fits THEN IF kind = "RESTORE" THEN "W409_IMPORT_RESTORE_CONFLICT"
                                 ELSE "W409_IMPORT_UPDATE_CONFLICT"
                   ELSE IF taken THEN "W409_IMPORT_DUPLICATE" ELSE "OK"
           table == IF fits /\ ~taken THEN [w EXCEPT ![p] = new] ELSE w
<1>0. result = [code |-> code, table |-> table]
  BY DEF WriteOne
<1>1. /\ result.table = IF fits /\ ~taken THEN [w EXCEPT ![p] = new] ELSE w
      /\ result.code \in ImportCodes /\ (result.code = "OK" => fits /\ ~taken)
  <2> HIDE DEF fits, taken, new, result
  <2> QED
    BY <1>0 DEF ImportCodes
<1>r. result = [code |-> result.code, table |-> result.table]
  <2> HIDE DEF code, table, result
  <2> QED
    BY <1>0
<1>2. ASSUME fits
      PROVE  /\ (kind = "CREATE" => w[p] = NoRow) => ImportMoves(w[p], new)
             /\ new \in WhitelistRow /\ ~new.deleted
             /\ new.email = id.email /\ new.number = id.number
  <2>0. id.email \in Emails /\ id.number \in Numbers
    BY DEF Identity
  <2>1. CASE kind = "CREATE"
    <3>1. new = NewPerson(id.email, id.number)
      BY <2>1
    <3> HIDE DEF new
    <3> QED
      BY <2>0, <2>1, <3>1, NewPersonRow DEF ImportMoves
  <2>2. CASE kind = "RESTORE"
    <3>1. /\ new = WithIdentity(Restored(row), id.email, id.number)
          /\ row.deleted /\ row.user = NoRow /\ row.status # "ACCEPTED"
          /\ row \in WhitelistRow /\ row # NoRow
      BY <1>2, <2>2 DEF Tables, WithIdentity
    <3> HIDE DEF new, row
    <3>2. /\ new \in WhitelistRow /\ new.status = "PENDING" /\ ~new.deleted /\ new.user = NoRow
          /\ new.version = row.version + 1 /\ new.email = id.email /\ new.number = id.number
      BY <2>0, <3>1, RestoredRow, CorrectedRow
    <3>3. new.version > row.version
      BY <3>1, <3>2 DEF WhitelistRow
    <3> QED
      BY <3>1, <3>2, <3>3 DEF ImportMoves, row
  <2>3. CASE kind = "UPDATE"
    <3>1. /\ new = Touched(WithIdentity(row, id.email, id.number))
          /\ IsOpen(row) /\ row.status \in {"PENDING", "FAILED", "EXPIRED"}
          /\ row \in WhitelistRow /\ row # NoRow
      BY <1>2, <2>3 DEF Tables, WithIdentity
    <3> HIDE DEF new, row
    <3>2. /\ new \in WhitelistRow /\ new.status = row.status /\ new.deleted = row.deleted
          /\ new.user = row.user
          /\ new.version = row.version + 1 /\ new.email = id.email /\ new.number = id.number
      BY <2>0, <3>1, TouchedRow, CorrectedRow
    <3>3. new.version > row.version
      BY <3>1, <3>2 DEF WhitelistRow
    <3> QED
      BY <3>1, <3>2, <3>3 DEF ImportMoves, IsOpen, row
  <2> QED
    BY <2>1, <2>2, <2>3 DEF Written
<1> HIDE DEF fits, taken, new, code, table, result
<1>3. CASE fits /\ ~taken
  <2>1. /\ result.table \in Tables /\ result.table[p] = new
        /\ \A q \in People \ {p} : result.table[q] = w[q]
    BY <1>1, <1>2, <1>3 DEF Tables
  <2> QED
    BY <1>1, <1>2, <1>3, <1>r, <2>1, InvitationDatabaseAssumption DEF result
<1>4. CASE ~(fits /\ ~taken)
  BY <1>1, <1>4, <1>r DEF ImportMoves, result
<1> QED
  BY <1>3, <1>4

\* The row of the whitelist that row n of an import is written to.
Target(d, ids, n) == IF d[n].kind = "CREATE" THEN ids[n] ELSE d[n].person

\* The transaction after row n, from what it was after the row before.
AfterRow(c, d, ids, n, x) ==
  IF x.code # "OK" \/ d[n].kind \notin Written THEN x
  ELSE WriteOne(x.table, d[n].kind, Target(d, ids, n), c.rows[n])

\* The states of a transaction: rows never vanish.
RunStates ==
  {x \in [code : ImportCodes, table : Tables] :
     \A p \in People : whitelist[p] # NoRow => x.table[p] # NoRow}

\* No two rows of an import are written to the same row of the whitelist.
LEMMA Targets ==
  ASSUME RowsTyped, NEW c \in ImportCalls, NEW d, DecisionsFit(c, d), NEW ids \in FreshIds(d),
         NEW n \in 1..Len(c.rows), d[n].kind \in Written
  PROVE  /\ Target(d, ids, n) \in People /\ c.rows[n] \in Identity /\ n \in DOMAIN d
         /\ d[n].kind = "CREATE" => whitelist[Target(d, ids, n)] = NoRow
         /\ d[n].kind \in {"UPDATE", "RESTORE"} => whitelist[Target(d, ids, n)] # NoRow
         /\ \A m \in 1..Len(c.rows) :
              m # n /\ d[m].kind \in Written => Target(d, ids, m) # Target(d, ids, n)
<1>1. /\ d \in Seq(Decision) /\ DOMAIN d = 1..Len(c.rows) /\ Len(c.rows) \in Nat
      /\ \A i \in 1..Len(c.rows) : Fits(d[i], c.rows[i])
  BY ImportTyped DEF DecisionsFit
<1>2. ids \in [CreatedRows(d) -> {p \in People : whitelist[p] = NoRow}]
  BY DEF FreshIds, Injection
<1>3. \A i, j \in CreatedRows(d) : ids[i] = ids[j] => i = j
  BY <1>2 DEF FreshIds, Injection, IsInjective
<1>4. \A i \in 1..Len(c.rows) :
        d[i].kind = "CREATE" => i \in CreatedRows(d) /\ ids[i] \in People /\ whitelist[ids[i]] = NoRow
  BY <1>1, <1>2 DEF CreatedRows
<1>5. \A i \in 1..Len(c.rows) :
        d[i].kind \in {"UPDATE", "RESTORE"} => d[i].person \in People /\ whitelist[d[i].person] # NoRow
  BY <1>1 DEF Fits
<1>6. ASSUME NEW m \in 1..Len(c.rows), m # n, d[m].kind \in Written
      PROVE  Target(d, ids, m) # Target(d, ids, n)
  <2>1. CASE d[m].kind = "CREATE" /\ d[n].kind = "CREATE"
    BY <1>3, <1>4, <1>6, <2>1 DEF Target
  <2>2. CASE d[m].kind = "CREATE" /\ d[n].kind # "CREATE"
    BY <1>4, <1>5, <1>6, <2>2 DEF Target, Written
  <2>3. CASE d[m].kind # "CREATE" /\ d[n].kind = "CREATE"
    BY <1>4, <1>5, <1>6, <2>3 DEF Target, Written
  <2>4. CASE d[m].kind # "CREATE" /\ d[n].kind # "CREATE"
    <3>1. m < n \/ n < m
      BY <1>1, <1>6
    <3>2. d[m].person # d[n].person
      BY <1>6, <2>4, <3>1 DEF DecisionsFit, Written
    <3> QED
      BY <2>4, <3>2 DEF Target
  <2> QED
    BY <2>1, <2>2, <2>3, <2>4
<1> QED
  BY <1>1, <1>4, <1>5, <1>6 DEF Target, Fits, Written

\* A row of the transaction leads from a state of it to another.
LEMMA AfterRowState ==
  ASSUME RowsTyped, NEW c \in ImportCalls, NEW d, DecisionsFit(c, d), NEW ids \in FreshIds(d),
         NEW n \in 1..Len(c.rows), NEW x \in RunStates
  PROVE  AfterRow(c, d, ids, n, x) \in RunStates
<1>1. CASE x.code # "OK" \/ d[n].kind \notin Written
  BY <1>1 DEF AfterRow
<1>2. CASE x.code = "OK" /\ d[n].kind \in Written
  <2> DEFINE p == Target(d, ids, n)
             y == WriteOne(x.table, d[n].kind, p, c.rows[n])
  <2>1. /\ x.table \in Tables /\ p \in People /\ c.rows[n] \in Identity
        /\ d[n].kind \in {"UPDATE", "RESTORE"} => x.table[p] # NoRow
    BY <1>2, Targets DEF RunStates
  <2>2. /\ y = [code |-> y.code, table |-> y.table]
        /\ y.code \in ImportCodes /\ y.table \in Tables
        /\ x.table[p] # NoRow => y.table[p] # NoRow
        /\ \A q \in People \ {p} : y.table[q] = x.table[q]
    BY <1>2, <2>1, WriteOneMoves
  <2>4. AfterRow(c, d, ids, n, x) = y
    BY <1>2 DEF AfterRow
  <2> HIDE DEF y, p
  <2>5. y \in [code : ImportCodes, table : Tables]
    BY <2>2
  <2>6. \A q \in People : whitelist[q] # NoRow => y.table[q] # NoRow
    BY <2>2 DEF RunStates
  <2> QED
    BY <2>4, <2>5, <2>6 DEF RunStates
<1> QED
  BY <1>1, <1>2

\* CarriedOut is the last state of a run that goes on row by row.
LEMMA CarriedOutDefined ==
  ASSUME RowsTyped, NEW c \in ImportCalls, NEW d, DecisionsFit(c, d), NEW ids \in FreshIds(d)
  PROVE  \E f : /\ \A n \in 0..Len(c.rows) : f[n] \in RunStates
                /\ f[0] = [code |-> "OK", table |-> whitelist]
                /\ \A n \in 1..Len(c.rows) : f[n] = AfterRow(c, d, ids, n, f[n - 1])
                /\ CarriedOut(c, d, ids) = f[Len(c.rows)]
<1> DEFINE N == Len(c.rows)
           start == [code |-> "OK", table |-> whitelist]
           st == [n \in 1..N |-> [x \in RunStates |-> AfterRow(c, d, ids, n, x)]]
           IsRun(f) == f = [n \in 0..N |->
                              IF n = 0 THEN start
                              ELSE IF f[n - 1].code # "OK" \/ d[n].kind \notin Written
                              THEN f[n - 1]
                              ELSE WriteOne(f[n - 1].table, d[n].kind,
                                            IF d[n].kind = "CREATE" THEN ids[n] ELSE d[n].person,
                                            c.rows[n])]
<1>0. N \in Nat /\ Len(d) = N
  BY ImportTyped DEF DecisionsFit
<1>1. start \in RunStates
  BY DEF RunStates, RowsTyped, Tables, ImportCodes
<1>2. st \in StepsOver(N, RunStates)
  BY AfterRowState DEF StepsOver
<1>s. \A x \in RunStates, n \in 1..N : st[n][x] = AfterRow(c, d, ids, n, x)
  OBVIOUS
<1>7. CarriedOut(c, d, ids) = (CHOOSE f : IsRun(f))[N]
  BY <1>0 DEF CarriedOut
<1> HIDE DEF st, N, start
<1>3. PICK f : IsRunOf(f, N, RunStates, start, st)
  BY <1>0, <1>1, <1>2, Recursion
<1>4. \A n \in 1..N : f[n] = AfterRow(c, d, ids, n, f[n - 1])
  <2> TAKE n \in 1..N
  <2>1. n - 1 \in 0..N
    BY <1>0
  <2> QED
    BY <1>3, <1>s, <2>1 DEF IsRunOf
<1>5. IsRun(f)
  <2> SUFFICES ASSUME NEW n \in 0..N
               PROVE  f[n] = IF n = 0 THEN start
                             ELSE IF f[n - 1].code # "OK" \/ d[n].kind \notin Written
                             THEN f[n - 1]
                             ELSE WriteOne(f[n - 1].table, d[n].kind,
                                           IF d[n].kind = "CREATE" THEN ids[n] ELSE d[n].person,
                                           c.rows[n])
    BY <1>3 DEF IsRunOf
  <2>1. n # 0 => n \in 1..N
    BY <1>0
  <2> QED
    BY <1>3, <1>4, <2>1 DEF IsRunOf, AfterRow, Target
<1> DEFINE h == CHOOSE g : IsRun(g)
<1>6. IsRun(h)
  BY <1>5, Zenon
<1> HIDE DEF h
<1>8. h[0] = start /\ \A n \in 1..N : h[n] = AfterRow(c, d, ids, n, h[n - 1])
  <2>1. \A n \in 0..N :
          h[n] = IF n = 0 THEN start
                 ELSE IF h[n - 1].code # "OK" \/ d[n].kind \notin Written THEN h[n - 1]
                 ELSE WriteOne(h[n - 1].table, d[n].kind,
                               IF d[n].kind = "CREATE" THEN ids[n] ELSE d[n].person, c.rows[n])
    BY <1>6
  <2>2. 0 \in 0..N /\ \A n \in 1..N : n \in 0..N /\ n # 0
    BY <1>0
  <2> QED
    BY <2>1, <2>2 DEF AfterRow, Target
<1>9. \A n \in 0..N : h[n] \in RunStates
  <2> DEFINE T == {n \in 0..N : h[n] \in RunStates}
  <2>1. 0 \in T
    <3>1. 0 \in 0..N /\ h[0] \in RunStates
      BY <1>0, <1>1, <1>8
    <3> QED
      BY <3>1
  <2>2. ASSUME NEW n \in 0..N-1, n \in T PROVE n + 1 \in T
    <3>1. n + 1 \in 1..N /\ (n + 1) - 1 = n /\ n + 1 \in 0..N /\ h[n] \in RunStates
      BY <1>0, <2>2
    <3>2. h[n + 1] \in RunStates
      BY <1>8, <3>1, AfterRowState DEF N
    <3> QED
      BY <3>1, <3>2
  <2> HIDE DEF T
  <2>3. \A n \in 0..N : n \in T
    BY <1>0, <2>1, <2>2, UpTo
  <2> QED
    BY <2>3 DEF T
<1> QED
  BY <1>7, <1>8, <1>9 DEF N, start, h

-----------------------------------------------------------------------------
(* What an import does *)

\* A whole transaction that commits moves every row as an import may, and leaves
\* each row that its decisions write as asked; one that fails has an error.
LEMMA CarriedOutMoves ==
  ASSUME RowsTyped, NEW c \in ImportCalls, NEW d, DecisionsFit(c, d), NEW ids \in FreshIds(d)
  PROVE  LET result == CarriedOut(c, d, ids)
         IN  /\ result.code \in ImportCodes /\ result.table \in Tables
             /\ \A p \in People : ImportMoves(whitelist[p], result.table[p])
             /\ result.code = "OK" =>
                  \A i \in WrittenRows(d) :
                    LET p == Target(d, ids, i)
                    IN  /\ p \in People
                        /\ result.table[p] # NoRow /\ ~result.table[p].deleted
                        /\ result.table[p].email = c.rows[i].email
                        /\ result.table[p].number = c.rows[i].number
<1> DEFINE N == Len(c.rows)
           AsAsked(t, i) ==
             LET p == Target(d, ids, i)
             IN  /\ t[p] # NoRow /\ ~t[p].deleted
                 /\ t[p].email = c.rows[i].email /\ t[p].number = c.rows[i].number
           Good(x, n) ==
             /\ \A p \in People : ImportMoves(whitelist[p], x.table[p])
             /\ \A m \in 1..N : m > n /\ d[m].kind = "CREATE" => x.table[Target(d, ids, m)] = NoRow
             /\ x.code = "OK" => \A i \in 1..n : d[i].kind \in Written => AsAsked(x.table, i)
<1>0. N \in Nat /\ DOMAIN d = 1..N
  BY ImportTyped DEF DecisionsFit
<1> PICK f : /\ \A n \in 0..N : f[n] \in RunStates
             /\ f[0] = [code |-> "OK", table |-> whitelist]
             /\ \A n \in 1..N : f[n] = AfterRow(c, d, ids, n, f[n - 1])
             /\ CarriedOut(c, d, ids) = f[N]
  BY CarriedOutDefined
<1> DEFINE T == {n \in 0..N : Good(f[n], n)}
<1>1. 0 \in T
  <2>1. f[0].code = "OK" /\ f[0].table = whitelist
    OBVIOUS
  <2>2. \A p \in People : ImportMoves(whitelist[p], f[0].table[p])
    BY <2>1 DEF ImportMoves
  <2>3. \A m \in 1..N : d[m].kind = "CREATE" => f[0].table[Target(d, ids, m)] = NoRow
    BY <2>1, Targets DEF Written
  <2>4. \A i \in 1..0 : FALSE
    OBVIOUS
  <2>5. Good(f[0], 0)
    BY <2>2, <2>3, <2>4
  <2> HIDE DEF Good
  <2> QED
    BY <1>0, <2>5
<1>2. ASSUME NEW n \in 0..N-1, n \in T PROVE n + 1 \in T
  <2> DEFINE m == n + 1
             x == f[n]
             y == f[m]
  <2>1. m \in 1..N /\ m - 1 = n /\ m \in 0..N /\ n \in 0..N /\ \A k \in 1..m : k \in 1..n \/ k = m
    BY <1>0
  <2>2. Good(x, n) /\ x \in RunStates /\ y \in RunStates /\ y = AfterRow(c, d, ids, m, x)
    BY <1>2, <2>1
  <2>m. \A k \in 1..N : k > m => k > n /\ k # m
    BY <1>0
  <2>w. m > n
    BY <1>0
  <2> HIDE DEF m, x, y
  <2>3. CASE x.code # "OK"
    <3>1. y = x
      BY <2>2, <2>3 DEF AfterRow
    <3>2. Good(y, m)
      BY <2>2, <2>3, <2>m, <3>1
    <3> QED
      BY <2>1, <3>2 DEF m, y
  <2>4. CASE x.code = "OK" /\ d[m].kind \notin Written
    <3>1. y = x
      BY <2>2, <2>4 DEF AfterRow
    <3>2. \A i \in 1..m : d[i].kind \in Written => AsAsked(y.table, i)
      BY <2>1, <2>2, <2>4, <3>1
    <3>3. Good(y, m)
      BY <2>2, <2>m, <3>1, <3>2
    <3> QED
      BY <2>1, <3>3 DEF m, y
  <2>5. CASE x.code = "OK" /\ d[m].kind \in Written
    <3> DEFINE p == Target(d, ids, m)
    <3>1. /\ p \in People /\ c.rows[m] \in Identity
          /\ d[m].kind \in {"UPDATE", "RESTORE"} => whitelist[p] # NoRow
          /\ \A k \in 1..N : k # m /\ d[k].kind \in Written => Target(d, ids, k) # p /\ Target(d, ids, k) \in People
      BY <2>1, <2>5, Targets
    <3>2. y = WriteOne(x.table, d[m].kind, p, c.rows[m])
      BY <2>2, <2>5 DEF AfterRow
    <3>3. d[m].kind = "CREATE" => x.table[p] = NoRow
      BY <2>1, <2>2, <2>w
    <3>t. x.table \in Tables /\ y.table \in Tables /\ (whitelist[p] # NoRow => x.table[p] # NoRow)
      BY <2>2, <3>1 DEF RunStates
    <3>4. /\ ImportMoves(x.table[p], y.table[p])
          /\ \A q \in People \ {p} : y.table[q] = x.table[q]
          /\ y.code = "OK" => AsAsked(y.table, m)
      BY <2>5, <3>1, <3>2, <3>3, <3>t, WriteOneMoves
    <3> HIDE DEF p, AsAsked
    <3>5. ASSUME NEW q \in People PROVE ImportMoves(whitelist[q], y.table[q])
      <4>1. ImportMoves(whitelist[q], x.table[q])
        BY <2>2
      <4>2. CASE q = p
        <5>1. whitelist[p] \in WhitelistRow \cup {NoRow} /\ x.table[p] \in WhitelistRow \cup {NoRow}
          BY <3>1, <3>t DEF RowsTyped, Tables
        <5> QED
          BY <3>4, <4>1, <4>2, <5>1, ImportMovesAdd
      <4>3. CASE q # p
        BY <3>4, <4>1, <4>3
      <4> QED
        BY <4>2, <4>3
    <3>6. ASSUME NEW k \in 1..N, k > m, d[k].kind = "CREATE"
          PROVE  y.table[Target(d, ids, k)] = NoRow
      <4>1. k > n /\ k # m
        BY <2>m, <3>6
      <4>2. x.table[Target(d, ids, k)] = NoRow
        BY <2>2, <3>6, <4>1
      <4> QED
        BY <3>1, <3>4, <3>6, <4>1, <4>2 DEF Written
    <3>7. ASSUME y.code = "OK", NEW i \in 1..m, d[i].kind \in Written
          PROVE  AsAsked(y.table, i)
      <4>1. CASE i = m
        BY <3>4, <3>7, <4>1
      <4>2. CASE i # m
        <5>1. i \in 1..n /\ i \in 1..N
          BY <2>1, <4>2 DEF m
        <5>2. AsAsked(x.table, i)
          BY <2>2, <2>5, <3>7, <5>1
        <5>3. y.table[Target(d, ids, i)] = x.table[Target(d, ids, i)]
          BY <3>1, <3>4, <3>7, <4>2, <5>1
        <5> QED
          BY <5>2, <5>3 DEF AsAsked
      <4> QED
        BY <4>1, <4>2
    <3>8. Good(y, m)
      BY <3>5, <3>6, <3>7
    <3> HIDE DEF Good
    <3> QED
      BY <2>1, <3>8 DEF m, y
  <2> QED
    BY <2>3, <2>4, <2>5
<1> HIDE DEF T
<1>3. \A n \in 0..N : n \in T
  BY <1>0, <1>1, <1>2, UpTo
<1>4. N \in T /\ f[N] \in RunStates
  BY <1>0, <1>3
<1>5. Good(f[N], N) /\ f[N].code \in ImportCodes /\ f[N].table \in Tables
  BY <1>4 DEF T, RunStates
<1>6. \A i \in WrittenRows(d) : i \in 1..N /\ d[i].kind \in Written /\ Target(d, ids, i) \in People
  BY <1>0, Targets DEF WrittenRows
<1> QED
  BY <1>5, <1>6

\* What the step of an import leaves (ImportPeople).
LEMMA ImportWrites ==
  ASSUME RowsTyped, NEW r \in Slots, call[r] \in ImportCalls, DecisionsFit(call[r], plan[r]),
         ImportPeople(r)
  PROVE  \E code \in ImportCodes :
           /\ Respond(r, Answered(code))
           /\ RowsTyped' /\ \A p \in People : ImportMoves(whitelist[p], whitelist'[p])
           /\ code # "OK" => whitelist' = whitelist
           /\ code = "OK" =>
                \A i \in WrittenRows(plan[r]) : \E p \in People :
                  /\ whitelist'[p] # NoRow /\ ~whitelist'[p].deleted
                  /\ whitelist'[p].email = call[r].rows[i].email
                  /\ whitelist'[p].number = call[r].rows[i].number
<1> PICK ids \in FreshIds(plan[r]) :
      LET result == CarriedOut(call[r], plan[r], ids)
      IN  whitelist' = Committed(result) /\ Respond(r, Answered(result.code))
  BY DEF ImportPeople
<1> DEFINE result == CarriedOut(call[r], plan[r], ids)
<1>1. /\ result.code \in ImportCodes /\ result.table \in Tables
      /\ \A p \in People : ImportMoves(whitelist[p], result.table[p])
      /\ result.code = "OK" =>
           \A i \in WrittenRows(plan[r]) : \E p \in People :
             /\ result.table[p] # NoRow /\ ~result.table[p].deleted
             /\ result.table[p].email = call[r].rows[i].email
             /\ result.table[p].number = call[r].rows[i].number
  BY CarriedOutMoves
<1>2. whitelist' = IF result.code = "OK" THEN result.table ELSE whitelist
  BY DEF Committed
<1>3. Respond(r, Answered(result.code))
  OBVIOUS
<1> HIDE DEF result
<1>4. CASE result.code = "OK"
  BY <1>1, <1>2, <1>3, <1>4 DEF RowsTyped, Tables
<1>5. CASE result.code # "OK"
  BY <1>1, <1>2, <1>3, <1>5 DEF RowsTyped, ImportMoves
<1> QED
  BY <1>4, <1>5

-----------------------------------------------------------------------------
(* The decisions fit the tables *)

\* A finite set with a member and no two of them.
LEMMA OnlyOne ==
  ASSUME NEW S, IsFiniteSet(S), NEW p \in S, ~ (Cardinality(S) > 1)
  PROVE  S = {p}
<1>1. Cardinality(S) \in Nat /\ Cardinality(S) # 0
  BY FS_CardinalityType, FS_EmptySet
<1>2. Cardinality(S) = 1
  BY <1>1
<1>3. \E q : S = {q}
  BY <1>2, FS_Singleton
<1> QED
  BY <1>3

\* A row that is to be written is nobody's, or that of the one person whom the
\* decision names, in a state in which the write is allowed.
Exact(d, row) ==
  /\ d.kind = "CREATE" => HolderOf(row.email, row.number) = {}
  /\ d.kind \in {"UPDATE", "RESTORE"} => HolderOf(row.email, row.number) = {d.person}
  /\ d.kind = "UPDATE" =>
       /\ IsOpen(whitelist[d.person])
       /\ whitelist[d.person].status \in {"PENDING", "FAILED", "EXPIRED"}
  /\ d.kind = "RESTORE" =>
       /\ whitelist[d.person].deleted /\ whitelist[d.person].user = NoRow
       /\ whitelist[d.person].status # "ACCEPTED"

\* A row that is to be written shares nothing with an earlier one.
Unlike(c, n, kind, earlier) ==
  kind \in Written =>
    \A j \in DOMAIN earlier :
      earlier[j].kind \in Written => ~Shares(c.rows[j], c.rows[n])

\* One decision names the only holder (importUsers, the loop over the rows).
LEMMA DecisionExact ==
  ASSUME RowsTyped, NEW c \in ImportCalls, NEW n \in 1..Len(c.rows), NEW earlier
  PROVE  LET d == DecisionFor(c, c.rows[n], earlier)
         IN  Exact(d, c.rows[n]) /\ Unlike(c, n, d.kind, earlier)
<1> DEFINE row == c.rows[n]
           taken == HolderOf(row.email, row.number)
           p == CHOOSE q \in taken : TRUE
           k == KindFor(p, row)
           repeated == \E j \in DOMAIN earlier :
                         /\ earlier[j].kind \notin {"INVALID", "DUPLICATE"}
                         /\ Shares(c.rows[j], row)
           d == DecisionFor(c, row, earlier)
<1>1. IsFiniteSet(taken)
  <2>1. taken \subseteq People
    BY DEF HolderOf
  <2> QED
    BY <2>1, FinitePeople, FS_Subset
<1>2. \/ d.kind \in {"INVALID", "DUPLICATE", "TAKEN"}
      \/ d.kind = "CREATE" /\ taken = {} /\ ~repeated
      \/ d = [kind |-> k, person |-> p] /\ taken # {} /\ ~ (Cardinality(taken) > 1) /\ ~repeated
  <2> HIDE DEF taken, p, k, repeated
  <2>1. d = IF row = InvalidRow THEN [kind |-> "INVALID", person |-> NoRow]
            ELSE IF repeated THEN [kind |-> "DUPLICATE", person |-> NoRow]
            ELSE IF IsMember(row.email, row.number) \/ Cardinality(taken) > 1
            THEN [kind |-> "TAKEN", person |-> NoRow]
            ELSE IF taken = {} THEN [kind |-> "CREATE", person |-> NoRow]
            ELSE IF c.policy = "UPDATE" /\ NotYetTargeted(p, earlier)
            THEN [kind |-> k, person |-> p]
            ELSE [kind |-> "TAKEN", person |-> p]
    BY DEF DecisionFor, taken, p, k, repeated
  <2> HIDE DEF d, row
  <2> QED
    BY <2>1
<1>3. taken # {} /\ ~ (Cardinality(taken) > 1) => taken = {p}
  <2> HIDE DEF taken
  <2>1. taken # {} => p \in taken
    OBVIOUS
  <2> QED
    BY <1>1, <2>1, OnlyOne
<1>4. /\ k \in {"RESTORE", "UPDATE", "TAKEN"}
      /\ k = "RESTORE" =>
           whitelist[p].deleted /\ whitelist[p].user = NoRow /\ whitelist[p].status # "ACCEPTED"
      /\ k = "UPDATE" =>
           IsOpen(whitelist[p]) /\ whitelist[p].status \in {"PENDING", "FAILED", "EXPIRED"}
  <2> HIDE DEF p, row
  <2> QED
    BY DEF KindFor
<1>5. ~repeated => \A j \in DOMAIN earlier : earlier[j].kind \in Written => ~Shares(c.rows[j], row)
  BY DEF Written
<1> HIDE DEF p, k, repeated, d, taken
<1>6. CASE d.kind \in {"INVALID", "DUPLICATE", "TAKEN"}
  BY <1>6 DEF Exact, Unlike, Written, d
<1>7. CASE d.kind = "CREATE" /\ taken = {} /\ ~repeated
  BY <1>5, <1>7 DEF Exact, Unlike, d, taken
<1>8. CASE d = [kind |-> k, person |-> p] /\ taken # {} /\ ~ (Cardinality(taken) > 1) /\ ~repeated
  <2>1. d.kind = k /\ d.person = p
    BY <1>8
  <2>2. Exact(d, row)
    BY <1>3, <1>4, <1>8, <2>1 DEF Exact, taken
  <2>3. Unlike(c, n, d.kind, earlier)
    BY <1>5, <1>8 DEF Unlike
  <2> QED
    BY <2>2, <2>3 DEF d, row
<1> QED
  BY <1>2, <1>6, <1>7, <1>8

\* The decisions about a list name the only holders of its rows, and no two rows
\* that are to be written share an address or a number.
DecisionsExact(c, d) ==
  /\ \A i \in 1..Len(c.rows) : Exact(d[i], c.rows[i])
  /\ \A i, j \in 1..Len(c.rows) :
       i # j /\ d[i].kind \in Written /\ d[j].kind \in Written => ~Shares(c.rows[i], c.rows[j])

\* What DecisionExact says of one decision holds of a whole list.
LEMMA AllDecisionsExact ==
  ASSUME RowsTyped, NEW c \in ImportCalls
  PROVE  DecisionsExact(c, Decisions(c))
<1> DEFINE N == Len(c.rows)
           Good(d, k) ==
             /\ d \in Seq(Decision) /\ Len(d) = k
             /\ \A i \in 1..k : Exact(d[i], c.rows[i])
             /\ \A i, j \in 1..k :
                  i < j /\ d[i].kind \in Written /\ d[j].kind \in Written
                  => ~Shares(c.rows[i], c.rows[j])
<1>0. N \in Nat
  BY ImportTyped
<1> PICK f \in [0..N -> Seq(Decision)] :
      /\ f[0] = <<>> /\ Decisions(c) = f[N]
      /\ \A n \in 1..N : f[n] = Append(f[n - 1], DecisionFor(c, c.rows[n], f[n - 1]))
  BY DecisionsDefined
<1> DEFINE T == {n \in 0..N : Good(f[n], n)}
<1>1. 0 \in T
  <2>1. 0 \in 0..N /\ f[0] \in Seq(Decision) /\ Len(f[0]) = 0
    BY <1>0
  <2>2. \A i \in 1..0 : FALSE
    OBVIOUS
  <2>3. Good(f[0], 0)
    BY <2>1, <2>2
  <2> HIDE DEF Good
  <2> QED
    BY <2>1, <2>3
<1>2. ASSUME NEW n \in 0..N-1, n \in T PROVE n + 1 \in T
  <2> DEFINE m == n + 1
             e == f[n]
             x == DecisionFor(c, c.rows[m], e)
  <2>1. m \in 1..N /\ m - 1 = n /\ m \in 0..N /\ n \in Nat
    BY <1>0
  <2>2. Good(e, n)
    BY <1>2
  <2>3. f[m] = Append(e, x)
    BY <2>1
  <2>4. Exact(x, c.rows[m]) /\ Unlike(c, m, x.kind, e)
    BY <2>1, DecisionExact
  <2>d. x \in Decision
    BY <2>1, DecisionFits DEF Fits
  <2> HIDE DEF x, e
  <2>5. /\ f[m] \in Seq(Decision) /\ Len(f[m]) = m /\ f[m][m] = x
        /\ \A i \in 1..n : f[m][i] = e[i]
    <3>1. e \in Seq(Decision) /\ Len(e) = n /\ x \in Decision
      BY <2>2, <2>d
    <3>2. Append(e, x) \in Seq(Decision) /\ Len(Append(e, x)) = n + 1 /\ Append(e, x)[n + 1] = x
      BY <3>1
    <3>3. \A i \in 1..n : Append(e, x)[i] = e[i]
      BY <3>1
    <3> QED
      BY <2>3, <3>2, <3>3
  <2>6. \A i \in 1..m : i \in 1..n \/ i = m
    BY <2>1
  <2>7. \A i \in 1..m : Exact(f[m][i], c.rows[i])
    BY <2>2, <2>4, <2>5, <2>6
  <2>8. ASSUME NEW i \in 1..m, NEW j \in 1..m, i < j,
               f[m][i].kind \in Written, f[m][j].kind \in Written
        PROVE  ~Shares(c.rows[i], c.rows[j])
    <3>1. i \in 1..n /\ f[m][i] = e[i]
      <4>1. i \in 1..n
        BY <2>1, <2>8
      <4> QED
        BY <2>5, <4>1
    <3>2. CASE j \in 1..n
      BY <2>2, <2>5, <2>8, <3>1, <3>2
    <3>3. CASE j = m
      <4>1. i \in DOMAIN e
        BY <2>2, <3>1
      <4> QED
        BY <2>4, <2>5, <2>8, <3>1, <3>3, <4>1 DEF Unlike
    <3> QED
      BY <2>6, <3>2, <3>3
  <2> QED
    BY <2>1, <2>5, <2>7, <2>8
<1> HIDE DEF T
<1>3. \A n \in 0..N : n \in T
  BY <1>0, <1>1, <1>2, UpTo
<1>4. N \in T
  BY <1>0, <1>3
<1>5. ASSUME NEW i \in 1..N, NEW j \in 1..N, i # j,
             Decisions(c)[i].kind \in Written, Decisions(c)[j].kind \in Written
      PROVE  ~Shares(c.rows[i], c.rows[j])
  <2>1. i < j \/ j < i
    BY <1>0, <1>5
  <2> QED
    BY <1>4, <1>5, <2>1 DEF T, Shares
<1> QED
  BY <1>4, <1>5 DEF T, DecisionsExact

-----------------------------------------------------------------------------
(* An import that nothing overtakes *)

\* Nobody but p holds the address or number of identity id in table t.
FreeFor(t, p, id) ==
  \A q \in People \ {p} : t[q] # NoRow => t[q].email # id.email /\ t[q].number # id.number

\* A write goes through if its row is as decided and its identity is free.
LEMMA WriteOneSucceeds ==
  ASSUME NEW w \in Tables, NEW p \in People, NEW kind \in Written, NEW id \in Identity,
         FreeFor(w, p, id),
         kind = "UPDATE" => IsOpen(w[p]) /\ w[p].status \in {"PENDING", "FAILED", "EXPIRED"},
         kind = "RESTORE" => w[p].deleted /\ w[p].user = NoRow /\ w[p].status # "ACCEPTED"
  PROVE  WriteOne(w, kind, p, id).code = "OK"
<1>1. ~EmailIn(w, id.email, p) /\ ~NumberIn(w, id.number, p)
  BY DEF EmailIn, NumberIn, FreeFor, Tables
<1>2. kind = "CREATE" \/ kind = "UPDATE" \/ kind = "RESTORE"
  BY DEF Written
<1> QED
  BY <1>1, <1>2 DEF WriteOne

\* Row n of table t is as the import asks, where its decision puts it.
AsAsked(c, d, ids, t, n) ==
  LET p == Target(d, ids, n)
  IN  /\ t[p] # NoRow /\ ~t[p].deleted
      /\ t[p].email = c.rows[n].email /\ t[p].number = c.rows[n].number

\* Table t after the rows S of an import: theirs are written and no other.
WrittenSoFar(c, d, ids, t, S) ==
  /\ \A i \in S : d[i].kind \in Written => AsAsked(c, d, ids, t, i)
  /\ \A q \in People :
       (\A i \in S : d[i].kind \in Written => Target(d, ids, i) # q) => t[q] = whitelist[q]

\* While rows are written, those that are left stay free for the others.
LEMMA StaysFree ==
  ASSUME RowsTyped, NEW c \in ImportCalls, NEW d, DecisionsFit(c, d), DecisionsExact(c, d),
         NEW ids \in FreshIds(d), NEW S \in SUBSET (1..Len(c.rows)), NEW t \in Tables,
         WrittenSoFar(c, d, ids, t, S), NEW n \in 1..Len(c.rows), d[n].kind \in Written
  PROVE  FreeFor(t, Target(d, ids, n), c.rows[n])
<1> DEFINE p == Target(d, ids, n)
           id == c.rows[n]
<1>1. /\ p \in People
      /\ HolderOf(id.email, id.number) \subseteq {p}
  <2>1. Exact(d[n], id)
    BY DEF DecisionsExact
  <2>2. d[n].kind = "CREATE" \/ d[n].kind \in {"UPDATE", "RESTORE"}
    BY DEF Written
  <2>3. d[n].kind \in {"UPDATE", "RESTORE"} => d[n].person = p
    BY DEF Target
  <2> HIDE DEF p, id
  <2>4. HolderOf(id.email, id.number) \subseteq {p}
    BY <2>1, <2>2, <2>3 DEF Exact
  <2> QED
    BY <2>4, Targets DEF p
<1>2. \A q \in People \ {p} :
        whitelist[q] # NoRow => whitelist[q].email # id.email /\ whitelist[q].number # id.number
  <2> HIDE DEF p, id
  <2> QED
    BY <1>1 DEF HolderOf
<1>3. ASSUME NEW q \in People \ {p}, t[q] # NoRow
      PROVE  t[q].email # id.email /\ t[q].number # id.number
  <2>1. CASE \E i \in S : d[i].kind \in Written /\ Target(d, ids, i) = q
    <3> PICK i \in S : d[i].kind \in Written /\ Target(d, ids, i) = q
      BY <2>1
    <3>1. t[q].email = c.rows[i].email /\ t[q].number = c.rows[i].number
      BY DEF WrittenSoFar, AsAsked
    <3>2. i # n /\ i \in 1..Len(c.rows)
      BY <1>3
    <3>3. ~Shares(c.rows[i], id)
      BY <3>2 DEF DecisionsExact
    <3> QED
      BY <3>1, <3>3 DEF Shares
  <2>2. CASE ~ \E i \in S : d[i].kind \in Written /\ Target(d, ids, i) = q
    <3>1. t[q] = whitelist[q]
      BY <2>2 DEF WrittenSoFar
    <3> QED
      BY <1>2, <1>3, <3>1
  <2> QED
    BY <2>1, <2>2
<1> QED
  BY <1>3 DEF FreeFor

\* One row of the transaction.
LEMMA NextRowWritten ==
  ASSUME RowsTyped, NEW c \in ImportCalls, NEW d, DecisionsFit(c, d), DecisionsExact(c, d),
         NEW ids \in FreshIds(d), NEW n \in 1..Len(c.rows), NEW x \in RunStates, x.code = "OK",
         WrittenSoFar(c, d, ids, x.table, 1..n-1)
  PROVE  LET y == AfterRow(c, d, ids, n, x)
         IN  y.code = "OK" /\ WrittenSoFar(c, d, ids, y.table, 1..n)
<1> DEFINE y == AfterRow(c, d, ids, n, x)
           p == Target(d, ids, n)
           w == x.table
           id == c.rows[n]
<1>0. /\ n \in Nat /\ 1..n-1 \subseteq 1..Len(c.rows) /\ w \in Tables
      /\ \A i \in 1..n : i \in 1..n-1 \/ i = n
      /\ \A i \in 1..n-1 : i # n /\ i \in 1..n
  BY ImportTyped DEF RunStates
<1>1. CASE d[n].kind \notin Written
  <2>1. y = x
    BY <1>1 DEF AfterRow
  <2> HIDE DEF y
  <2>2. WrittenSoFar(c, d, ids, w, 1..n)
    BY <1>0, <1>1 DEF WrittenSoFar
  <2> QED
    BY <2>1, <2>2 DEF y
<1>2. CASE d[n].kind \in Written
  <2>1. /\ p \in People /\ id \in Identity
        /\ d[n].kind \in {"UPDATE", "RESTORE"} => whitelist[p] # NoRow
        /\ \A i \in 1..Len(c.rows) : i # n /\ d[i].kind \in Written => Target(d, ids, i) # p
    BY <1>2, Targets
  <2>2. w[p] = whitelist[p]
    <3>1. \A i \in 1..n-1 : d[i].kind \in Written => Target(d, ids, i) # p
      BY <1>0, <2>1
    <3> QED
      BY <2>1, <3>1 DEF WrittenSoFar
  <2>3. /\ d[n].kind = "UPDATE" =>
             IsOpen(whitelist[p]) /\ whitelist[p].status \in {"PENDING", "FAILED", "EXPIRED"}
        /\ d[n].kind = "RESTORE" =>
             /\ whitelist[p].deleted /\ whitelist[p].user = NoRow
             /\ whitelist[p].status # "ACCEPTED"
    <3>1. Exact(d[n], id)
      BY DEF DecisionsExact
    <3>2. d[n].kind # "CREATE" => d[n].person = p
      BY DEF Target
    <3> HIDE DEF p, id
    <3> QED
      BY <3>1, <3>2 DEF Exact
  <2>4. FreeFor(w, p, id)
    BY <1>0, <1>2, StaysFree
  <2>5. y = WriteOne(w, d[n].kind, p, id)
    BY <1>2 DEF AfterRow
  <2> HIDE DEF y, p, w, id
  <2>6. y.code = "OK"
    BY <1>0, <1>2, <2>1, <2>2, <2>3, <2>4, <2>5, WriteOneSucceeds
  <2>7. /\ \A q \in People \ {p} : y.table[q] = w[q]
        /\ y.table[p] # NoRow /\ ~y.table[p].deleted
        /\ y.table[p].email = id.email /\ y.table[p].number = id.number
    BY <1>0, <1>2, <2>1, <2>2, <2>5, <2>6, WriteOneMoves
  <2>8. ASSUME NEW i \in 1..n, d[i].kind \in Written PROVE AsAsked(c, d, ids, y.table, i)
    <3>1. CASE i = n
      BY <2>7, <3>1 DEF AsAsked, p, id
    <3>2. CASE i \in 1..n-1
      <4>1. Target(d, ids, i) # p /\ Target(d, ids, i) \in People
        BY <1>0, <2>1, <2>8, <3>2, Targets
      <4>2. AsAsked(c, d, ids, w, i)
        BY <2>8, <3>2 DEF WrittenSoFar, w
      <4> QED
        BY <2>7, <4>1, <4>2 DEF AsAsked
    <3> QED
      BY <1>0, <3>1, <3>2
  <2>9. ASSUME NEW q \in People, \A i \in 1..n : d[i].kind \in Written => Target(d, ids, i) # q
        PROVE  y.table[q] = whitelist[q]
    <3>1. q # p
      BY <1>0, <1>2, <2>9 DEF p
    <3>2. w[q] = whitelist[q]
      BY <1>0, <2>9 DEF WrittenSoFar, w
    <3> QED
      BY <2>7, <3>1, <3>2
  <2>10. WrittenSoFar(c, d, ids, y.table, 1..n)
    BY <2>8, <2>9 DEF WrittenSoFar
  <2> QED
    BY <2>6, <2>10 DEF y
<1> QED
  BY <1>1, <1>2

\* A whole transaction that finds the tables as the decisions did commits, and
\* leaves every row it writes on the whitelist once.
LEMMA CarriedOutFits ==
  ASSUME RowsTyped, NEW c \in ImportCalls, NEW ids \in FreshIds(Decisions(c))
  PROVE  LET d == Decisions(c)
             result == CarriedOut(c, d, ids)
         IN  /\ result.code = "OK"
             /\ \A i \in WrittenRows(d) :
                  Cardinality({p \in People :
                    /\ result.table[p] # NoRow /\ ~result.table[p].deleted
                    /\ result.table[p].email = c.rows[i].email
                    /\ result.table[p].number = c.rows[i].number}) = 1
<1> DEFINE N == Len(c.rows)
           d == Decisions(c)
           result == CarriedOut(c, d, ids)
<1>d. DecisionsFit(c, d) /\ DecisionsExact(c, d)
  BY AllDecisionsFit, AllDecisionsExact
<1>i. ids \in FreshIds(d)
  OBVIOUS
<1> HIDE DEF d
<1>0. N \in Nat /\ DOMAIN d = 1..N
  BY <1>d, ImportTyped DEF DecisionsFit
<1> PICK f : /\ \A n \in 0..N : f[n] \in RunStates
             /\ f[0] = [code |-> "OK", table |-> whitelist]
             /\ \A n \in 1..N : f[n] = AfterRow(c, d, ids, n, f[n - 1])
             /\ CarriedOut(c, d, ids) = f[N]
  BY <1>d, <1>i, CarriedOutDefined
<1> DEFINE T == {n \in 0..N : f[n].code = "OK" /\ WrittenSoFar(c, d, ids, f[n].table, 1..n)}
<1>1. 0 \in T
  <2>1. f[0].code = "OK" /\ f[0].table = whitelist /\ \A i \in 1..0 : FALSE
    OBVIOUS
  <2>2. WrittenSoFar(c, d, ids, f[0].table, 1..0)
    BY <2>1 DEF WrittenSoFar
  <2> QED
    BY <1>0, <2>1, <2>2
<1>2. ASSUME NEW n \in 0..N-1, n \in T PROVE n + 1 \in T
  <2> DEFINE m == n + 1
             x == f[n]
  <2>1. m \in 1..N /\ m - 1 = n /\ m \in 0..N /\ n \in 0..N
    BY <1>0
  <2>2. x \in RunStates /\ x.code = "OK" /\ WrittenSoFar(c, d, ids, x.table, 1..n)
    BY <1>2, <2>1
  <2>3. f[m] = AfterRow(c, d, ids, m, x)
    BY <2>1
  <2> HIDE DEF m, x
  <2>4. f[m].code = "OK" /\ WrittenSoFar(c, d, ids, f[m].table, 1..m)
    <3>1. WrittenSoFar(c, d, ids, x.table, 1..m-1)
      BY <2>1, <2>2
    <3> QED
      BY <1>d, <1>i, <2>1, <2>2, <2>3, <3>1, NextRowWritten
  <2> QED
    BY <2>1, <2>4 DEF m
<1> HIDE DEF T
<1>3. \A n \in 0..N : n \in T
  BY <1>0, <1>1, <1>2, UpTo
<1>4. N \in T /\ result = f[N] /\ result \in RunStates
  BY <1>0, <1>3
<1>5. /\ result.code = "OK" /\ result.table \in Tables
      /\ WrittenSoFar(c, d, ids, result.table, 1..N)
  BY <1>4 DEF T, RunStates
<1> HIDE DEF result
<1>6. ASSUME NEW i \in WrittenRows(d)
      PROVE  Cardinality({p \in People :
               /\ result.table[p] # NoRow /\ ~result.table[p].deleted
               /\ result.table[p].email = c.rows[i].email
               /\ result.table[p].number = c.rows[i].number}) = 1
  <2> DEFINE p == Target(d, ids, i)
             S == {q \in People :
                     /\ result.table[q] # NoRow /\ ~result.table[q].deleted
                     /\ result.table[q].email = c.rows[i].email
                     /\ result.table[q].number = c.rows[i].number}
  <2>1. i \in 1..N /\ d[i].kind \in Written
    BY <1>0 DEF WrittenRows
  <2>2. p \in People
    BY <1>d, <1>i, <2>1, Targets
  <2>3. AsAsked(c, d, ids, result.table, i)
    BY <1>5, <2>1 DEF WrittenSoFar
  <2>4. FreeFor(result.table, p, c.rows[i])
    BY <1>d, <1>i, <1>5, <2>1, StaysFree DEF N
  <2>5. S = {p}
    BY <2>2, <2>3, <2>4 DEF AsAsked, FreeFor
  <2> HIDE DEF S, p
  <2>6. Cardinality(S) = 1
    BY <2>5, FS_Singleton
  <2> QED
    BY <2>6 DEF S
<1> QED
  BY <1>5, <1>6 DEF result, d

=============================================================================
