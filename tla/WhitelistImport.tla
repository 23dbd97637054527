--------------------------- MODULE WhitelistImport ---------------------------
(***************************************************************************)
(* WhitelistUsersService.importUsers: a list of people is compared with    *)
(* the tables as they are, a decision is made for each, and one            *)
(* transaction carries all of them out or none.  The tables may have       *)
(* changed in between.                                                     *)
(***************************************************************************)
EXTENDS Whitelist, Functions

CONSTANTS
  ImportCalls,       \* POST /admin/whitelist-users/import requests sent
  InvalidRow         \* a row of an import that fails validation

Policies == {"SKIP", "FAIL", "UPDATE"}

ImportCall == [op : {"import"}, policy : Policies,
               rows : Seq(Identity \cup {InvalidRow})]

ImportCodes ==
  {"OK", "W400_IMPORT_INVALID", "W409_IMPORT_DUPLICATE",
   "W409_IMPORT_RESTORE_CONFLICT", "W409_IMPORT_UPDATE_CONFLICT"}

ASSUME WhitelistImportAssumption ==
  /\ \A c \in ImportCalls : c \in ImportCall
  /\ NoCall \notin ImportCalls
  /\ InvalidRow \notin Identity

\* A table has finitely many rows: the holders of an address can be counted.
ASSUME FinitePeople == IsFiniteSet(People)

-----------------------------------------------------------------------------
(* The decisions *)

Written == {"CREATE", "UPDATE", "RESTORE"}

Shares(a, b) == a.email = b.email \/ a.number = b.number

\* What becomes of person p, the only one on the whitelist with the address or
\* number of the row, under policy UPDATE.
KindFor(p, row) ==
  LET held == whitelist[p]
  IN  IF /\ held.deleted /\ held.user = NoRow /\ held.status # "ACCEPTED"
         /\ held.email = row.email /\ held.number = row.number
      THEN "RESTORE"
      ELSE IF IsOpen(held) /\ held.status \in {"PENDING", "FAILED", "EXPIRED"}
      THEN "UPDATE"
      ELSE "TAKEN"

\* Mutant: two rows of a request may decide about the same person.
Untargeted(p, earlier) == TRUE
NotYetTargeted(p, earlier) ==
  \A j \in DOMAIN earlier : earlier[j].kind \in Written => earlier[j].person # p

\* The decision about a row of an import, given those about the earlier rows.
DecisionFor(c, row, earlier) ==
  LET taken == HolderOf(row.email, row.number)
      decide(k, p) == [kind |-> k, person |-> p]
  IN  IF row = InvalidRow THEN decide("INVALID", NoRow)
      ELSE IF \E j \in DOMAIN earlier :
                /\ earlier[j].kind \notin {"INVALID", "DUPLICATE"}
                /\ Shares(c.rows[j], row)
      THEN decide("DUPLICATE", NoRow)
      ELSE IF IsMember(row.email, row.number) \/ Cardinality(taken) > 1
      THEN decide("TAKEN", NoRow)
      ELSE IF taken = {} THEN decide("CREATE", NoRow)
      ELSE LET p == CHOOSE q \in taken : TRUE
           IN  IF c.policy = "UPDATE" /\ NotYetTargeted(p, earlier)
               THEN decide(KindFor(p, row), p)
               ELSE decide("TAKEN", p)

\* The decisions about all rows, in the order of the request.
Decisions(c) ==
  LET upTo[n \in 0..Len(c.rows)] ==
        IF n = 0 THEN <<>>
        ELSE Append(upTo[n - 1], DecisionFor(c, c.rows[n], upTo[n - 1]))
  IN  upTo[Len(c.rows)]

\* Under policy FAIL one unfit row refuses the import.
ImportRefusal(c) ==
  LET kinds == {Decisions(c)[i].kind : i \in DOMAIN c.rows}
  IN  IF c.policy # "FAIL" THEN "none"
      ELSE IF "INVALID" \in kinds THEN "W400_IMPORT_INVALID"
      ELSE IF kinds \cap {"DUPLICATE", "TAKEN"} # {} THEN "W409_IMPORT_DUPLICATE"
      ELSE "none"

\* The rows of an import that its decisions d write.
WrittenRows(d) == {i \in DOMAIN d : d[i].kind \in Written}
CreatedRows(d) == {i \in DOMAIN d : d[i].kind = "CREATE"}

-----------------------------------------------------------------------------
(* Carrying them out *)

\* The ids that the inserted rows may get.
FreshIds(d) ==
  Injection(CreatedRows(d), {p \in People : whitelist[p] = NoRow})

\* Whitelist w after identity id was written to row p as decided, or the error
\* that ends the transaction.
WriteOne(w, kind, p, id) ==
  LET row   == w[p]
      fits  == CASE kind = "CREATE"  -> TRUE
                 [] kind = "RESTORE" -> /\ row.deleted /\ row.user = NoRow
                                        /\ row.status # "ACCEPTED"
                 [] kind = "UPDATE"  -> /\ IsOpen(row)
                                        /\ row.status \in {"PENDING", "FAILED", "EXPIRED"}
      taken == EmailIn(w, id.email, p) \/ NumberIn(w, id.number, p)
      new   == CASE kind = "CREATE"  -> NewPerson(id.email, id.number)
                 [] kind = "RESTORE" -> [Restored(row) EXCEPT
                                          !.email = id.email, !.number = id.number]
                 [] kind = "UPDATE"  -> Touched([row EXCEPT
                                          !.email = id.email, !.number = id.number])
  IN  [code  |-> IF ~fits THEN IF kind = "RESTORE"
                               THEN "W409_IMPORT_RESTORE_CONFLICT"
                               ELSE "W409_IMPORT_UPDATE_CONFLICT"
                 ELSE IF taken THEN "W409_IMPORT_DUPLICATE" ELSE "OK",
       table |-> IF fits /\ ~taken THEN [w EXCEPT ![p] = new] ELSE w]

\* The transaction: the decisions d about the rows of c, in order, until one
\* fails.  An inserted row i gets id ids[i].
CarriedOut(c, d, ids) ==
  LET upTo[n \in 0..Len(d)] ==
        IF n = 0 THEN [code |-> "OK", table |-> whitelist]
        ELSE IF upTo[n - 1].code # "OK" \/ d[n].kind \notin Written
        THEN upTo[n - 1]
        ELSE WriteOne(upTo[n - 1].table, d[n].kind,
                      IF d[n].kind = "CREATE" THEN ids[n] ELSE d[n].person,
                      c.rows[n])
  IN  upTo[Len(d)]

-----------------------------------------------------------------------------

\* An import is refused, has nothing to write, or goes on to its transaction.
ReceiveImport(r, c) ==
  /\ \/ /\ ImportRefusal(c) # "none"
        /\ ReceiveAndRespond(r, c, ImportRefusal(c))
        /\ UNCHANGED plan
     \/ /\ ImportRefusal(c) = "none" /\ WrittenRows(Decisions(c)) = {}
        /\ ReceiveAndRespond(r, c, "OK")
        /\ UNCHANGED plan
     \/ /\ ImportRefusal(c) = "none" /\ WrittenRows(Decisions(c)) # {}
        /\ Receive(r, c, "write")
        /\ plan' = [plan EXCEPT ![r] = Decisions(c)]
  /\ UNCHANGED <<joinVars, rowRead>>

\* Mutant: a decision that no longer fits is passed over.
KeepGoing(result) == result.table
\* What the transaction leaves: all of its writes or none.
Committed(result) == IF result.code = "OK" THEN result.table ELSE whitelist

ImportPeople(r) ==
  /\ pc[r] = "write" /\ call[r] \in ImportCalls
  /\ \E ids \in FreshIds(plan[r]) :
       LET result == CarriedOut(call[r], plan[r], ids)
       IN  /\ whitelist' = Committed(result)
           /\ Respond(r, Answered(result.code))
  /\ UNCHANGED <<links, users, authAccounts, expiring, rowRead, plan>>

ImportNext ==
  \E r \in Slots :
    \/ \E c \in ImportCalls : ReceiveImport(r, c)
    \/ ImportPeople(r)

=============================================================================
