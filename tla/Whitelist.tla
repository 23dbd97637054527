------------------------------ MODULE Whitelist ------------------------------
(***************************************************************************)
(* WhitelistUsersService: administrators put people on the whitelist one   *)
(* by one, correct them and remove them (importing many is the module      *)
(* WhitelistImport).  A removed row stays in the table, keeps its address  *)
(* and number taken, and is restored when the same person is put back.     *)
(* The name of a person is read and written with the student number and    *)
(* not modelled beside it.                                                 *)
(***************************************************************************)
EXTENDS InvitationDatabase, Sequences

CONSTANTS
  WhitelistCalls     \* PATCH, DELETE and POST /admin/whitelist-users sent

VARIABLES
  plan               \* what an import or a creation decided to do

Identity == [email : Emails, number : Numbers]

WhitelistCall ==
       [op : {"update"}, person : People,
        email : Emails \cup {Keep}, number : Numbers \cup {Keep}]
  \cup [op : {"remove"}, person : People]
  \cup [op : {"create"}, email : Emails, number : Numbers]

\* What became of one person of a request.
Kinds == {"CREATE", "UPDATE", "RESTORE", "TAKEN", "DUPLICATE", "INVALID"}

Decision == [kind : Kinds, person : People \cup {NoRow}]

WhitelistCodes ==
  {"OK", "W400_NO_CHANGES", "W404_WHITELIST_USER_NOT_FOUND", "W409_ACCEPTED",
   "W409_WHITELIST_USER_NOT_EDITABLE", "W409_EMAIL", "U409_EMAIL",
   "W409_STUDENT_NUMBER", "U409_STUDENT_NUMBER", "W409_UPDATE_CONFLICT",
   "W409_DELETE_CONFLICT", "W409_DUPLICATE", "W409_RESTORE_CONFLICT"}

ASSUME WhitelistAssumption ==
  /\ WhitelistCalls \subseteq WhitelistCall
  /\ NoCall \notin WhitelistCalls
  /\ Keep \notin Emails \cup Numbers

WhitelistInit == plan = [r \in Slots |-> <<>>]

WhitelistTypeOK == plan \in [Slots -> Seq(Decision)]

-----------------------------------------------------------------------------
(* Correction and removal *)

Chosen(new, old) == IF new = Keep THEN old ELSE new

\* The identity that update c would leave on row.
Corrected(c, row) ==
  [email |-> Chosen(c.email, row.email), number |-> Chosen(c.number, row.number)]

UpdateRefusal(c, row) ==
  LET next == Corrected(c, row)
  IN  IF row = NoRow \/ row.deleted THEN "W404_WHITELIST_USER_NOT_FOUND"
      ELSE IF row.status = "ACCEPTED" \/ row.user # NoRow
      THEN "W409_WHITELIST_USER_NOT_EDITABLE"
      ELSE IF next.email = row.email /\ next.number = row.number
      THEN "W400_NO_CHANGES"
      ELSE IF next.email # row.email /\ EmailIn(whitelist, next.email, c.person)
      THEN "W409_EMAIL"
      ELSE IF next.email # row.email /\ EmailIn(users, next.email, NoRow)
      THEN "U409_EMAIL"
      ELSE IF next.number # row.number /\ NumberIn(whitelist, next.number, c.person)
      THEN "W409_STUDENT_NUMBER"
      ELSE IF next.number # row.number /\ NumberIn(users, next.number, NoRow)
      THEN "U409_STUDENT_NUMBER"
      ELSE "none"

RemovalRefusal(row) ==
  IF row = NoRow \/ row.deleted THEN "W404_WHITELIST_USER_NOT_FOUND"
  ELSE IF row.status = "ACCEPTED" \/ row.user # NoRow THEN "W409_ACCEPTED"
  ELSE "none"

\* An update or a removal reads its row and checks what it read.
ReceiveChange(r, c) ==
  LET row == whitelist[c.person]
      refusal == IF c.op = "update" THEN UpdateRefusal(c, row)
                 ELSE RemovalRefusal(row)
  IN  /\ c.op \in {"update", "remove"}
      /\ \/ /\ refusal # "none"
            /\ ReceiveAndRespond(r, c, refusal)
            /\ UNCHANGED rowRead
         \/ /\ refusal = "none"
            /\ Receive(r, c, "write")
            /\ rowRead' = [rowRead EXCEPT ![r] = row]
      /\ UNCHANGED <<joinVars, plan>>

\* A new address ends the links that were sent to the old one.
RevokedByUpdate(r) ==
  LET c == call[r]
  IN  IF Corrected(c, rowRead[r]).email # rowRead[r].email
      THEN ActiveLinks(c.person) ELSE {}

\* The write of an update, on condition that the row is the one read.
UpdatePerson(r) ==
  LET c    == call[r]
      row  == whitelist[c.person]
      next == Corrected(c, rowRead[r])
      asRead == /\ IsOpen(row) /\ row.status # "ACCEPTED"
                /\ row.version = rowRead[r].version
      taken  == \/ EmailIn(whitelist, next.email, c.person)
                \/ NumberIn(whitelist, next.number, c.person)
  IN  /\ pc[r] = "write" /\ c \in WhitelistCalls /\ c.op = "update"
      /\ \/ /\ asRead /\ ~taken
            /\ Unlocked(RevokedByUpdate(r))
            /\ whitelist' = [whitelist EXCEPT ![c.person] =
                 Touched([@ EXCEPT !.email = next.email, !.number = next.number])]
            /\ links' = Marked(RevokedByUpdate(r), "REVOKED")
            /\ Respond(r, Answered("OK"))
         \/ /\ ~asRead \/ taken
            /\ Respond(r, Answered(IF asRead THEN "W409_DUPLICATE"
                                   ELSE "W409_UPDATE_CONFLICT"))
            /\ UNCHANGED <<whitelist, links>>
      /\ UNCHANGED <<users, authAccounts, expiring, rowRead, plan>>

\* The write of a removal: whatever the row has become, unless a member's.
RemovePerson(r) ==
  LET p   == call[r].person
      row == whitelist[p]
  IN  /\ pc[r] = "write" /\ call[r] \in WhitelistCalls /\ call[r].op = "remove"
      /\ \/ /\ IsOpen(row) /\ row.status # "ACCEPTED"
            /\ Unlocked(ActiveLinks(p))
            /\ whitelist' = [whitelist EXCEPT ![p] =
                               Touched([@ EXCEPT !.deleted = TRUE])]
            /\ links' = Marked(ActiveLinks(p), "REVOKED")
            /\ Respond(r, Answered("OK"))
         \/ /\ ~IsOpen(row) \/ row.status = "ACCEPTED"
            /\ Respond(r, Answered("W409_DELETE_CONFLICT"))
            /\ UNCHANGED <<whitelist, links>>
      /\ UNCHANGED <<users, authAccounts, expiring, rowRead, plan>>

-----------------------------------------------------------------------------
(* Creation *)

\* The rows, removed ones too, that hold an address or a number.
HolderOf(email, number) ==
  {p \in People : /\ whitelist[p] # NoRow
                  /\ whitelist[p].email = email \/ whitelist[p].number = number}

\* The removed row with exactly this identity, as a set.
RemovedRow(email, number) ==
  {p \in HolderOf(email, number) :
     /\ whitelist[p].email = email /\ whitelist[p].number = number
     /\ whitelist[p].deleted}

\* How a member who holds the address or number of c stands in its way.  If two
\* members do, either may be found.
MemberRefusals(c) ==
  {IF users[u].email = c.email THEN "U409_EMAIL" ELSE "U409_STUDENT_NUMBER" :
     u \in {u \in Slots : /\ users[u] # NoRow
                          /\ users[u].email = c.email \/ users[u].number = c.number}}

CreationRefusals(c) ==
  IF MemberRefusals(c) # {} THEN MemberRefusals(c)
  ELSE IF RemovedRow(c.email, c.number) # {} THEN {}
  ELSE IF EmailIn(whitelist, c.email, NoRow) THEN {"W409_EMAIL"}
  ELSE IF NumberIn(whitelist, c.number, NoRow) THEN {"W409_STUDENT_NUMBER"}
  ELSE {}

\* A creation looks for the person before its transaction, and decides there
\* whether to restore a removed row.
ReceiveCreation(r, c) ==
  /\ c.op = "create"
  /\ \/ /\ \E code \in CreationRefusals(c) : ReceiveAndRespond(r, c, code)
        /\ UNCHANGED plan
     \/ /\ CreationRefusals(c) = {}
        /\ Receive(r, c, "write")
        /\ \/ /\ RemovedRow(c.email, c.number) = {}
              /\ plan' = [plan EXCEPT ![r] = <<[kind |-> "CREATE", person |-> NoRow]>>]
           \/ \E p \in RemovedRow(c.email, c.number) :
                plan' = [plan EXCEPT ![r] = <<[kind |-> "RESTORE", person |-> p]>>]
  /\ UNCHANGED <<joinVars, rowRead>>

\* A restored row starts over.
Restored(row) ==
  Touched([row EXCEPT !.status = "PENDING", !.deleted = FALSE])

\* Inserts the person, or restores the row that was found.
CreatePerson(r) ==
  LET c == call[r]
  IN  /\ pc[r] = "write" /\ c \in WhitelistCalls /\ c.op = "create"
      /\ \/ /\ plan[r][1].kind = "CREATE"
            /\ \/ /\ HolderOf(c.email, c.number) = {}
                  /\ \E p \in People :
                       /\ whitelist[p] = NoRow
                       /\ whitelist' = [whitelist EXCEPT ![p] =
                                          NewPerson(c.email, c.number)]
                  /\ Respond(r, Answered("OK"))
               \/ /\ HolderOf(c.email, c.number) # {}
                  /\ Respond(r, Answered("W409_DUPLICATE"))
                  /\ UNCHANGED whitelist
         \/ /\ plan[r][1].kind = "RESTORE"
            /\ LET p == plan[r][1].person
                   row == whitelist[p]
               IN  \/ /\ row.deleted /\ row.user = NoRow
                      /\ whitelist' = [whitelist EXCEPT ![p] = Restored(row)]
                      /\ Respond(r, Answered("OK"))
                   \/ /\ ~row.deleted \/ row.user # NoRow
                      /\ Respond(r, Answered("W409_RESTORE_CONFLICT"))
                      /\ UNCHANGED whitelist
      /\ UNCHANGED <<links, users, authAccounts, expiring, rowRead, plan>>

WhitelistNext ==
  \E r \in Slots :
    \/ \E c \in WhitelistCalls : ReceiveChange(r, c) \/ ReceiveCreation(r, c)
    \/ UpdatePerson(r)
    \/ RemovePerson(r)
    \/ CreatePerson(r)

=============================================================================
