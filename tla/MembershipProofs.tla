-------------------------- MODULE MembershipProofs --------------------------
(***************************************************************************)
(* Joining the association, for any numbers of people and requests and for *)
(* lists of any length.                                                    *)
(*                                                                         *)
(* A handler goes on with a row that it read steps ago, and with a link    *)
(* that others may end.  SlotInv says what such a request may rely on.     *)
(* What one request does to another goes through rows and links alone:     *)
(* Moves collects what every step may do to them, so that each action has  *)
(* to be looked at once, and not once for every part of the invariant.     *)
(***************************************************************************)
EXTENDS Membership, ImportProofs

Waits(s) == s \in {"INVITED", "EXPIRED"}

-----------------------------------------------------------------------------
(* The invariant *)

\* Each label belongs to one kind of call, and only done requests are answered.
Routed(r) ==
  /\ pc[r] \in {"create", "mail"} => call[r] \in InvitationCalls
  /\ pc[r] \in {"expire", "expireRow", "account", "activate", "compensate", "recheck"} =>
       call[r] \in LinkCalls /\ links[call[r].link] # NoRow
  /\ pc[r] = "write" => call[r] \in WhitelistCalls \cup ImportCalls
  /\ pc[r] # "done" => answer[r].code = "none"

\* A row that was read is an earlier version of the row, or the row itself.
EarlierVersion(read, row) ==
  /\ read \in WhitelistRow /\ row # NoRow
  /\ read.version <= row.version
  /\ read.version = row.version => read = row

ChangesOneRow(c) == c \in WhitelistCalls /\ c.op \in {"update", "remove"}

ReadInv(r) ==
  /\ pc[r] \in {"create", "mail"} \/ (pc[r] = "write" /\ ChangesOneRow(call[r])) =>
       EarlierVersion(rowRead[r], whitelist[call[r].person])
  /\ pc[r] \in {"create", "mail"} =>
       IsOpen(rowRead[r]) /\ rowRead[r].status \in StatusesFor(call[r].op)
  /\ pc[r] \in {"account", "activate"} =>
       EarlierVersion(rowRead[r], whitelist[PersonOf(r)])

\* What was decided about rows still names rows that exist.
PlanInv(r) ==
  /\ pc[r] = "write" /\ call[r] \in ImportCalls => DecisionsFit(call[r], plan[r])
  /\ pc[r] = "write" /\ call[r] \in WhitelistCalls /\ call[r].op = "create" =>
       /\ plan[r][1].kind \in {"CREATE", "RESTORE"}
       /\ plan[r][1].kind = "RESTORE" =>
            plan[r][1].person \in People /\ whitelist[plan[r][1].person] # NoRow

\* The link of a request whose mail is on its way: only time can end it without
\* changing the row.
MailInv(r) ==
  pc[r] = "mail" =>
    /\ links[r] # NoRow /\ links[r].address = rowRead[r].email
    /\ whitelist[call[r].person].version = rowRead[r].version =>
         links[r].status = "ACTIVE" \/ links[r].due

\* While the link of a student who joins is active, the row waits for the
\* student; if its address changed it has expired, and only a link whose mail was
\* on its way before the row was read could bring it back.
JoinInv(r) ==
  pc[r] \in {"account", "activate"} /\ links[call[r].link].status = "ACTIVE" =>
    LET l   == call[r].link
        row == whitelist[PersonOf(r)]
    IN  /\ IsOpen(row) /\ Waits(row.status)
        /\ row.email # rowRead[r].email => row.status = "EXPIRED"
        /\ pc[l] = "mail" => rowRead[l].version <= rowRead[r].version

\* The account of a request at the provider.
AccountInv(r) ==
  /\ pc[r] \in {"idle", "create", "mail", "write", "account"} => authAccounts[r] = NoRow
  /\ pc[r] = "activate" => authAccounts[r] = rowRead[r].email
  /\ users[r] # NoRow =>
       /\ pc[r] \in {"compensate", "done"} /\ call[r] \in LinkCalls
       /\ pc[r] = "compensate" => outcome[r] = "unknown"
       /\ authAccounts[r] = users[r].email \/ outcome[r] = "unknown"
  /\ authAccounts[r] # NoRow /\ users[r] = NoRow =>
       \/ pc[r] \in {"activate", "compensate"}
       \/ r \in reported
       \/ answer[r].code = "A503_AUTH_PROVIDER_UNAVAILABLE"

SlotInv(r) ==
  Routed(r) /\ ReadInv(r) /\ PlanInv(r) /\ MailInv(r) /\ JoinInv(r) /\ AccountInv(r)

\* A link was made by a request about the same person, who is on the whitelist.
LinkInv(l) ==
  links[l] # NoRow =>
    /\ pc[l] \in {"mail", "done"} /\ call[l] \in InvitationCalls
    /\ links[l].person = call[l].person /\ whitelist[links[l].person] # NoRow

IsSettled(l) ==
  links[l] # NoRow /\ links[l].status = "ACTIVE" /\ answer[l].code \in {"SENT", "RESENT"}

\* A link that was sent and is in use.
SettledInv ==
  /\ \A l \in Slots : IsSettled(l) =>
       LET row == whitelist[links[l].person]
       IN  /\ IsOpen(row) /\ Waits(row.status)
           /\ row.status = "INVITED" => links[l].address = row.email
  /\ \A l, m \in Slots :
       IsSettled(l) /\ IsSettled(m) /\ links[l].person = links[m].person => l = m

\* Open transactions hold different links, all of them active and overdue.
LockInv ==
  \A r \in Slots :
    /\ pc[r] # "expireRow" => expiring[r] = {}
    /\ \A l \in expiring[r] : links[l] # NoRow /\ links[l].status = "ACTIVE" /\ links[l].due
    /\ \A s \in Slots : s # r => expiring[r] \cap expiring[s] = {}
    /\ \A l \in lapsed[r] : links[l] # NoRow /\ links[l].due

MemberInv ==
  /\ \A p \in People :
       whitelist[p] # NoRow =>
         LET row == whitelist[p]
         IN  /\ row.status = "ACCEPTED" <=> row.user # NoRow
             /\ row.user = NoRow => LinksOf(p, "ACCEPTED") = {}
             /\ row.user # NoRow =>
                  /\ ~row.deleted
                  /\ users[row.user] # NoRow /\ users[row.user].email = row.email
                  /\ LinksOf(p, "ACCEPTED") = {call[row.user].link}
  /\ \A u \in Slots :
       users[u] # NoRow => \E p \in People : whitelist[p] # NoRow /\ whitelist[p].user = u

JoiningInv ==
  /\ MembershipTypeOK
  /\ \A r \in Slots : SlotInv(r)
  /\ \A l \in Slots : LinkInv(l)
  /\ SettledInv /\ LockInv /\ MemberInv

-----------------------------------------------------------------------------
(* What a step may do *)

\* The stages that a row may go through (WhitelistMovesForward).
Forward(old, new) ==
  \/ new.status = old.status
  \/ old.status = "PENDING" /\ new.status \in {"INVITED", "FAILED"}
  \/ old.status \in {"FAILED", "EXPIRED"} /\ new.status = "INVITED"
  \/ old.status = "INVITED" /\ new.status \in {"EXPIRED", "ACCEPTED"}
  \/ old.deleted /\ ~new.deleted /\ new.status = "PENDING"

\* A row is inserted as it starts out; an update moves its version on, and it
\* never vanishes or changes once it is a member's.
RowMoves(old, new) ==
  \/ new = old
  \/ /\ new # NoRow /\ (new.status = "ACCEPTED" <=> new.user # NoRow)
     /\ old = NoRow => new.status = "PENDING"
     /\ old # NoRow =>
          /\ new.version > old.version /\ Forward(old, new)
          /\ old.user = NoRow /\ old.status # "ACCEPTED"

\* A link keeps person and address; one that has ended does not come back.
LinkMoves(old, new) ==
  old # NoRow =>
    /\ new # NoRow /\ new.person = old.person /\ new.address = old.address
    /\ old.due => new.due
    /\ new.status = old.status \/ old.status = "ACTIVE"

\* What happens to a waiting row while one of its links stays active: it is not
\* closed, its address changes only once it has expired, and then only that link
\* itself can bring it back, if its request read the row as it is.
WaitingMoves(old, new, bringsBack) ==
  IsOpen(old) /\ Waits(old.status) =>
    /\ IsOpen(new) /\ Waits(new.status)
    /\ new.email = old.email \/ new.status = "EXPIRED"
    /\ old.status = "EXPIRED" /\ new.status = "INVITED" => new.email = old.email /\ bringsBack

\* What a step of request r does to link l, given its row before and after.
LinkMovesWith(r, l, old, new) ==
  /\ links[l].status = "ACTIVE" /\ links'[l].status = "ACTIVE" =>
       WaitingMoves(old, new, pc[l] = "mail" /\ old.version = rowRead[l].version)
  /\ l # r /\ links[l].status = "ACTIVE" /\ links'[l].status # "ACTIVE" =>
       links'[l].due \/ new # old

LinksMove(r) ==
  \A l \in Slots :
    /\ LinkMoves(links[l], links'[l])
    /\ l # r => (links[l] = NoRow <=> links'[l] = NoRow)
    /\ links[l] # NoRow =>
         LinkMovesWith(r, l, whitelist[links[l].person], whitelist'[links[l].person])

\* A step of request r leaves what the others hold.
Apart(r) ==
  \A s \in Slots \ {r} :
    /\ pc'[s] = pc[s] /\ call'[s] = call[s] /\ answer'[s] = answer[s]
    /\ rowRead'[s] = rowRead[s] /\ plan'[s] = plan[s]
    /\ users'[s] = users[s] /\ authAccounts'[s] = authAccounts[s] /\ outcome'[s] = outcome[s]

\* A step of request r, as the others see it.
Moves(r) ==
  /\ \A p \in People : RowMoves(whitelist[p], whitelist'[p])
  /\ LinksMove(r)
  /\ Apart(r)
  /\ pc'[r] = "mail" => links[r] = NoRow \/ (pc[r] = "mail" /\ rowRead'[r] = rowRead[r])
  /\ reported \subseteq reported'

\* What is shown of every step.
Kept == JoiningInv' /\ \A p \in People : RowMoves(whitelist[p], whitelist'[p])

-----------------------------------------------------------------------------
(* Types *)

LEMMA InvitationTyped ==
  ASSUME NEW c \in InvitationCalls
  PROVE  c \in InvitationCall /\ c.op \in {"send", "resend"} /\ c.person \in People
BY InvitationsAssumption DEF InvitationCall

\* The call of a student, field by field.
LEMMA LinkCallTyped ==
  ASSUME NEW c \in LinkCalls
  PROVE  c \in LinkCall /\ c.op \in {"verify", "complete"} /\ c.link \in Slots
BY EligibilityAssumption DEF LinkCall

\* The call of an administrator about the whitelist, field by field.
LEMMA WhitelistCallTyped ==
  ASSUME NEW c \in WhitelistCalls
  PROVE  /\ c.op \in {"update", "remove", "create"}
         /\ c.op \in {"update", "remove"} => c.person \in People
         /\ c.op = "update" => c.email \in Emails \cup {Keep} /\ c.number \in Numbers \cup {Keep}
         /\ c.op = "create" => c.email \in Emails /\ c.number \in Numbers
BY WhitelistAssumption DEF WhitelistCall

\* A call is of one kind only.
LEMMA CallKinds ==
  /\ \A c \in InvitationCalls : c \notin LinkCalls /\ c \notin WhitelistCalls /\ c \notin ImportCalls
  /\ \A c \in LinkCalls : c \notin WhitelistCalls /\ c \notin ImportCalls
  /\ \A c \in WhitelistCalls : c \notin ImportCalls
  /\ \A c \in MembershipCalls : c # NoCall
<1>1. /\ \A c \in InvitationCalls : c.op \in {"send", "resend"}
      /\ \A c \in LinkCalls : c.op \in {"verify", "complete"}
      /\ \A c \in WhitelistCalls : c.op \in {"update", "remove", "create"}
      /\ \A c \in ImportCalls : c.op = "import"
  BY InvitationTyped, LinkCallTyped, WhitelistCallTyped, ImportTyped
<1>2. \A c \in MembershipCalls : c # NoCall
  BY InvitationsAssumption, EligibilityAssumption, WhitelistAssumption, WhitelistImportAssumption
     DEF MembershipCalls
<1> QED
  BY <1>1, <1>2

\* A row of the whitelist, field by field.
LEMMA RowTyped ==
  ASSUME NEW row \in WhitelistRow
  PROVE  /\ row # NoRow /\ row.version \in Nat /\ row.email \in Emails /\ row.number \in Numbers
         /\ row.status \in InvitationStatuses /\ row.user \in Slots \cup {NoRow}
         /\ row.deleted \in BOOLEAN
BY InvitationDatabaseAssumption DEF WhitelistRow

\* A link, field by field.
LEMMA LinkTyped ==
  ASSUME NEW link \in Link
  PROVE  /\ link # NoRow /\ link.person \in People /\ link.status \in LinkStatuses
         /\ link.address \in Emails /\ link.due \in BOOLEAN
BY InvitationDatabaseAssumption DEF Link

\* No table has NoRow for an id or a value.
LEMMA NoRowIsNoSlot == NoRow \notin Slots /\ NoRow \notin Emails /\ NoRow \notin Account
BY InvitationDatabaseAssumption

\* What the tables hold under an id is NoRow or a row of theirs.
LEMMA TablesTyped ==
  ASSUME InvitationDatabaseTypeOK
  PROVE  /\ RowsTyped
         /\ \A p \in People : whitelist[p] # NoRow => whitelist[p] \in WhitelistRow
         /\ \A l \in Slots : links[l] # NoRow => links[l] \in Link
         /\ \A r \in Slots : rowRead[r] # NoRow => rowRead[r] \in WhitelistRow
         /\ \A r \in Slots : users[r] # NoRow => users[r] \in Account
BY DEF InvitationDatabaseTypeOK, RowsTyped

-----------------------------------------------------------------------------
(* Those that did not move *)

\* What was read stays an earlier version.
LEMMA VersionKept ==
  ASSUME NEW read, NEW old \in WhitelistRow \cup {NoRow}, NEW new \in WhitelistRow \cup {NoRow},
         EarlierVersion(read, old), RowMoves(old, new)
  PROVE  EarlierVersion(read, new)
<1>1. read.version \in Nat /\ old \in WhitelistRow /\ old.version \in Nat
  BY RowTyped DEF EarlierVersion
<1>2. new \in WhitelistRow /\ new.version \in Nat /\ new # NoRow
  BY RowTyped, <1>1 DEF EarlierVersion, RowMoves
<1> QED
  BY <1>1, <1>2 DEF EarlierVersion, RowMoves

\* No step takes a row off the table.
LEMMA RowsStay ==
  ASSUME JoiningInv, NEW r \in Slots, Moves(r), NEW p \in People, whitelist[p] # NoRow
  PROVE  whitelist'[p] # NoRow
BY DEF Moves, RowMoves

\* A step of one request leaves the label of another where it belongs.
LEMMA RoutedKept ==
  ASSUME JoiningInv, NEW r \in Slots, Moves(r), NEW s \in Slots, s # r
  PROVE  Routed(s)'
<1>1. Routed(s) /\ pc'[s] = pc[s] /\ call'[s] = call[s] /\ answer'[s] = answer[s]
  BY DEF JoiningInv, SlotInv, Moves, Apart
<1>2. ASSUME call[s] \in LinkCalls, links[call[s].link] # NoRow
      PROVE  links'[call[s].link] # NoRow
  BY <1>2, LinkCallTyped DEF Moves, LinksMove, LinkMoves
<1> QED
  BY <1>1, <1>2 DEF Routed

\* What a request read stays an earlier version, whoever writes the row.
LEMMA ReadKept ==
  ASSUME JoiningInv, InvitationDatabaseTypeOK', NEW r \in Slots, Moves(r), NEW s \in Slots, s # r
  PROVE  ReadInv(s)'
<1>0. /\ whitelist \in [People -> WhitelistRow \cup {NoRow}]
      /\ whitelist' \in [People -> WhitelistRow \cup {NoRow}]
  BY DEF JoiningInv, MembershipTypeOK, InvitationDatabaseTypeOK
<1>1. /\ Routed(s) /\ ReadInv(s)
      /\ pc'[s] = pc[s] /\ call'[s] = call[s] /\ rowRead'[s] = rowRead[s]
  BY DEF JoiningInv, SlotInv, Moves, Apart
<1>2. ASSUME NEW p \in People, EarlierVersion(rowRead[s], whitelist[p])
      PROVE  EarlierVersion(rowRead[s], whitelist'[p])
  BY <1>0, <1>2, VersionKept DEF Moves
<1>3. call[s] \in InvitationCalls \/ ChangesOneRow(call[s]) => call[s].person \in People
  BY InvitationTyped, WhitelistCallTyped DEF ChangesOneRow
<1>4. ASSUME pc[s] \in {"account", "activate"}
      PROVE  PersonOf(s) \in People /\ PersonOf(s)' = PersonOf(s)
  <2>1. call[s].link \in Slots /\ links[call[s].link] # NoRow
    BY <1>1, <1>4, LinkCallTyped DEF Routed
  <2>2. links[call[s].link] \in Link
    BY <2>1, TablesTyped DEF JoiningInv, MembershipTypeOK
  <2>3. links'[call[s].link].person = links[call[s].link].person
    BY <2>1 DEF Moves, LinksMove, LinkMoves
  <2> QED
    BY <1>1, <2>2, <2>3, LinkTyped DEF PersonOf
<1> QED
  BY <1>1, <1>2, <1>3, <1>4 DEF ReadInv, Routed, EarlierVersion, ChangesOneRow, IsOpen

\* Decisions that wait for their transaction still name rows that exist.
LEMMA PlanKept ==
  ASSUME JoiningInv, NEW r \in Slots, Moves(r), NEW s \in Slots, s # r
  PROVE  PlanInv(s)'
<1>1. PlanInv(s) /\ pc'[s] = pc[s] /\ call'[s] = call[s] /\ plan'[s] = plan[s]
  BY DEF JoiningInv, SlotInv, Moves, Apart
<1>2. \A p \in People : whitelist[p] # NoRow => whitelist'[p] # NoRow
  BY RowsStay
<1>3. ASSUME DecisionsFit(call[s], plan[s])
      PROVE  DecisionsFit(call[s], plan[s])'
  BY <1>1, <1>2, <1>3 DEF DecisionsFit, Fits
<1> QED
  BY <1>1, <1>2, <1>3 DEF PlanInv

\* Another request ends a link that is being mailed only with its row.
LEMMA MailKept ==
  ASSUME JoiningInv, InvitationDatabaseTypeOK', NEW r \in Slots, Moves(r), NEW s \in Slots, s # r
  PROVE  MailInv(s)'
<1>1. /\ Routed(s) /\ ReadInv(s) /\ MailInv(s) /\ LinkInv(s)
      /\ pc'[s] = pc[s] /\ call'[s] = call[s] /\ rowRead'[s] = rowRead[s]
  BY DEF JoiningInv, SlotInv, Moves, Apart
<1>2. SUFFICES ASSUME pc[s] = "mail"
               PROVE  /\ links'[s] # NoRow /\ links'[s].address = rowRead[s].email
                      /\ whitelist'[call[s].person].version = rowRead[s].version =>
                           links'[s].status = "ACTIVE" \/ links'[s].due
  BY <1>1 DEF MailInv
<1> DEFINE p == call[s].person
<1>3. p \in People /\ links[s] # NoRow /\ links[s].person = p
  BY <1>1, <1>2, InvitationTyped DEF Routed, MailInv, LinkInv
<1>4. LinkMoves(links[s], links'[s]) /\ LinkMovesWith(r, s, whitelist[p], whitelist'[p])
  BY <1>3 DEF Moves, LinksMove
<1>5. EarlierVersion(rowRead[s], whitelist[p]) /\ RowMoves(whitelist[p], whitelist'[p])
  BY <1>1, <1>2, <1>3 DEF ReadInv, Moves
<1>6. whitelist[p] \in WhitelistRow /\ whitelist'[p] \in WhitelistRow
  BY <1>3, <1>5, RowTyped DEF JoiningInv, MembershipTypeOK, InvitationDatabaseTypeOK,
       EarlierVersion, RowMoves
<1>7. ASSUME whitelist'[p].version = rowRead[s].version
      PROVE  whitelist'[p] = whitelist[p] /\ whitelist[p].version = rowRead[s].version
  BY <1>5, <1>6, <1>7, RowTyped DEF EarlierVersion, RowMoves
<1>8. links'[s].status = links[s].status \/ links'[s].status # "ACTIVE"
  BY <1>3, <1>4 DEF LinkMoves
<1> QED
  BY <1>1, <1>2, <1>3, <1>4, <1>7, <1>8 DEF MailInv, LinkMoves, LinkMovesWith

\* Another request leaves the row of a student who joins waiting.
LEMMA JoinKept ==
  ASSUME JoiningInv, InvitationDatabaseTypeOK', NEW r \in Slots, Moves(r), NEW s \in Slots, s # r
  PROVE  JoinInv(s)'
<1>1. /\ Routed(s) /\ ReadInv(s) /\ JoinInv(s)
      /\ pc'[s] = pc[s] /\ call'[s] = call[s] /\ rowRead'[s] = rowRead[s]
  BY DEF JoiningInv, SlotInv, Moves, Apart
<1> DEFINE l == call[s].link
           p == PersonOf(s)
<1>2. SUFFICES ASSUME pc[s] \in {"account", "activate"}, links'[l].status = "ACTIVE"
               PROVE  LET row == whitelist'[PersonOf(s)']
                      IN  /\ IsOpen(row) /\ Waits(row.status)
                          /\ row.email # rowRead[s].email => row.status = "EXPIRED"
                          /\ pc'[l] = "mail" => rowRead'[l].version <= rowRead[s].version
  BY <1>1 DEF JoinInv
<1>3. l \in Slots /\ links[l] # NoRow /\ links[l] \in Link
  BY <1>1, <1>2, LinkCallTyped, TablesTyped DEF Routed, JoiningInv, MembershipTypeOK
<1>4. /\ LinkMoves(links[l], links'[l])
      /\ LinkMovesWith(r, l, whitelist[links[l].person], whitelist'[links[l].person])
  BY <1>3 DEF Moves, LinksMove
<1>5. p \in People /\ PersonOf(s)' = p /\ links[l].person = p /\ links[l].status = "ACTIVE"
  BY <1>1, <1>2, <1>3, <1>4, LinkTyped DEF PersonOf, LinkMoves
<1>6. LET row == whitelist[p]
      IN  /\ IsOpen(row) /\ Waits(row.status)
          /\ row.email # rowRead[s].email => row.status = "EXPIRED"
          /\ pc[l] = "mail" => rowRead[l].version <= rowRead[s].version
  BY <1>1, <1>2, <1>5 DEF JoinInv
<1>7. pc'[l] = "mail" => pc[l] = "mail" /\ rowRead'[l] = rowRead[l]
  BY <1>3 DEF Moves, Apart
<1>8. WaitingMoves(whitelist[p], whitelist'[p],
                   pc[l] = "mail" /\ whitelist[p].version = rowRead[l].version)
  BY <1>2, <1>4, <1>5 DEF LinkMovesWith
<1>9. EarlierVersion(rowRead[s], whitelist[p])
  BY <1>1, <1>2 DEF ReadInv
<1>10. ASSUME pc[l] = "mail", whitelist[p].version = rowRead[l].version
       PROVE  rowRead[s] = whitelist[p]
  <2>1. rowRead[s].version \in Nat /\ whitelist[p].version \in Nat
    BY <1>5, <1>9, RowTyped, TablesTyped DEF EarlierVersion, JoiningInv, MembershipTypeOK
  <2> QED
    BY <1>6, <1>9, <1>10, <2>1 DEF EarlierVersion
<1> QED
  BY <1>5, <1>6, <1>7, <1>8, <1>10 DEF WaitingMoves, Waits

\* Another request leaves the account at the provider accounted for.
LEMMA AccountKept ==
  ASSUME JoiningInv, NEW r \in Slots, Moves(r), NEW s \in Slots, s # r
  PROVE  AccountInv(s)'
<1>1. /\ AccountInv(s) /\ reported \subseteq reported'
      /\ pc'[s] = pc[s] /\ call'[s] = call[s] /\ answer'[s] = answer[s]
      /\ rowRead'[s] = rowRead[s] /\ users'[s] = users[s]
      /\ authAccounts'[s] = authAccounts[s] /\ outcome'[s] = outcome[s]
  BY DEF JoiningInv, SlotInv, Moves, Apart
<1> QED
  BY <1>1 DEF AccountInv

\* A link is as it was for everybody, also for the request that made it.
LEMMA LinkKept ==
  ASSUME JoiningInv, NEW r \in Slots, Moves(r), NEW l \in Slots, links[l] # NoRow,
         l # r \/ (call'[l] = call[l] /\ pc'[l] \in {"mail", "done"})
  PROVE  LinkInv(l)'
<1>1. LinkInv(l) /\ LinkMoves(links[l], links'[l])
  BY DEF JoiningInv, Moves, LinksMove
<1>2. pc'[l] \in {"mail", "done"} /\ call'[l] = call[l]
  BY <1>1 DEF Moves, Apart, LinkInv
<1>3. links[l].person \in People
  BY LinkTyped, TablesTyped DEF JoiningInv, MembershipTypeOK
<1> QED
  BY <1>1, <1>2, <1>3, RowsStay DEF LinkInv, LinkMoves

\* A request that did not move may rely on what it relied on.
LEMMA OthersRely ==
  ASSUME JoiningInv, InvitationDatabaseTypeOK', NEW r \in Slots, Moves(r), NEW s \in Slots, s # r
  PROVE  SlotInv(s)' /\ LinkInv(s)'
<1>1. SlotInv(s)'
  BY RoutedKept, ReadKept, PlanKept, MailKept, JoinKept, AccountKept DEF SlotInv
<1>2. LinkInv(s)'
  BY LinkKept DEF Moves, LinksMove, LinkInv
<1> QED
  BY <1>1, <1>2

-----------------------------------------------------------------------------
(* Requests *)

Labels == {"idle", "create", "mail", "expire", "expireRow", "account", "activate",
           "compensate", "recheck", "write", "done"}

RequestTyped ==
  /\ pc \in [Slots -> Labels]
  /\ call \in [Slots -> MembershipCalls \cup {NoCall}]
  /\ attempt = [r \in Slots |-> 1]
  /\ answer \in [Slots -> Answer(MembershipCodes)]

TypedByPart ==
  /\ RequestTyped /\ InvitationDatabaseTypeOK /\ EligibilityTypeOK
  /\ OnboardingTypeOK /\ WhitelistTypeOK

\* The type invariant, split by who changes what.
LEMMA TypeParts == MembershipTypeOK <=> TypedByPart
BY DEF MembershipTypeOK, TypedByPart, RequestTyped, Labels

\* Request r is at label l now, with call c and answer a.
Became(r, l, c, a) ==
  /\ pc'[r] = l /\ call'[r] = c /\ answer'[r] = a
  /\ \A s \in Slots \ {r} : pc'[s] = pc[s] /\ call'[s] = call[s] /\ answer'[s] = answer[s]

\* The codes of each service are among those of the whole.
LEMMA Codes ==
  /\ InvitationCodes \subseteq MembershipCodes /\ LinkCodes \subseteq MembershipCodes
  /\ OnboardingCodes \subseteq MembershipCodes /\ WhitelistCodes \subseteq MembershipCodes
  /\ ImportCodes \subseteq MembershipCodes
BY DEF MembershipCodes, OnboardingCodes

\* An answer with a code of the whole has its type.
LEMMA AnsweredTyped ==
  ASSUME NEW code \in MembershipCodes
  PROVE  Answered(code) \in Answer(MembershipCodes) /\ Answered(code).code = code
BY DEF Answered, Answer

\* Receiving a call changes the fields of one request only.
LEMMA ReceiveBecomes ==
  ASSUME RequestTyped, NEW r \in Slots, NEW c \in MembershipCalls, NEW l \in Labels,
         Receive(r, c, l)
  PROVE  RequestTyped' /\ pc[r] = "idle" /\ Became(r, l, c, answer[r])
<1> DEFINE Calls == MembershipCalls \cup {NoCall}
           Answers == Answer(MembershipCodes)
<1>1. /\ pc \in [Slots -> Labels] /\ call \in [Slots -> Calls] /\ answer \in [Slots -> Answers]
      /\ c \in Calls
  BY DEF RequestTyped
<1> HIDE DEF Calls, Answers
<1>2. /\ pc' \in [Slots -> Labels] /\ call' \in [Slots -> Calls] /\ answer' \in [Slots -> Answers]
      /\ pc[r] = "idle" /\ Became(r, l, c, answer[r])
  BY <1>1 DEF Receive, Became
<1>3. attempt' = attempt
  BY DEF Receive
<1> QED
  BY <1>2, <1>3 DEF RequestTyped, Calls, Answers

\* So does answering it at once,
LEMMA AnswerBecomes ==
  ASSUME RequestTyped, NEW r \in Slots, NEW c \in MembershipCalls, NEW code \in MembershipCodes,
         ReceiveAndRespond(r, c, code)
  PROVE  RequestTyped' /\ pc[r] = "idle" /\ Became(r, "done", c, Answered(code))
<1> DEFINE Calls == MembershipCalls \cup {NoCall}
           Answers == Answer(MembershipCodes)
           a == Answered(code)
<1>1. /\ pc \in [Slots -> Labels] /\ call \in [Slots -> Calls] /\ answer \in [Slots -> Answers]
      /\ c \in Calls /\ a \in Answers /\ "done" \in Labels
  BY AnsweredTyped DEF RequestTyped, Labels
<1>2. /\ pc[r] = "idle" /\ pc' = [pc EXCEPT ![r] = "done"] /\ call' = [call EXCEPT ![r] = c]
      /\ answer' = [answer EXCEPT ![r] = a] /\ attempt' = attempt
  BY DEF ReceiveAndRespond
<1> HIDE DEF Calls, Answers, a
<1>3. /\ pc' \in [Slots -> Labels] /\ call' \in [Slots -> Calls] /\ answer' \in [Slots -> Answers]
      /\ Became(r, "done", c, a)
  BY <1>1, <1>2 DEF Became
<1> QED
  BY <1>2, <1>3 DEF RequestTyped, Calls, Answers, a

\* going on to another step,
LEMMA GotoBecomes ==
  ASSUME RequestTyped, NEW r \in Slots, NEW l \in Labels, Goto(r, l)
  PROVE  RequestTyped' /\ Became(r, l, call[r], answer[r])
<1> DEFINE Calls == MembershipCalls \cup {NoCall}
           Answers == Answer(MembershipCodes)
<1>1. pc \in [Slots -> Labels] /\ call \in [Slots -> Calls] /\ answer \in [Slots -> Answers]
  BY DEF RequestTyped
<1> HIDE DEF Calls, Answers
<1>2. /\ pc' \in [Slots -> Labels] /\ call' \in [Slots -> Calls] /\ answer' \in [Slots -> Answers]
      /\ attempt' = attempt /\ Became(r, l, call[r], answer[r])
  BY <1>1 DEF Goto, Became
<1> QED
  BY <1>2 DEF RequestTyped, Calls, Answers

\* and answering it at last.
LEMMA RespondBecomes ==
  ASSUME RequestTyped, NEW r \in Slots, NEW code \in MembershipCodes, Respond(r, Answered(code))
  PROVE  RequestTyped' /\ Became(r, "done", call[r], Answered(code))
<1> DEFINE Calls == MembershipCalls \cup {NoCall}
           Answers == Answer(MembershipCodes)
           a == Answered(code)
<1>1. /\ pc \in [Slots -> Labels] /\ call \in [Slots -> Calls] /\ answer \in [Slots -> Answers]
      /\ a \in Answers /\ "done" \in Labels
  BY AnsweredTyped DEF RequestTyped, Labels
<1>2. /\ pc' = [pc EXCEPT ![r] = "done"] /\ call' = call
      /\ answer' = [answer EXCEPT ![r] = a] /\ attempt' = attempt
  BY DEF Respond
<1> HIDE DEF Calls, Answers, a
<1>3. /\ pc' \in [Slots -> Labels] /\ call' \in [Slots -> Calls] /\ answer' \in [Slots -> Answers]
      /\ Became(r, "done", call[r], a)
  BY <1>1, <1>2 DEF Became
<1> QED
  BY <1>2, <1>3 DEF RequestTyped, Calls, Answers, a

-----------------------------------------------------------------------------
(* Links that end *)

\* The links of S are no longer active.
Ends(S) ==
  /\ links' \in [Slots -> Link \cup {NoRow}]
  /\ \A l \in Slots \ S : links'[l] = links[l]
  /\ \A l \in S : /\ l \in Slots /\ links[l] # NoRow /\ links[l].status = "ACTIVE"
                  /\ links'[l] # NoRow /\ links'[l].status # "ACTIVE"
                  /\ links'[l].person = links[l].person
                  /\ links'[l].address = links[l].address /\ links'[l].due = links[l].due

\* Links that are left alone do not end.
LEMMA NoneEnd ==
  ASSUME InvitationDatabaseTypeOK, links' = links
  PROVE  Ends({})
BY DEF Ends, InvitationDatabaseTypeOK

\* Marking links that are active ends these and no other.
LEMMA MarkedEnd ==
  ASSUME InvitationDatabaseTypeOK, NEW S, NEW s \in LinkStatuses \ {"ACTIVE"},
         \A l \in S : l \in Slots /\ links[l] # NoRow /\ links[l].status = "ACTIVE",
         links' = Marked(S, s)
  PROVE  Ends(S) /\ \A l \in S : links'[l].status = s
<1>1. ASSUME NEW l \in S
      PROVE  /\ l \in Slots /\ links[l] # NoRow /\ links[l].status = "ACTIVE"
             /\ links'[l] \in Link /\ links'[l] # NoRow /\ links'[l].status = s
             /\ links'[l].person = links[l].person
             /\ links'[l].address = links[l].address /\ links'[l].due = links[l].due
  <2>1. l \in Slots /\ links[l] # NoRow /\ links[l] \in Link
    BY TablesTyped
  <2>2. links'[l] = [links[l] EXCEPT !.status = s]
    BY <2>1 DEF Marked
  <2>3. links'[l] \in Link
    BY <2>1, <2>2 DEF Link
  <2> QED
    BY <2>1, <2>2, <2>3, LinkTyped DEF Link
<1>2. \A l \in Slots \ S : links'[l] = links[l]
  BY DEF Marked
<1>3. links' \in [Slots -> Link \cup {NoRow}]
  BY <1>1, <1>2 DEF Marked, InvitationDatabaseTypeOK
<1> QED
  BY <1>1, <1>2, <1>3 DEF Ends

\* The active links of a person are links of that person, and active.
LEMMA ActiveLinksTyped ==
  ASSUME InvitationDatabaseTypeOK, NEW p
  PROVE  \A l \in ActiveLinks(p) :
           l \in Slots /\ links[l] # NoRow /\ links[l].person = p /\ links[l].status = "ACTIVE"
BY DEF ActiveLinks

-----------------------------------------------------------------------------
(* What a step keeps *)

\* The change of the links of S is that of one step of request r about row p.
LEMMA OneRowMoves ==
  ASSUME JoiningInv, NEW r \in Slots, NEW p \in People, NEW new \in WhitelistRow \cup {NoRow},
         RowMoves(whitelist[p], new), whitelist' = [whitelist EXCEPT ![p] = new],
         NEW S, Ends(S),
         \A l \in ActiveLinks(p) \ S :
           WaitingMoves(whitelist[p], new, pc[l] = "mail" /\ whitelist[p].version = rowRead[l].version),
         \A l \in S : l = r \/ links[l].due \/ (links[l].person = p /\ new # whitelist[p])
  PROVE  /\ RowsTyped' /\ \A q \in People : RowMoves(whitelist[q], whitelist'[q])
         /\ LinksMove(r)
<1>0. InvitationDatabaseTypeOK
  BY DEF JoiningInv, MembershipTypeOK
<1>1. /\ whitelist'[p] = new /\ RowsTyped'
      /\ \A q \in People : q # p => whitelist'[q] = whitelist[q]
  BY <1>0 DEF InvitationDatabaseTypeOK, RowsTyped
<1>2. \A q \in People : RowMoves(whitelist[q], whitelist'[q])
  BY <1>1 DEF RowMoves
<1>3. ASSUME NEW l \in Slots
      PROVE  /\ LinkMoves(links[l], links'[l])
             /\ l # r => (links[l] = NoRow <=> links'[l] = NoRow)
             /\ links[l] # NoRow =>
                  LinkMovesWith(r, l, whitelist[links[l].person], whitelist'[links[l].person])
  <2>1. CASE l \in S
    BY <1>1, <2>1 DEF Ends, LinkMoves, LinkMovesWith
  <2>2. CASE l \notin S
    <3>1. links'[l] = links[l]
      BY <2>2 DEF Ends
    <3>2. ASSUME links[l] # NoRow, links[l].status = "ACTIVE"
          PROVE  WaitingMoves(whitelist[links[l].person], whitelist'[links[l].person],
                   pc[l] = "mail" /\ whitelist[links[l].person].version = rowRead[l].version)
      <4>1. CASE links[l].person = p
        BY <1>1, <2>2, <3>2, <4>1 DEF ActiveLinks
      <4>2. CASE links[l].person # p
        <5>1. links[l].person \in People
          BY <1>0, <3>2, TablesTyped, LinkTyped
        <5>2. whitelist'[links[l].person] = whitelist[links[l].person]
          BY <1>1, <4>2, <5>1
        <5> QED
          BY <5>2 DEF WaitingMoves, Waits
      <4> QED
        BY <4>1, <4>2
    <3> QED
      BY <3>1, <3>2 DEF LinkMoves, LinkMovesWith
  <2> QED
    BY <2>1, <2>2
<1> QED
  BY <1>1, <1>2, <1>3 DEF LinksMove

\* A step that leaves rows and links alone moves them as any step may.
LEMMA TablesStay ==
  ASSUME JoiningInv, NEW r \in Slots, whitelist' = whitelist, links' = links
  PROVE  /\ RowsTyped' /\ \A q \in People : RowMoves(whitelist[q], whitelist'[q])
         /\ LinksMove(r)
BY DEF JoiningInv, MembershipTypeOK, InvitationDatabaseTypeOK, RowsTyped, RowMoves, LinksMove,
       LinkMoves, LinkMovesWith, WaitingMoves, Waits

\* The link of request r has just been sent and may be relied on.
SentNow(r) ==
  LET row == whitelist'[links'[r].person]
  IN  /\ IsOpen(row) /\ Waits(row.status)
      /\ row.status = "INVITED" => links'[r].address = row.email
      /\ \A l \in Slots \ {r} :
           IsSettled(l) /\ links[l].person = links'[r].person => links'[l].status # "ACTIVE"

\* A sent link in use stays the only one.
LEMMA SettledKept ==
  ASSUME JoiningInv, NEW r \in Slots, Moves(r),
         IsSettled(r)' => SentNow(r) \/ (answer'[r] = answer[r] /\ links[r] # NoRow)
  PROVE  SettledInv'
<1>1. ASSUME NEW l \in Slots, IsSettled(l)', l # r \/ ~ SentNow(r)
      PROVE  /\ IsSettled(l) /\ links'[l].person = links[l].person
             /\ links'[l].address = links[l].address /\ links[l].person \in People
             /\ WaitingMoves(whitelist[links[l].person], whitelist'[links[l].person], FALSE)
  <2>1. links[l] # NoRow /\ answer'[l] = answer[l]
    BY <1>1 DEF IsSettled, Moves, Apart, LinksMove
  <2>2. /\ LinkMoves(links[l], links'[l])
        /\ LinkMovesWith(r, l, whitelist[links[l].person], whitelist'[links[l].person])
    BY <2>1 DEF Moves, LinksMove
  <2>3. IsSettled(l) /\ links'[l].status = "ACTIVE"
    BY <1>1, <2>1, <2>2 DEF IsSettled, LinkMoves
  <2>4. pc[l] = "done"
    BY <2>3 DEF IsSettled, JoiningInv, SlotInv, Routed
  <2>5. links[l].person \in People
    BY <2>1, TablesTyped, LinkTyped DEF JoiningInv, MembershipTypeOK
  <2> QED
    BY <2>1, <2>2, <2>3, <2>4, <2>5 DEF LinkMoves, LinkMovesWith, IsSettled, WaitingMoves
<1>2. ASSUME NEW l \in Slots, IsSettled(l)'
      PROVE  LET row == whitelist'[links'[l].person]
             IN  /\ IsOpen(row) /\ Waits(row.status)
                 /\ row.status = "INVITED" => links'[l].address = row.email
  <2>1. CASE l = r /\ SentNow(r)
    BY <2>1 DEF SentNow
  <2>2. CASE l # r \/ ~ SentNow(r)
    <3>1. LET row == whitelist[links[l].person]
          IN  /\ IsOpen(row) /\ Waits(row.status)
              /\ row.status = "INVITED" => links[l].address = row.email
      BY <1>1, <1>2, <2>2 DEF JoiningInv, SettledInv
    <3> QED
      BY <1>1, <1>2, <2>2, <3>1 DEF WaitingMoves, Waits
  <2> QED
    BY <2>1, <2>2
<1>3. ASSUME NEW l \in Slots, NEW m \in Slots, IsSettled(l)', IsSettled(m)',
             links'[l].person = links'[m].person
      PROVE  l = m
  <2>1. CASE ~ SentNow(r) \/ (l # r /\ m # r)
    BY <1>1, <1>3, <2>1 DEF JoiningInv, SettledInv
  <2>2. CASE SentNow(r) /\ l = r /\ m # r
    BY <1>1, <1>3, <2>2 DEF SentNow, IsSettled
  <2>3. CASE SentNow(r) /\ m = r /\ l # r
    BY <1>1, <1>3, <2>3 DEF SentNow, IsSettled
  <2> QED
    BY <2>1, <2>2, <2>3
<1> QED
  BY <1>2, <1>3 DEF SettledInv, IsSettled

\* Nobody joins, and no row that a member took changes.
LEMMA MemberKept ==
  ASSUME JoiningInv, NEW r \in Slots, Moves(r), users' = users,
         users[r] # NoRow => call'[r] = call[r],
         \A p \in People : whitelist'[p] = whitelist[p] \/ whitelist'[p].user = NoRow,
         \A l \in Slots : links'[l] # NoRow /\ links'[l].status = "ACCEPTED" =>
                            links[l] # NoRow /\ links[l].status = "ACCEPTED"
  PROVE  MemberInv'
<1>1. ASSUME NEW p \in People
      PROVE  LinksOf(p, "ACCEPTED")' = LinksOf(p, "ACCEPTED")
  <2>1. ASSUME NEW l \in Slots, links[l] # NoRow
        PROVE  links'[l] # NoRow /\ links'[l].person = links[l].person
    BY <2>1 DEF Moves, LinksMove, LinkMoves
  <2>2. ASSUME NEW l \in Slots, links[l] # NoRow, links[l].status = "ACCEPTED"
        PROVE  links'[l].status = "ACCEPTED"
    BY <2>2 DEF Moves, LinksMove, LinkMoves
  <2> QED
    BY <2>1, <2>2 DEF LinksOf
<1>2. ASSUME NEW p \in People, whitelist[p] = NoRow
      PROVE  LinksOf(p, "ACCEPTED") = {}
  BY <1>2 DEF LinksOf, JoiningInv, LinkInv
<1>3. ASSUME NEW p \in People, whitelist'[p] # whitelist[p]
      PROVE  /\ whitelist'[p].user = NoRow /\ whitelist'[p].status # "ACCEPTED"
             /\ LinksOf(p, "ACCEPTED") = {}
             /\ whitelist[p] = NoRow \/ whitelist[p].user = NoRow
  BY <1>2, <1>3 DEF Moves, RowMoves, JoiningInv, MemberInv
<1>4. ASSUME NEW p \in People, whitelist'[p] = whitelist[p], whitelist[p] # NoRow,
             whitelist[p].user # NoRow
      PROVE  call'[whitelist[p].user] = call[whitelist[p].user]
  <2>1. whitelist[p].user \in Slots /\ users[whitelist[p].user] # NoRow
    BY <1>4, RowTyped, TablesTyped DEF JoiningInv, MemberInv, MembershipTypeOK
  <2> QED
    BY <2>1 DEF Moves, Apart
<1>5. ASSUME NEW p \in People, whitelist'[p] # NoRow
      PROVE  LET row == whitelist'[p]
             IN  /\ row.status = "ACCEPTED" <=> row.user # NoRow
                 /\ row.user = NoRow => LinksOf(p, "ACCEPTED")' = {}
                 /\ row.user # NoRow =>
                      /\ ~row.deleted
                      /\ users'[row.user] # NoRow /\ users'[row.user].email = row.email
                      /\ LinksOf(p, "ACCEPTED")' = {call'[row.user].link}
  <2>1. CASE whitelist'[p] = whitelist[p]
    BY <1>1, <1>4, <1>5, <2>1 DEF JoiningInv, MemberInv
  <2>2. CASE whitelist'[p] # whitelist[p]
    BY <1>1, <1>3, <2>2
  <2> QED
    BY <2>1, <2>2
<1>6. ASSUME NEW u \in Slots, users'[u] # NoRow
      PROVE  \E p \in People : whitelist'[p] # NoRow /\ whitelist'[p].user = u
  <2>1. PICK p \in People : whitelist[p] # NoRow /\ whitelist[p].user = u
    BY <1>6 DEF JoiningInv, MemberInv
  <2>2. whitelist'[p] = whitelist[p]
    BY <1>3, <2>1, NoRowIsNoSlot
  <2> QED
    BY <2>1, <2>2
<1> QED
  BY <1>5, <1>6 DEF MemberInv

\* Transactions keep their links while others leave the locked ones alone.
LEMMA LockKept ==
  ASSUME JoiningInv, NEW r \in Slots, Apart(r), expiring' = expiring,
         pc[r] # "expireRow", NEW S, Ends(S), Unlocked(S),
         \A s \in Slots : lapsed'[s] \subseteq lapsed[s] \cup LinksDue
  PROVE  LockInv'
<1>1. ASSUME NEW l \in Slots, links[l] # NoRow
      PROVE  links'[l] # NoRow /\ links'[l].due = links[l].due
  BY <1>1 DEF Ends
<1>2. ASSUME NEW s \in Slots
      PROVE  pc'[s] # "expireRow" => expiring[s] = {}
  BY DEF JoiningInv, LockInv, Apart
<1>3. ASSUME NEW s \in Slots, NEW l \in expiring[s]
      PROVE  links'[l] # NoRow /\ links'[l].status = "ACTIVE" /\ links'[l].due
  <2>1. l \in Slots /\ links[l] # NoRow /\ links[l].status = "ACTIVE" /\ links[l].due
    BY <1>3 DEF JoiningInv, LockInv, MembershipTypeOK, InvitationDatabaseTypeOK
  <2>2. l \notin S
    BY <1>3 DEF Unlocked
  <2> QED
    BY <2>1, <2>2 DEF Ends
<1>4. ASSUME NEW s \in Slots, NEW l \in lapsed'[s]
      PROVE  links'[l] # NoRow /\ links'[l].due
  <2>1. l \in Slots /\ links[l] # NoRow /\ links[l].due
    BY <1>4 DEF JoiningInv, LockInv, LinksDue, MembershipTypeOK, EligibilityTypeOK
  <2> QED
    BY <1>1, <2>1
<1> QED
  BY <1>2, <1>3, <1>4 DEF LockInv, JoiningInv

\* A request is answered: it relies on nothing any more.
LEMMA DoneSlot ==
  ASSUME JoiningInv, NEW r \in Slots, NEW c \in MembershipCalls, NEW a,
         Became(r, "done", c, a), users' = users, authAccounts' = authAccounts,
         reported \subseteq reported',
         pc[r] \notin {"activate", "compensate", "done"}
  PROVE  SlotInv(r)'
<1>1. AccountInv(r) /\ pc'[r] = "done" /\ Routed(r)
  BY DEF JoiningInv, SlotInv, Became
<1>2. AccountInv(r)'
  BY <1>1 DEF AccountInv, Routed
<1> QED
  BY <1>1, <1>2 DEF SlotInv, Routed, ReadInv, PlanInv, MailInv, JoinInv

\* What has to be shown of a step of request r.
LEMMA StepKeeps ==
  ASSUME JoiningInv, TypedByPart', NEW r \in Slots, Moves(r), SlotInv(r)', LinkInv(r)',
         SettledInv', LockInv', MemberInv'
  PROVE  Kept
<1>1. MembershipTypeOK' /\ InvitationDatabaseTypeOK'
  BY DEF TypedByPart, RequestTyped, Labels, MembershipTypeOK
<1>2. \A s \in Slots : SlotInv(s)' /\ LinkInv(s)'
  BY <1>1, OthersRely
<1>3. JoiningInv'
  BY <1>1, <1>2 DEF JoiningInv
<1> QED
  BY <1>3 DEF Kept, Moves

\* A step that writes neither rows nor links nor members.
LEMMA UnwrittenStep ==
  ASSUME JoiningInv, TypedByPart', NEW r \in Slots, NEW l, NEW c, NEW a, Became(r, l, c, a),
         whitelist' = whitelist, links' = links, users' = users,
         \A s \in Slots \ {r} : /\ rowRead'[s] = rowRead[s] /\ plan'[s] = plan[s]
                                /\ authAccounts'[s] = authAccounts[s] /\ outcome'[s] = outcome[s],
         reported \subseteq reported',
         pc[r] \notin {"mail", "done"}, l # "mail",
         pc[r] = "idle" \/ c = call[r],
         SlotInv(r)', LockInv'
  PROVE  Kept
<1>1. Apart(r)
  BY DEF Became, Apart
<1>2. Moves(r)
  BY <1>1, TablesStay DEF Moves, Became
<1>3. links[r] = NoRow /\ links'[r] = NoRow
  BY DEF JoiningInv, LinkInv
<1>4. LinkInv(r)'
  BY <1>3 DEF LinkInv
<1>5. SettledInv'
  BY <1>2, <1>3, SettledKept DEF IsSettled
<1>6. users[r] # NoRow => call'[r] = call[r]
  BY DEF JoiningInv, SlotInv, AccountInv, Became
<1>7. MemberInv'
  BY <1>2, <1>6, MemberKept
<1> QED
  BY <1>2, <1>4, <1>5, <1>7, StepKeeps

\* If it holds no locks either, there is nothing to show of them.
LEMMA QuietStep ==
  ASSUME JoiningInv, TypedByPart', NEW r \in Slots, NEW l, NEW c, NEW a, Became(r, l, c, a),
         whitelist' = whitelist, links' = links, users' = users, expiring' = expiring,
         \A s \in Slots \ {r} : /\ rowRead'[s] = rowRead[s] /\ plan'[s] = plan[s]
                                /\ authAccounts'[s] = authAccounts[s] /\ outcome'[s] = outcome[s],
         reported \subseteq reported',
         \A s \in Slots : lapsed'[s] \subseteq lapsed[s] \cup LinksDue,
         pc[r] \notin {"mail", "done", "expireRow"}, l # "mail",
         pc[r] = "idle" \/ c = call[r],
         SlotInv(r)'
  PROVE  Kept
<1>1. Apart(r)
  BY DEF Became, Apart
<1>2. LockInv'
  BY <1>1, LockKept, NoneEnd DEF Unlocked, JoiningInv, MembershipTypeOK
<1> QED
  BY <1>2, UnwrittenStep

\* A step that writes rows, ends the links of S and answers, but makes no member.
LEMMA WriteStep ==
  ASSUME JoiningInv, TypedByPart', NEW r \in Slots, NEW a, Became(r, "done", call[r], a),
         \A p \in People : RowMoves(whitelist[p], whitelist'[p]), LinksMove(r),
         \A p \in People : whitelist'[p] = whitelist[p] \/ whitelist'[p].user = NoRow,
         NEW S, Ends(S), \A l \in S : links'[l].status # "ACCEPTED",
         UNCHANGED <<users, authAccounts, rowRead, plan, outcome, reported>>,
         pc[r] \in {"mail", "write", "expire", "expireRow"},
         LockInv', IsSettled(r)' => SentNow(r)
  PROVE  Kept
<1>1. Apart(r)
  BY DEF Became, Apart
<1>2. Moves(r)
  BY <1>1 DEF Moves, Became
<1>3. Routed(r) /\ LinkInv(r)
  BY DEF JoiningInv, SlotInv
<1>4. call[r] \in MembershipCalls
  BY <1>3 DEF Routed, MembershipCalls
<1>5. SlotInv(r)'
  BY <1>4, DoneSlot
<1>6. links[r] = NoRow => links'[r] = NoRow
  BY DEF Ends
<1>7. LinkInv(r)'
  BY <1>2, <1>6, LinkKept DEF LinkInv, Became
<1>8. SettledInv'
  BY <1>2, SettledKept
<1>9. \A l \in Slots : links'[l] # NoRow /\ links'[l].status = "ACCEPTED" =>
                         links[l] # NoRow /\ links[l].status = "ACCEPTED"
  BY DEF Ends
<1>10. MemberInv'
  BY <1>2, <1>9, MemberKept DEF Became
<1> QED
  BY <1>2, <1>5, <1>7, <1>8, <1>10, StepKeeps

\* The invariant by its parts.
LEMMA InvParts ==
  ASSUME JoiningInv
  PROVE  /\ RequestTyped /\ InvitationDatabaseTypeOK /\ EligibilityTypeOK
         /\ OnboardingTypeOK /\ WhitelistTypeOK /\ RowsTyped
         /\ \A r \in Slots : /\ Routed(r) /\ ReadInv(r) /\ PlanInv(r) /\ MailInv(r)
                             /\ JoinInv(r) /\ AccountInv(r) /\ LinkInv(r)
         /\ SettledInv /\ LockInv /\ MemberInv
BY TypeParts, TablesTyped DEF JoiningInv, TypedByPart, SlotInv

-----------------------------------------------------------------------------
(* Invitations *)

LEMMA InvitationReceived ==
  ASSUME JoiningInv, NEW r \in Slots, NEW c \in InvitationCalls, ReceiveInvitation(r, c),
         UNCHANGED <<lapsed, onboardingVars, plan>>
  PROVE  Kept
<1> DEFINE row == whitelist[c.person]
           refusal == InvitationRefusal(c.op, row)
<1>0. /\ c \in MembershipCalls /\ c.person \in People
      /\ UNCHANGED <<whitelist, links, users, authAccounts, expiring, inTime, outcome, reported>>
  BY InvitationTyped DEF MembershipCalls, ReceiveInvitation, joinVars, onboardingVars
<1>1. CASE refusal # "none"
  <2>1. refusal \in MembershipCodes
    BY <1>1, Codes DEF InvitationRefusal, InvitationCodes
  <2>2. ReceiveAndRespond(r, c, refusal) /\ rowRead' = rowRead
    BY <1>1 DEF ReceiveInvitation
  <2>3. RequestTyped' /\ pc[r] = "idle" /\ Became(r, "done", c, Answered(refusal))
    BY <1>0, <2>1, <2>2, AnswerBecomes, InvParts
  <2>4. TypedByPart'
    BY <1>0, <2>2, <2>3, InvParts
       DEF TypedByPart, InvitationDatabaseTypeOK, EligibilityTypeOK, OnboardingTypeOK, WhitelistTypeOK
  <2>5. SlotInv(r)'
    BY <1>0, <2>3, DoneSlot
  <2> QED
    BY <1>0, <2>2, <2>3, <2>4, <2>5, QuietStep
<1>2. CASE refusal = "none"
  <2>1. /\ row # NoRow /\ row \in WhitelistRow
        /\ IsOpen(row) /\ row.status \in StatusesFor(c.op)
    <3>1. row # NoRow
      BY <1>2 DEF InvitationRefusal
    <3>2. row \in WhitelistRow
      BY <1>0, <3>1, InvParts, TablesTyped
    <3> QED
      BY <1>2, <3>1, <3>2 DEF InvitationRefusal, IsOpen
  <2>2. Receive(r, c, "create") /\ rowRead' = [rowRead EXCEPT ![r] = row]
    BY <1>2 DEF ReceiveInvitation
  <2>3. RequestTyped' /\ pc[r] = "idle" /\ Became(r, "create", c, answer[r])
    BY <1>0, <2>2, ReceiveBecomes, InvParts DEF Labels
  <2>4. /\ rowRead' \in [Slots -> WhitelistRow \cup {NoRow}] /\ rowRead'[r] = row
        /\ \A s \in Slots \ {r} : rowRead'[s] = rowRead[s]
    BY <2>1, <2>2, InvParts DEF InvitationDatabaseTypeOK
  <2>5. TypedByPart'
    BY <1>0, <2>3, <2>4, InvParts
       DEF TypedByPart, InvitationDatabaseTypeOK, EligibilityTypeOK, OnboardingTypeOK, WhitelistTypeOK
  <2>6. EarlierVersion(row, row)
    BY <2>1, RowTyped DEF EarlierVersion
  <2>7. Routed(r)' /\ ReadInv(r)'
    BY <1>0, <2>1, <2>3, <2>4, <2>6, InvParts DEF Routed, ReadInv, Became
  <2>8. PlanInv(r)' /\ MailInv(r)' /\ JoinInv(r)'
    BY <2>3 DEF PlanInv, MailInv, JoinInv, Became
  <2>9. AccountInv(r)'
    BY <1>0, <2>3, InvParts DEF AccountInv, Became
  <2> QED
    BY <1>0, <2>3, <2>4, <2>5, <2>7, <2>8, <2>9, QuietStep DEF SlotInv
<1> QED
  BY <1>1, <1>2

\* The first transaction of a send or resend: a new active link.
LEMMA LinkCreated ==
  ASSUME JoiningInv, NEW r \in Slots, CreateLink(r), UNCHANGED <<lapsed, onboardingVars, plan>>
  PROVE  Kept
<1> DEFINE c == call[r]
           p == c.person
           new == [person |-> p, status |-> "ACTIVE", address |-> rowRead[r].email, due |-> FALSE]
<1>0. /\ pc[r] = "create" /\ c \in InvitationCalls /\ c \in MembershipCalls /\ p \in People
      /\ UNCHANGED <<whitelist, users, authAccounts, expiring, rowRead, inTime, outcome, reported,
                     lapsed, plan>>
      /\ links' = [links EXCEPT ![r] = new] /\ Goto(r, "mail")
  BY InvitationTyped DEF MembershipCalls, CreateLink, onboardingVars
<1>1. RequestTyped' /\ Became(r, "mail", c, answer[r]) /\ answer[r].code = "none"
  BY <1>0, GotoBecomes, InvParts DEF Labels, Routed
<1>2. /\ EarlierVersion(rowRead[r], whitelist[p]) /\ IsOpen(rowRead[r])
      /\ rowRead[r].status \in StatusesFor(c.op)
  BY <1>0, InvParts DEF ReadInv
<1>3. new \in Link /\ new # NoRow
  <2>1. rowRead[r].email \in Emails
    BY <1>2, RowTyped DEF EarlierVersion
  <2>2. new \in Link
    BY <1>0, <2>1 DEF Link, LinkStatuses
  <2> QED
    BY <2>2, LinkTyped
<1>4. links[r] = NoRow
  BY <1>0, InvParts DEF LinkInv
<1>5. /\ links' \in [Slots -> Link \cup {NoRow}] /\ links'[r] = new
      /\ \A l \in Slots \ {r} : links'[l] = links[l]
  BY <1>0, <1>3, InvParts DEF InvitationDatabaseTypeOK
<1> HIDE DEF new
<1>6. TypedByPart'
  BY <1>0, <1>1, <1>5, InvParts
     DEF TypedByPart, InvitationDatabaseTypeOK, EligibilityTypeOK, OnboardingTypeOK, WhitelistTypeOK
<1>7. Apart(r)
  BY <1>0, <1>1 DEF Apart, Became
<1>8. Moves(r)
  <2>1. \A q \in People : RowMoves(whitelist[q], whitelist'[q])
    BY <1>0 DEF RowMoves
  <2>2. LinksMove(r)
    BY <1>0, <1>4, <1>5 DEF LinksMove, LinkMoves, LinkMovesWith, WaitingMoves, Waits
  <2> QED
    BY <1>0, <1>4, <1>7, <2>1, <2>2 DEF Moves
<1>9. links'[r].person = p /\ links'[r].address = rowRead[r].email /\ links'[r].status = "ACTIVE"
  BY <1>5 DEF new
<1>10. SlotInv(r)' /\ LinkInv(r)'
  <2>1. Routed(r)' /\ ReadInv(r)'
    BY <1>0, <1>1, <1>2 DEF Routed, ReadInv, Became
  <2>2. PlanInv(r)' /\ JoinInv(r)'
    BY <1>1 DEF PlanInv, JoinInv, Became
  <2>3. MailInv(r)'
    BY <1>0, <1>3, <1>5, <1>9 DEF MailInv
  <2>4. AccountInv(r)'
    BY <1>0, <1>1, InvParts DEF AccountInv, Became
  <2>5. LinkInv(r)'
    BY <1>0, <1>1, <1>2, <1>9 DEF LinkInv, Became, EarlierVersion
  <2> QED
    BY <2>1, <2>2, <2>3, <2>4, <2>5 DEF SlotInv
<1>11. SettledInv'
  BY <1>1, <1>8, SettledKept DEF IsSettled, Became
<1>12. LockInv'
  <2>1. \A s \in Slots : s # r => pc'[s] = pc[s]
    BY <1>7 DEF Apart
  <2>2. \A l \in Slots : links[l] # NoRow => links'[l] = links[l]
    BY <1>4, <1>5
  <2>3. expiring \in [Slots -> SUBSET Slots] /\ lapsed \in [Slots -> SUBSET Slots]
    BY InvParts DEF InvitationDatabaseTypeOK, EligibilityTypeOK
  <2> QED
    BY <1>0, <2>1, <2>2, <2>3, InvParts DEF LockInv
<1>13. MemberInv'
  <2>1. \A l \in Slots : links'[l] # NoRow /\ links'[l].status = "ACCEPTED" =>
                           links[l] # NoRow /\ links[l].status = "ACCEPTED"
    BY <1>5, <1>9
  <2> QED
    BY <1>0, <1>1, <1>8, <2>1, MemberKept DEF Became
<1> QED
  BY <1>6, <1>8, <1>10, <1>11, <1>12, <1>13, StepKeeps

\* A row with a new status is an update of the row.
RowWith(p, s) == Touched([whitelist[p] EXCEPT !.status = s])

\* Changing the status of a row moves its version and nothing else.
LEMMA StatusRow ==
  ASSUME InvitationDatabaseTypeOK, NEW p \in People, whitelist[p] # NoRow,
         NEW s \in InvitationStatuses
  PROVE  LET t == RowWith(p, s)
         IN  /\ WithStatus(p, s) = [whitelist EXCEPT ![p] = t]
             /\ t \in WhitelistRow /\ t # NoRow /\ t # whitelist[p] /\ t.status = s
             /\ t.version > whitelist[p].version /\ t.email = whitelist[p].email
             /\ t.number = whitelist[p].number /\ t.user = whitelist[p].user
             /\ t.deleted = whitelist[p].deleted
<1> DEFINE row == whitelist[p]
           t == RowWith(p, s)
           mid == [row EXCEPT !.status = s]
<1>1. row \in WhitelistRow /\ row.version \in Nat
  BY TablesTyped, RowTyped
<1>2. /\ mid \in WhitelistRow /\ mid.status = s /\ mid.version = row.version
      /\ mid.email = row.email /\ mid.number = row.number
      /\ mid.user = row.user /\ mid.deleted = row.deleted
  BY <1>1 DEF WhitelistRow
<1>3. WithStatus(p, s) = [whitelist EXCEPT ![p] = t] /\ t = Touched(mid)
  BY DEF WithStatus, RowWith
<1> HIDE DEF mid, t
<1>4. /\ t \in WhitelistRow /\ t.version = mid.version + 1 /\ t.status = mid.status
      /\ t.email = mid.email /\ t.number = mid.number /\ t.user = mid.user
      /\ t.deleted = mid.deleted
  BY <1>2, <1>3, TouchedRow
<1>5. t # NoRow /\ t.version > row.version /\ t # row
  BY <1>1, <1>2, <1>4, RowTyped
<1> QED
  BY <1>2, <1>3, <1>4, <1>5 DEF t

\* The row that a request goes on with is still there; if its version is the one
\* read, it is the row as read.
LEMMA RowOfRequest ==
  ASSUME JoiningInv, NEW r \in Slots,
         pc[r] \in {"create", "mail"} \/ (pc[r] = "write" /\ ChangesOneRow(call[r]))
  PROVE  LET p == call[r].person
         IN  /\ p \in People /\ whitelist[p] \in WhitelistRow /\ whitelist[p] # NoRow
             /\ rowRead[r] \in WhitelistRow
             /\ whitelist[p].version = rowRead[r].version => whitelist[p] = rowRead[r]
<1>1. call[r].person \in People
  BY InvParts, InvitationTyped, WhitelistCallTyped DEF Routed, ChangesOneRow
<1>2. EarlierVersion(rowRead[r], whitelist[call[r].person])
  BY InvParts DEF ReadInv
<1> QED
  BY <1>1, <1>2, InvParts, TablesTyped DEF EarlierVersion

\* Tables and plan of a step that writes rows and links only.
LEMMA WrittenTyped ==
  ASSUME JoiningInv, RequestTyped', RowsTyped', NEW S, Ends(S),
         UNCHANGED <<users, authAccounts, rowRead, plan, lapsed, inTime, outcome, reported>>,
         expiring' \in [Slots -> SUBSET Slots]
  PROVE  TypedByPart'
BY InvParts DEF TypedByPart, InvitationDatabaseTypeOK, EligibilityTypeOK, OnboardingTypeOK,
     WhitelistTypeOK, RowsTyped, Ends

\* A step that waits for locks ends no link that is locked.
LEMMA LocksHeld ==
  ASSUME JoiningInv, NEW r \in Slots, NEW a, Became(r, "done", call[r], a),
         UNCHANGED <<users, authAccounts, rowRead, plan, outcome, expiring, lapsed>>,
         pc[r] # "expireRow", NEW S, Ends(S), Unlocked(S)
  PROVE  LockInv'
<1>1. Apart(r)
  BY DEF Apart, Became
<1> QED
  BY <1>1, LockKept

\* The mail went out and the row is as read: the person is invited.
LEMMA InvitationSecuredKeeps ==
  ASSUME JoiningInv, NEW r \in Slots, InvitationSecured(r),
         UNCHANGED <<lapsed, onboardingVars, plan>>
  PROVE  Kept
<1> DEFINE c == call[r]
           p == c.person
           row == whitelist[p]
           new == RowWith(p, "INVITED")
           S == ReplacedLinks(r)
           code == IF c.op = "send" THEN "SENT" ELSE "RESENT"
<1>0. /\ pc[r] = "mail" /\ c \in InvitationCalls /\ c.op \in {"send", "resend"}
      /\ RowAsRead(r) /\ Unlocked(S)
      /\ UNCHANGED <<users, authAccounts, expiring, rowRead, inTime, outcome, reported, lapsed, plan>>
      /\ whitelist' = WithStatus(p, "INVITED") /\ links' = Marked(S, "REVOKED")
      /\ Respond(r, Answered(code))
  BY InvitationTyped DEF InvitationSecured, onboardingVars
<1>1. p \in People /\ row \in WhitelistRow /\ row # NoRow /\ row = rowRead[r]
  BY <1>0, RowOfRequest DEF RowAsRead
<1>2. IsOpen(row) /\ row.status \in StatusesFor(c.op)
  BY <1>0 DEF RowAsRead
<1>3. RequestTyped' /\ Became(r, "done", c, Answered(code)) /\ code \in MembershipCodes
  <2>1. code \in MembershipCodes
    BY Codes DEF InvitationCodes
  <2> QED
    BY <1>0, <2>1, RespondBecomes, InvParts
<1>4. /\ whitelist' = [whitelist EXCEPT ![p] = new]
      /\ new \in WhitelistRow /\ new # NoRow /\ new # row /\ new.status = "INVITED"
      /\ new.version > row.version /\ new.email = row.email /\ new.user = row.user
      /\ new.deleted = row.deleted
  BY <1>0, <1>1, StatusRow, InvParts DEF InvitationStatuses
<1> HIDE DEF new
<1>5. RowMoves(row, new)
  BY <1>0, <1>2, <1>4 DEF RowMoves, Forward, StatusesFor, IsOpen
<1>6. S \in SUBSET ActiveLinks(p) /\ (c.op = "resend" => S = ActiveLinks(p) \ {r})
  BY DEF ReplacedLinks
<1>7. \A l \in ActiveLinks(p) : l \in Slots /\ links[l] # NoRow /\ links[l].person = p
                                /\ links[l].status = "ACTIVE"
  BY ActiveLinksTyped, InvParts
<1> HIDE DEF S
<1>8. Ends(S) /\ \A l \in S : links'[l].status = "REVOKED"
  BY <1>0, <1>6, <1>7, MarkedEnd, InvParts DEF LinkStatuses
<1>9. ASSUME NEW l \in ActiveLinks(p) \ S
      PROVE  WaitingMoves(row, new, pc[l] = "mail" /\ row.version = rowRead[l].version)
  <2>1. CASE c.op = "send"
    BY <1>2, <2>1 DEF StatusesFor, WaitingMoves, Waits
  <2>2. CASE c.op = "resend"
    <3>1. l = r
      BY <1>6, <2>2
    <3> QED
      BY <1>0, <1>1, <1>4, <3>1 DEF WaitingMoves, Waits, IsOpen
  <2> QED
    BY <1>0, <2>1, <2>2
<1>10. RowsTyped' /\ (\A q \in People : RowMoves(whitelist[q], whitelist'[q])) /\ LinksMove(r)
  <2>1. \A l \in S : l = r \/ links[l].due \/ (links[l].person = p /\ new # row)
    BY <1>4, <1>6, <1>7
  <2> QED
    BY <1>1, <1>4, <1>5, <1>8, <1>9, <2>1, OneRowMoves
<1>11. TypedByPart'
  BY <1>0, <1>3, <1>8, <1>10, WrittenTyped, InvParts DEF InvitationDatabaseTypeOK
<1>12. LockInv'
  BY <1>0, <1>3, <1>8, LocksHeld
<1>13. links[r] # NoRow /\ links[r].address = row.email /\ links[r].person = p
  BY <1>0, <1>1, InvParts DEF MailInv, LinkInv
<1>14. /\ whitelist'[p] = new
       /\ \A q \in People : q # p => whitelist'[q] = whitelist[q]
  BY <1>1, <1>4, InvParts DEF RowsTyped
<1>15. SentNow(r)
  <2>1. links'[r].person = p /\ links'[r].address = row.email
    BY <1>8, <1>13 DEF Ends
  <2>2. IsOpen(new) /\ Waits(new.status) /\ new.email = row.email
    BY <1>2, <1>4 DEF IsOpen, Waits
  <2>3. ASSUME NEW l \in Slots \ {r}, IsSettled(l), links[l].person = p
        PROVE  links'[l].status # "ACTIVE"
    <3>1. Waits(row.status)
      BY <2>3, InvParts DEF SettledInv
    <3>2. c.op = "resend"
      BY <1>0, <1>2, <3>1 DEF StatusesFor, Waits
    <3>3. l \in S
      BY <1>6, <2>3, <3>2 DEF IsSettled, ActiveLinks
    <3> QED
      BY <1>8, <3>3
  <2> QED
    BY <1>14, <2>1, <2>2, <2>3 DEF SentNow
<1>16. \A q \in People : whitelist'[q] = whitelist[q] \/ whitelist'[q].user = NoRow
  BY <1>2, <1>4, <1>14 DEF IsOpen
<1>17. \A l \in S : links'[l].status # "ACCEPTED"
  BY <1>8
<1> QED
  BY <1>0, <1>3, <1>8, <1>10, <1>11, <1>12, <1>15, <1>16, <1>17, WriteStep

\* Answers that promise no usable link.
Silent(code) == code \in MembershipCodes /\ code \notin {"SENT", "RESENT"}

\* A request that ends links without touching a row: its own, or overdue ones.
LEMMA LinksWritten ==
  ASSUME JoiningInv, NEW r \in Slots, RequestTyped', NEW code, Silent(code),
         Became(r, "done", call[r], Answered(code)), whitelist' = whitelist,
         UNCHANGED <<users, authAccounts, rowRead, plan, lapsed, inTime, outcome, reported>>,
         NEW S, Ends(S), \A l \in S : links'[l].status # "ACCEPTED" /\ (l # r => links[l].due),
         pc[r] \in {"mail", "write", "expire", "expireRow"},
         expiring' \in [Slots -> SUBSET Slots], LockInv'
  PROVE  Kept
<1>1. RowsTyped' /\ \A q \in People : RowMoves(whitelist[q], whitelist'[q])
  BY InvParts DEF RowsTyped, RowMoves
<1>2. LinksMove(r)
  BY InvParts DEF Ends, LinksMove, LinkMoves, LinkMovesWith, WaitingMoves, Waits
<1>3. TypedByPart'
  BY <1>1, WrittenTyped
<1>4. ~ IsSettled(r)'
  BY AnsweredTyped DEF IsSettled, Silent, Became
<1> QED
  BY <1>1, <1>2, <1>3, <1>4, WriteStep

\* A request that writes row p, which stays nobody's, and ends the links of S.
LEMMA RowWritten ==
  ASSUME JoiningInv, NEW r \in Slots, RequestTyped', NEW code, Silent(code),
         Became(r, "done", call[r], Answered(code)),
         UNCHANGED <<users, authAccounts, rowRead, plan, lapsed, inTime, outcome, reported>>,
         NEW p \in People, NEW new \in WhitelistRow, whitelist' = [whitelist EXCEPT ![p] = new],
         RowMoves(whitelist[p], new), new # whitelist[p], new.user = NoRow,
         NEW S, Ends(S),
         \A l \in S : links'[l].status # "ACCEPTED" /\ (links[l].due \/ links[l].person = p),
         \A l \in ActiveLinks(p) \ S :
           WaitingMoves(whitelist[p], new, pc[l] = "mail" /\ whitelist[p].version = rowRead[l].version),
         pc[r] \in {"mail", "write", "expire", "expireRow"},
         expiring' \in [Slots -> SUBSET Slots], LockInv'
  PROVE  Kept
<1>1. RowsTyped' /\ (\A q \in People : RowMoves(whitelist[q], whitelist'[q])) /\ LinksMove(r)
  BY OneRowMoves
<1>2. TypedByPart'
  BY <1>1, WrittenTyped
<1>3. \A q \in People : whitelist'[q] = whitelist[q] \/ whitelist'[q].user = NoRow
  BY InvParts DEF RowsTyped
<1>4. ~ IsSettled(r)'
  BY AnsweredTyped DEF IsSettled, Silent, Became
<1> QED
  BY <1>1, <1>2, <1>3, <1>4, WriteStep

\* The own link of a request whose mail is on its way.
LEMMA OwnLinkEnds ==
  ASSUME JoiningInv, NEW r \in Slots, pc[r] = "mail", Unlocked({r}),
         NEW s \in LinkStatuses \ {"ACTIVE", "ACCEPTED"}, links' = Marked(OwnLink(r), s)
  PROVE  /\ OwnLink(r) \subseteq {r} /\ Ends(OwnLink(r))
         /\ \A l \in OwnLink(r) : links'[l].status # "ACCEPTED" /\ links[l].person = call[r].person
         /\ Unlocked(OwnLink(r))
<1>1. OwnLink(r) \in SUBSET ActiveLinks(call[r].person) /\ OwnLink(r) \subseteq {r}
  BY DEF OwnLink
<1>2. \A l \in OwnLink(r) : /\ l \in Slots /\ links[l] # NoRow /\ links[l].status = "ACTIVE"
                              /\ links[l].person = call[r].person
  BY <1>1, ActiveLinksTyped, InvParts
<1>3. Ends(OwnLink(r)) /\ \A l \in OwnLink(r) : links'[l].status = s
  BY <1>2, MarkedEnd, InvParts
<1> QED
  BY <1>1, <1>2, <1>3 DEF Unlocked

\* The mail went out but the row has changed: the new link is revoked.
LEMMA InvitationSupersededKeeps ==
  ASSUME JoiningInv, NEW r \in Slots, InvitationSuperseded(r),
         UNCHANGED <<lapsed, onboardingVars, plan>>
  PROVE  Kept
<1> DEFINE code == "I409_WHITELIST_STATE_CHANGED"
           S == OwnLink(r)
<1>0. /\ pc[r] = "mail" /\ Unlocked({r}) /\ links' = Marked(S, "REVOKED")
      /\ UNCHANGED <<whitelist, users, authAccounts, expiring, rowRead, inTime, outcome, reported,
                     lapsed, plan>>
      /\ Respond(r, Answered(code))
  BY DEF InvitationSuperseded, onboardingVars
<1>1. Silent(code)
  BY Codes DEF Silent, InvitationCodes
<1>2. RequestTyped' /\ Became(r, "done", call[r], Answered(code))
  BY <1>0, <1>1, RespondBecomes, InvParts DEF Silent
<1>3. S \subseteq {r} /\ Ends(S) /\ Unlocked(S) /\ \A l \in S : links'[l].status # "ACCEPTED"
  BY <1>0, OwnLinkEnds DEF LinkStatuses
<1> HIDE DEF S
<1>4. LockInv' /\ expiring' \in [Slots -> SUBSET Slots]
  BY <1>0, <1>2, <1>3, LocksHeld, InvParts DEF InvitationDatabaseTypeOK
<1> QED
  BY <1>0, <1>1, <1>2, <1>3, <1>4, LinksWritten

\* The mail failed: so does the link, and a row that is as a first send read it.
LEMMA MailFailedKeeps ==
  ASSUME JoiningInv, NEW r \in Slots, MailFailed(r), UNCHANGED <<lapsed, onboardingVars, plan>>
  PROVE  Kept
<1> DEFINE p == call[r].person
           row == whitelist[p]
           new == RowWith(p, "FAILED")
           first == call[r].op = "send"
           counted == OwnLink(r) # {} /\ (first => RowAsRead(r))
           code == IF ~counted THEN "I409_WHITELIST_STATE_CHANGED"
                   ELSE IF first THEN "I502_EMAIL_SEND_FAILED" ELSE "I502_EMAIL_RESEND_FAILED"
           S == OwnLink(r)
<1>0. /\ pc[r] = "mail" /\ Unlocked({r}) /\ links' = Marked(S, "FAILED")
      /\ whitelist' = IF first /\ RowAsRead(r) THEN WithStatus(p, "FAILED") ELSE whitelist
      /\ UNCHANGED <<users, authAccounts, expiring, rowRead, inTime, outcome, reported, lapsed, plan>>
      /\ Respond(r, Answered(code))
  BY DEF MailFailed, onboardingVars
<1>1. Silent(code)
  BY Codes DEF Silent, InvitationCodes
<1> HIDE DEF code
<1>2. RequestTyped' /\ Became(r, "done", call[r], Answered(code))
  BY <1>0, <1>1, RespondBecomes, InvParts DEF Silent
<1>3. /\ S \subseteq {r} /\ Ends(S) /\ Unlocked(S)
      /\ \A l \in S : links'[l].status # "ACCEPTED" /\ links[l].person = p
  BY <1>0, OwnLinkEnds DEF LinkStatuses
<1> HIDE DEF S
<1>4. LockInv' /\ expiring' \in [Slots -> SUBSET Slots]
  BY <1>0, <1>2, <1>3, LocksHeld, InvParts DEF InvitationDatabaseTypeOK
<1>5. CASE ~ (first /\ RowAsRead(r))
  <2>1. whitelist' = whitelist
    BY <1>0, <1>5
  <2> QED
    BY <1>0, <1>1, <1>2, <1>3, <1>4, <2>1, LinksWritten
<1>6. CASE first /\ RowAsRead(r)
  <2>1. p \in People /\ row \in WhitelistRow /\ row # NoRow
    BY <1>0, RowOfRequest
  <2>2. IsOpen(row) /\ row.status = "PENDING"
    BY <1>6 DEF RowAsRead, StatusesFor
  <2>3. /\ whitelist' = [whitelist EXCEPT ![p] = new]
        /\ new \in WhitelistRow /\ new # NoRow /\ new # row /\ new.status = "FAILED"
        /\ new.version > row.version /\ new.user = row.user
    BY <1>0, <1>6, <2>1, StatusRow, InvParts DEF InvitationStatuses
  <2> HIDE DEF new
  <2>4. RowMoves(row, new) /\ new.user = NoRow
    BY <2>2, <2>3 DEF RowMoves, Forward, IsOpen
  <2>5. \A l \in ActiveLinks(p) \ S :
          WaitingMoves(row, new, pc[l] = "mail" /\ row.version = rowRead[l].version)
    BY <2>2 DEF WaitingMoves, Waits
  <2> QED
    BY <1>0, <1>1, <1>2, <1>3, <1>4, <2>1, <2>3, <2>4, <2>5, RowWritten
<1> QED
  BY <1>5, <1>6

-----------------------------------------------------------------------------
(* Verification and expiry *)

\* A request that is answered as it comes in.
LEMMA AnsweredAtOnce ==
  ASSUME JoiningInv, NEW r \in Slots, NEW c \in MembershipCalls, NEW code \in MembershipCodes,
         ReceiveAndRespond(r, c, code), UNCHANGED <<joinVars, rowRead, lapsed, onboardingVars, plan>>
  PROVE  Kept
<1>0. UNCHANGED <<whitelist, links, users, authAccounts, expiring, rowRead, lapsed, inTime, outcome,
                  reported, plan>>
  BY DEF joinVars, onboardingVars
<1>1. RequestTyped' /\ pc[r] = "idle" /\ Became(r, "done", c, Answered(code))
  BY AnswerBecomes, InvParts
<1>2. TypedByPart'
  BY <1>0, <1>1, InvParts
     DEF TypedByPart, InvitationDatabaseTypeOK, EligibilityTypeOK, OnboardingTypeOK, WhitelistTypeOK
<1>3. SlotInv(r)'
  BY <1>0, <1>1, DoneSlot
<1> QED
  BY <1>0, <1>1, <1>2, <1>3, QuietStep

\* What validate says of a link is a code of the whole.
LEMMA EligibilityCodes == \A l : Eligibility(l) \in MembershipCodes
BY Codes DEF Eligibility, LinkCodes

\* Request r goes on to look for links that have expired.
LEMMA LapseSeen ==
  ASSUME JoiningInv, NEW r \in Slots, NEW c \in LinkCalls, links[c.link] # NoRow, RequestTyped',
         Became(r, "expire", c, answer[r]), pc[r] = "idle" \/ (pc[r] = "recheck" /\ c = call[r]),
         lapsed' = [lapsed EXCEPT ![r] = LinksDue],
         UNCHANGED <<joinVars, rowRead, onboardingVars, plan>>
  PROVE  Kept
<1>0. UNCHANGED <<whitelist, links, users, authAccounts, expiring, rowRead, inTime, outcome,
                  reported, plan>>
  BY DEF joinVars, onboardingVars
<1>1. lapsed' \in [Slots -> SUBSET Slots] /\ \A s \in Slots : lapsed'[s] \subseteq lapsed[s] \cup LinksDue
  <2>1. LinksDue \in SUBSET Slots /\ lapsed \in [Slots -> SUBSET Slots]
    BY InvParts DEF LinksDue, EligibilityTypeOK
  <2> QED
    BY <2>1
<1>2. TypedByPart'
  BY <1>0, <1>1, InvParts
     DEF TypedByPart, InvitationDatabaseTypeOK, EligibilityTypeOK, OnboardingTypeOK, WhitelistTypeOK
<1>3. Routed(r)' /\ ReadInv(r)' /\ PlanInv(r)' /\ MailInv(r)' /\ JoinInv(r)'
  BY <1>0, InvParts DEF Routed, ReadInv, PlanInv, MailInv, JoinInv, Became
<1>4. AccountInv(r)'
  BY <1>0, InvParts DEF AccountInv, Routed, Became
<1> QED
  BY <1>0, <1>1, <1>2, <1>3, <1>4, QuietStep DEF SlotInv

\* A link that validate refuses is answered, or its expiry is recorded.
LEMMA RefusedKeeps ==
  ASSUME JoiningInv, NEW r \in Slots, NEW c \in LinkCalls, links[c.link] # NoRow,
         ReceiveRefused(r, c), UNCHANGED <<onboardingVars, plan>>
  PROVE  Kept
<1>0. UNCHANGED <<joinVars, rowRead>> /\ c \in MembershipCalls
  BY DEF ReceiveRefused, MembershipCalls
<1>1. CASE Receive(r, c, "expire") /\ lapsed' = [lapsed EXCEPT ![r] = LinksDue]
  <2>1. RequestTyped' /\ pc[r] = "idle" /\ Became(r, "expire", c, answer[r])
    BY <1>0, <1>1, ReceiveBecomes, InvParts DEF Labels
  <2> QED
    BY <1>0, <1>1, <2>1, LapseSeen
<1>2. CASE ReceiveAndRespond(r, c, Eligibility(c.link)) /\ lapsed' = lapsed
  BY <1>0, <1>2, EligibilityCodes, AnsweredAtOnce
<1> QED
  BY <1>1, <1>2 DEF ReceiveRefused

\* Verifying answers the student, or begins to record that the link expired.
LEMMA VerifyKeeps ==
  ASSUME JoiningInv, NEW r \in Slots, NEW c \in LinkCalls, ReceiveVerify(r, c),
         UNCHANGED <<onboardingVars, plan>>
  PROVE  Kept
<1>1. CASE ReceiveRefused(r, c)
  BY <1>1, RefusedKeeps DEF ReceiveVerify
<1>2. CASE ~ ReceiveRefused(r, c)
  <2>1. PICK code \in {"I409_INVITATION_ALREADY_ACCEPTED", "OK"} : ReceiveAndRespond(r, c, code)
    BY <1>2 DEF ReceiveVerify
  <2>2. code \in MembershipCodes /\ c \in MembershipCalls
    BY Codes DEF LinkCodes, MembershipCalls
  <2>3. UNCHANGED <<joinVars, rowRead, lapsed>>
    BY <1>2 DEF ReceiveVerify, eligibilityVars
  <2> QED
    BY <2>1, <2>2, <2>3, AnsweredAtOnce
<1> QED
  BY <1>1, <1>2

\* The first write of an expiry: overdue links are marked under their locks.
LEMMA LinksMarkedKeeps ==
  ASSUME JoiningInv, NEW r \in Slots, MarkExpiredLinks(r), UNCHANGED <<onboardingVars, plan>>
  PROVE  Kept
<1> DEFINE S == ActiveLinks(PersonOf(r)) \cap lapsed[r]
           code == "I410_INVITATION_EXPIRED"
<1>0. /\ pc[r] = "expire" /\ Unlocked(S)
      /\ UNCHANGED <<whitelist, users, authAccounts, rowRead, lapsed, inTime, outcome, reported, plan>>
  BY DEF MarkExpiredLinks, onboardingVars
<1>1. \A l \in S : /\ l \in Slots /\ links[l] # NoRow /\ links[l].status = "ACTIVE" /\ links[l].due
  BY ActiveLinksTyped, InvParts DEF LockInv
<1>2. CASE /\ links' = Marked(S, "EXPIRED") /\ Respond(r, Answered(code)) /\ expiring' = expiring
  <2>1. Silent(code)
    BY Codes DEF Silent, LinkCodes
  <2>2. RequestTyped' /\ Became(r, "done", call[r], Answered(code))
    BY <1>2, <2>1, RespondBecomes, InvParts DEF Silent
  <2> HIDE DEF S
  <2>3. Ends(S) /\ \A l \in S : links'[l].status = "EXPIRED"
    BY <1>1, <1>2, MarkedEnd, InvParts DEF LinkStatuses
  <2>4. LockInv' /\ expiring' \in [Slots -> SUBSET Slots]
    BY <1>0, <1>2, <2>2, <2>3, LocksHeld, InvParts DEF InvitationDatabaseTypeOK
  <2>5. \A l \in S : links'[l].status # "ACCEPTED" /\ (l # r => links[l].due)
    BY <1>1, <2>3
  <2> QED
    BY <1>0, <1>2, <2>1, <2>2, <2>3, <2>4, <2>5, LinksWritten
<1>3. CASE /\ expiring' = [expiring EXCEPT ![r] = S] /\ Goto(r, "expireRow") /\ links' = links
  <2>1. RequestTyped' /\ Became(r, "expireRow", call[r], answer[r])
    BY <1>3, GotoBecomes, InvParts DEF Labels
  <2>2. S \in SUBSET Slots
    BY <1>1
  <2> HIDE DEF S
  <2>3. /\ expiring' \in [Slots -> SUBSET Slots] /\ expiring'[r] = S
        /\ \A s \in Slots \ {r} : expiring'[s] = expiring[s]
    BY <1>3, <2>2, InvParts DEF InvitationDatabaseTypeOK
  <2>4. TypedByPart'
    BY <1>0, <1>3, <2>1, <2>3, InvParts
       DEF TypedByPart, InvitationDatabaseTypeOK, EligibilityTypeOK, OnboardingTypeOK, WhitelistTypeOK
  <2>5. SlotInv(r)'
    <3>1. Routed(r)' /\ ReadInv(r)' /\ PlanInv(r)' /\ MailInv(r)' /\ JoinInv(r)'
      BY <1>0, <1>3, <2>1, InvParts DEF Routed, ReadInv, PlanInv, MailInv, JoinInv, Became
    <3>2. AccountInv(r)'
      BY <1>0, <2>1, InvParts DEF AccountInv, Became
    <3> QED
      BY <3>1, <3>2 DEF SlotInv
  <2>6. LockInv'
    <3>1. \A s \in Slots : expiring[s] \cap S = {}
      BY <1>0 DEF Unlocked
    <3>2. \A s \in Slots \ {r} : pc'[s] = pc[s]
      BY <2>1 DEF Became
    <3>3. \A s \in Slots : \A l \in expiring'[s] :
            links[l] # NoRow /\ links[l].status = "ACTIVE" /\ links[l].due
      BY <1>1, <2>3, InvParts DEF LockInv
    <3>4. \A s, t \in Slots : s # t => expiring'[s] \cap expiring'[t] = {}
      BY <2>3, <3>1, InvParts DEF LockInv
    <3> QED
      BY <1>0, <1>3, <2>1, <2>3, <3>2, <3>3, <3>4, InvParts DEF LockInv, Became
  <2> QED
    BY <1>0, <1>3, <2>1, <2>4, <2>5, <2>6, UnwrittenStep
<1> QED
  BY <1>2, <1>3 DEF MarkExpiredLinks

\* A transaction that marked links ends.
LEMMA LocksReleased ==
  ASSUME JoiningInv, NEW r \in Slots, NEW a, Became(r, "done", call[r], a),
         expiring' = Released(r), NEW S \in SUBSET expiring[r], Ends(S), lapsed' = lapsed
  PROVE  LockInv' /\ expiring' \in [Slots -> SUBSET Slots]
<1>1. /\ expiring' \in [Slots -> SUBSET Slots] /\ expiring'[r] = {}
      /\ \A s \in Slots \ {r} : expiring'[s] = expiring[s]
  BY InvParts DEF Released, InvitationDatabaseTypeOK
<1>2. \A l \in Slots : links[l] # NoRow => links'[l] # NoRow /\ links'[l].due = links[l].due
  BY DEF Ends
<1>3. ASSUME NEW s \in Slots, NEW l \in expiring'[s]
      PROVE  links'[l] # NoRow /\ links'[l].status = "ACTIVE" /\ links'[l].due
  <2>1. s # r /\ l \in expiring[s] /\ l \in Slots
    BY <1>1, <1>3
  <2>2. links[l] # NoRow /\ links[l].status = "ACTIVE" /\ links[l].due /\ l \notin expiring[r]
    BY <2>1, InvParts DEF LockInv
  <2> QED
    BY <2>1, <2>2 DEF Ends
<1>4. \A s \in Slots : \A l \in lapsed[s] : l \in Slots /\ links[l] # NoRow /\ links[l].due
  BY InvParts DEF LockInv, EligibilityTypeOK
<1>5. \A s \in Slots : pc'[s] # "expireRow" => expiring'[s] = {}
  BY <1>1, InvParts DEF LockInv, Became
<1>6. \A s, t \in Slots : s # t => expiring'[s] \cap expiring'[t] = {}
  BY <1>1, InvParts DEF LockInv
<1> QED
  BY <1>1, <1>2, <1>3, <1>4, <1>5, <1>6 DEF LockInv

\* The second: the person is marked expired if no link was seen.
LEMMA RowMarkedKeeps ==
  ASSUME JoiningInv, NEW r \in Slots, MarkExpiredRow(r), UNCHANGED <<onboardingVars, plan>>
  PROVE  Kept
<1> DEFINE p == PersonOf(r)
           row == whitelist[p]
           new == RowWith(p, "EXPIRED")
           S == expiring[r]
           code == "I410_INVITATION_EXPIRED"
<1>0. /\ pc[r] = "expireRow" /\ links' = Marked(S, "EXPIRED") /\ expiring' = Released(r)
      /\ whitelist' = IF ExpirableRow(p) THEN WithStatus(p, "EXPIRED") ELSE whitelist
      /\ UNCHANGED <<users, authAccounts, rowRead, lapsed, inTime, outcome, reported, plan>>
      /\ Respond(r, Answered(code))
  BY DEF MarkExpiredRow, onboardingVars
<1>1. Silent(code)
  BY Codes DEF Silent, LinkCodes
<1>2. RequestTyped' /\ Became(r, "done", call[r], Answered(code))
  BY <1>0, <1>1, RespondBecomes, InvParts DEF Silent
<1>3. \A l \in S : /\ l \in Slots /\ links[l] # NoRow /\ links[l].status = "ACTIVE" /\ links[l].due
  BY InvParts DEF LockInv, InvitationDatabaseTypeOK
<1>4. Ends(S) /\ \A l \in S : links'[l].status = "EXPIRED"
  BY <1>0, <1>3, MarkedEnd, InvParts DEF LinkStatuses
<1>5. LockInv' /\ expiring' \in [Slots -> SUBSET Slots]
  BY <1>0, <1>2, <1>4, LocksReleased
<1> HIDE DEF S
<1>6. CASE ~ ExpirableRow(p)
  <2>1. whitelist' = whitelist /\ \A l \in S : links'[l].status # "ACCEPTED" /\ (l # r => links[l].due)
    BY <1>0, <1>3, <1>4, <1>6
  <2> QED
    BY <1>0, <1>1, <1>2, <1>4, <1>5, <2>1, LinksWritten
<1>7. CASE ExpirableRow(p)
  <2>1. p \in People /\ row # NoRow
    <3>1. call[r].link \in Slots /\ links[call[r].link] # NoRow
      BY <1>0, InvParts, LinkCallTyped DEF Routed
    <3> QED
      BY <1>7, <3>1, InvParts, TablesTyped, LinkTyped DEF PersonOf, ExpirableRow, IsOpen
  <2>2. IsOpen(row) /\ row.status = "INVITED"
    BY <1>7 DEF ExpirableRow
  <2>3. /\ whitelist' = [whitelist EXCEPT ![p] = new]
        /\ new \in WhitelistRow /\ new # NoRow /\ new # row /\ new.status = "EXPIRED"
        /\ new.version > row.version /\ new.user = row.user /\ new.email = row.email
        /\ new.deleted = row.deleted
    BY <1>0, <1>7, <2>1, StatusRow, InvParts DEF InvitationStatuses
  <2> HIDE DEF new, p
  <2>4. RowMoves(row, new) /\ new.user = NoRow
    BY <2>2, <2>3 DEF RowMoves, Forward, IsOpen
  <2>5. \A l \in ActiveLinks(p) \ S :
          WaitingMoves(row, new, pc[l] = "mail" /\ row.version = rowRead[l].version)
    BY <2>2, <2>3 DEF WaitingMoves, Waits, IsOpen
  <2>6. \A l \in S : links'[l].status # "ACCEPTED" /\ (links[l].due \/ links[l].person = p)
    BY <1>3, <1>4
  <2> QED
    BY <1>0, <1>1, <1>2, <1>4, <1>5, <2>1, <2>3, <2>4, <2>5, <2>6, RowWritten
<1> QED
  BY <1>6, <1>7

\* An expiry whose transaction fails leaves everything as it was.
LEMMA AbortKeeps ==
  ASSUME JoiningInv, NEW r \in Slots, AbortExpiry(r), UNCHANGED <<onboardingVars, plan>>
  PROVE  Kept
<1>0. /\ pc[r] = "expireRow" /\ expiring' = Released(r) /\ whitelist' = whitelist /\ links' = links
      /\ UNCHANGED <<users, authAccounts, rowRead, lapsed, inTime, outcome, reported, plan>>
      /\ Respond(r, Answered("500"))
  BY DEF AbortExpiry, onboardingVars
<1>1. Silent("500")
  BY Codes DEF Silent, LinkCodes
<1>2. RequestTyped' /\ Became(r, "done", call[r], Answered("500"))
  BY <1>0, <1>1, RespondBecomes, InvParts DEF Silent
<1>3. Ends({})
  BY <1>0, NoneEnd, InvParts
<1>4. LockInv' /\ expiring' \in [Slots -> SUBSET Slots]
  BY <1>0, <1>2, <1>3, LocksReleased
<1>5. \A l \in {} : links'[l].status # "ACCEPTED" /\ (l # r => links[l].due)
  OBVIOUS
<1> QED
  BY <1>0, <1>1, <1>2, <1>3, <1>4, <1>5, LinksWritten

-----------------------------------------------------------------------------
(* Joining *)

LEMMA CompleteReceivedKeeps ==
  ASSUME JoiningInv, NEW r \in Slots, NEW c \in LinkCalls, ReceiveComplete(r, c), UNCHANGED plan
  PROVE  Kept
<1> DEFINE l == c.link
           p == links[l].person
           row == whitelist[p]
<1>0. /\ l \in Slots /\ links[l] # NoRow /\ links[l] \in Link /\ p \in People
      /\ row # NoRow /\ row \in WhitelistRow /\ c \in MembershipCalls
      /\ UNCHANGED onboardingVars
  <2>1. l \in Slots /\ links[l] # NoRow /\ links[l] \in Link /\ c \in MembershipCalls
    BY LinkCallTyped, TablesTyped, InvParts DEF ReceiveComplete, MembershipCalls
  <2>2. p \in People /\ row # NoRow
    BY <2>1, LinkTyped, InvParts DEF LinkInv
  <2> QED
    BY <2>1, <2>2, TablesTyped, InvParts DEF ReceiveComplete
<1>1. CASE ReceiveRefused(r, c)
  BY <1>0, <1>1, RefusedKeeps
<1>2. CASE /\ ReceiveAndRespond(r, c, "A409_ACCOUNT_ALREADY_EXISTS")
           /\ UNCHANGED <<joinVars, rowRead, lapsed>>
  BY <1>0, <1>2, Codes, AnsweredAtOnce DEF OnboardingCodes
<1>3. CASE /\ Eligibility(l) = "OK" /\ Receive(r, c, "account")
           /\ rowRead' = [rowRead EXCEPT ![r] = row] /\ UNCHANGED <<joinVars, lapsed>>
  <2>0. UNCHANGED <<whitelist, links, users, authAccounts, expiring, lapsed, inTime, outcome,
                    reported, plan>>
    BY <1>0, <1>3 DEF joinVars, onboardingVars
  <2>1. RequestTyped' /\ pc[r] = "idle" /\ Became(r, "account", c, answer[r])
    BY <1>0, <1>3, ReceiveBecomes, InvParts DEF Labels
  <2>2. /\ rowRead' \in [Slots -> WhitelistRow \cup {NoRow}] /\ rowRead'[r] = row
        /\ \A s \in Slots \ {r} : rowRead'[s] = rowRead[s]
    BY <1>0, <1>3, InvParts DEF InvitationDatabaseTypeOK
  <2>3. TypedByPart'
    BY <2>0, <2>1, <2>2, InvParts
       DEF TypedByPart, InvitationDatabaseTypeOK, EligibilityTypeOK, OnboardingTypeOK, WhitelistTypeOK
  <2>4. /\ IsOpen(row) /\ row.status = "INVITED"
    BY <1>0, <1>3 DEF Eligibility, IsOpen
  <2>5. PersonOf(r)' = p
    BY <2>0, <2>1 DEF PersonOf, Became
  <2>6. EarlierVersion(row, row)
    BY <1>0, RowTyped DEF EarlierVersion
  <2>7. l # r /\ (pc[l] = "mail" => rowRead[l].version <= row.version)
    <3>1. l # r
      BY <1>0, <2>1, InvParts DEF LinkInv
    <3>2. pc[l] = "mail" => EarlierVersion(rowRead[l], row)
      BY <1>0, InvParts DEF ReadInv, LinkInv
    <3> QED
      BY <3>1, <3>2 DEF EarlierVersion
  <2>8. Routed(r)' /\ PlanInv(r)' /\ MailInv(r)'
    BY <1>0, <2>0, <2>1, InvParts DEF Routed, PlanInv, MailInv, Became
  <2>9. ReadInv(r)'
    BY <2>0, <2>1, <2>2, <2>5, <2>6 DEF ReadInv, Became
  <2>10. JoinInv(r)'
    <3>1. pc'[l] = pc[l] /\ rowRead'[l] = rowRead[l] /\ call'[r].link = l
      BY <1>0, <2>1, <2>2, <2>7 DEF Became
    <3> QED
      BY <2>0, <2>2, <2>4, <2>5, <2>7, <3>1 DEF JoinInv, Waits
  <2>11. AccountInv(r)'
    BY <2>0, <2>1, InvParts DEF AccountInv, Became
  <2> QED
    BY <2>0, <2>1, <2>2, <2>3, <2>8, <2>9, <2>10, <2>11, QuietStep DEF SlotInv
<1> QED
  BY <1>0, <1>1, <1>2, <1>3 DEF ReceiveComplete

\* The provider makes an account for the address that was read.
LEMMA AccountMadeKeeps ==
  ASSUME JoiningInv, NEW r \in Slots, CreateAuthAccount(r), UNCHANGED plan
  PROVE  Kept
<1> DEFINE email == rowRead[r].email
           l == call[r].link
<1>0. /\ pc[r] = "account" /\ authAccounts' = [authAccounts EXCEPT ![r] = email]
      /\ inTime' = [inTime EXCEPT ![r] = ~links[l].due] /\ Goto(r, "activate")
      /\ UNCHANGED <<whitelist, links, users, expiring, rowRead, lapsed, outcome, reported, plan>>
  BY DEF CreateAuthAccount
<1>1. RequestTyped' /\ Became(r, "activate", call[r], answer[r])
  BY <1>0, GotoBecomes, InvParts DEF Labels
<1>2. /\ Routed(r) /\ l \in Slots /\ links[l] # NoRow
      /\ EarlierVersion(rowRead[r], whitelist[PersonOf(r)]) /\ email \in Emails
  BY <1>0, InvParts, LinkCallTyped, RowTyped DEF Routed, ReadInv, EarlierVersion
<1>3. /\ authAccounts' \in [Slots -> Emails \cup {NoRow}] /\ authAccounts'[r] = email
      /\ \A s \in Slots \ {r} : authAccounts'[s] = authAccounts[s]
  BY <1>0, <1>2, InvParts DEF InvitationDatabaseTypeOK
<1>4. inTime' \in [Slots -> BOOLEAN]
  BY <1>0, InvParts DEF OnboardingTypeOK
<1>5. TypedByPart'
  BY <1>0, <1>1, <1>3, <1>4, InvParts
     DEF TypedByPart, InvitationDatabaseTypeOK, EligibilityTypeOK, OnboardingTypeOK, WhitelistTypeOK
<1>6. PersonOf(r)' = PersonOf(r)
  BY <1>0, <1>1 DEF PersonOf, Became
<1>7. Routed(r)' /\ ReadInv(r)' /\ PlanInv(r)' /\ MailInv(r)'
  BY <1>0, <1>1, <1>2, <1>6, InvParts DEF Routed, ReadInv, PlanInv, MailInv, Became
<1>8. JoinInv(r)'
  <2>1. l # r
    BY <1>0, <1>2, InvParts DEF LinkInv
  <2>2. pc'[l] = pc[l] /\ call'[r] = call[r]
    BY <1>1, <1>2, <2>1 DEF Became
  <2> QED
    BY <1>0, <1>6, <2>2, InvParts DEF JoinInv
<1>9. AccountInv(r)'
  BY <1>0, <1>1, <1>3, InvParts DEF AccountInv, Became
<1> QED
  BY <1>0, <1>1, <1>3, <1>5, <1>7, <1>8, <1>9, QuietStep DEF SlotInv

\* A request that is done relies on its account only.
LEMMA AccountRemains ==
  ASSUME NEW r \in Slots, pc'[r] = "done", AccountInv(r)'
  PROVE  SlotInv(r)'
BY DEF SlotInv, Routed, ReadInv, PlanInv, MailInv, JoinInv

\* The provider refuses, or makes an account that it never confirms.
LEMMA AccountRefusedKeeps ==
  ASSUME JoiningInv, NEW r \in Slots, AuthAccountRefused(r), UNCHANGED plan
  PROVE  Kept
<1> DEFINE email == rowRead[r].email
           lost == "A503_AUTH_PROVIDER_UNAVAILABLE"
<1>0. /\ pc[r] = "account"
      /\ UNCHANGED <<whitelist, links, users, expiring, rowRead, lapsed, inTime, outcome, reported, plan>>
  BY DEF AuthAccountRefused, onboardingVars
<1>1. PICK code \in {"A409_ACCOUNT_ALREADY_EXISTS", lost, "A400_WEAK_PASSWORD"} :
        /\ Respond(r, Answered(code))
        /\ authAccounts' = authAccounts
           \/ (code = lost /\ authAccounts' = [authAccounts EXCEPT ![r] = email])
  BY DEF AuthAccountRefused
<1>2. code \in MembershipCodes
  BY Codes DEF OnboardingCodes
<1>3. RequestTyped' /\ Became(r, "done", call[r], Answered(code))
  BY <1>1, <1>2, RespondBecomes, InvParts
<1>4. email \in Emails
  BY <1>0, InvParts, RowTyped DEF ReadInv, EarlierVersion
<1>5. /\ authAccounts' \in [Slots -> Emails \cup {NoRow}]
      /\ \A s \in Slots \ {r} : authAccounts'[s] = authAccounts[s]
      /\ authAccounts'[r] # authAccounts[r] => code = lost
  BY <1>1, <1>4, InvParts DEF InvitationDatabaseTypeOK
<1>6. TypedByPart'
  BY <1>0, <1>3, <1>5, InvParts
     DEF TypedByPart, InvitationDatabaseTypeOK, EligibilityTypeOK, OnboardingTypeOK, WhitelistTypeOK
<1>7. AccountInv(r)'
  <2>1. users[r] = NoRow /\ authAccounts[r] = NoRow
    BY <1>0, InvParts DEF AccountInv
  <2>2. answer'[r].code = code
    BY <1>2, <1>3, AnsweredTyped DEF Became
  <2> QED
    BY <1>0, <1>3, <1>5, <2>1, <2>2 DEF AccountInv, Became
<1>8. SlotInv(r)'
  BY <1>3, <1>7, AccountRemains DEF Became
<1> QED
  BY <1>0, <1>3, <1>5, <1>6, <1>8, QuietStep

\* The transaction that makes the member fails: the account has to go.
LEMMA ActivationFailedKeeps ==
  ASSUME JoiningInv, NEW r \in Slots, ActivationFails(r), UNCHANGED plan
  PROVE  Kept
<1>0. /\ pc[r] = "activate" /\ Goto(r, "compensate")
      /\ UNCHANGED <<whitelist, links, users, authAccounts, expiring, rowRead, lapsed, inTime,
                     reported, plan>>
  BY DEF ActivationFails, joinVars
<1>1. PICK o \in Outcomes : outcome' = [outcome EXCEPT ![r] = o]
  BY DEF ActivationFails, Outcomes
<1>2. outcome' \in [Slots -> Outcomes] /\ \A s \in Slots \ {r} : outcome'[s] = outcome[s]
  BY <1>1, InvParts DEF OnboardingTypeOK
<1>3. RequestTyped' /\ Became(r, "compensate", call[r], answer[r])
  BY <1>0, GotoBecomes, InvParts DEF Labels
<1>4. TypedByPart'
  BY <1>0, <1>2, <1>3, InvParts
     DEF TypedByPart, InvitationDatabaseTypeOK, EligibilityTypeOK, OnboardingTypeOK, WhitelistTypeOK
<1>5. Routed(r)' /\ ReadInv(r)' /\ PlanInv(r)' /\ MailInv(r)' /\ JoinInv(r)'
  BY <1>0, <1>3, InvParts DEF Routed, ReadInv, PlanInv, MailInv, JoinInv, Became
<1>6. AccountInv(r)'
  BY <1>0, <1>3, InvParts DEF AccountInv, Became
<1> QED
  BY <1>0, <1>2, <1>3, <1>4, <1>5, <1>6, QuietStep DEF SlotInv

\* The account is deleted at the provider, or reported for cleaning.
LEMMA CompensateKeeps ==
  ASSUME JoiningInv, NEW r \in Slots, Compensate(r), UNCHANGED plan
  PROVE  Kept
<1>0. /\ pc[r] = "compensate"
      /\ UNCHANGED <<whitelist, links, users, expiring, rowRead, lapsed, inTime, outcome, plan>>
  BY DEF Compensate
<1>1. \/ authAccounts' = [authAccounts EXCEPT ![r] = NoRow] /\ reported' = reported
      \/ reported' = reported \cup {r} /\ authAccounts' = authAccounts
  BY DEF Compensate
<1>2. /\ authAccounts' \in [Slots -> Emails \cup {NoRow}]
      /\ \A s \in Slots \ {r} : authAccounts'[s] = authAccounts[s]
      /\ reported' \subseteq Slots /\ reported \subseteq reported'
      /\ \/ authAccounts'[r] = NoRow
         \/ r \in reported' /\ authAccounts'[r] = authAccounts[r]
  BY <1>1, InvParts DEF InvitationDatabaseTypeOK, OnboardingTypeOK
<1>3. CASE outcome[r] = "changed" /\ Goto(r, "recheck")
  <2>1. RequestTyped' /\ Became(r, "recheck", call[r], answer[r])
    BY <1>3, GotoBecomes, InvParts DEF Labels
  <2>2. TypedByPart'
    BY <1>0, <1>2, <2>1, InvParts
       DEF TypedByPart, InvitationDatabaseTypeOK, EligibilityTypeOK, OnboardingTypeOK, WhitelistTypeOK
  <2>3. Routed(r)' /\ ReadInv(r)' /\ PlanInv(r)' /\ MailInv(r)' /\ JoinInv(r)'
    BY <1>0, <2>1, InvParts DEF Routed, ReadInv, PlanInv, MailInv, JoinInv, Became
  <2>4. users[r] = NoRow
    BY <1>0, <1>3, InvParts DEF AccountInv
  <2>5. AccountInv(r)'
    BY <1>0, <1>2, <2>1, <2>4 DEF AccountInv, Became
  <2> QED
    BY <1>0, <1>2, <2>1, <2>2, <2>3, <2>5, QuietStep DEF SlotInv
<1>4. CASE outcome[r] # "changed" /\ \E code \in MembershipCodes : Respond(r, Answered(code))
  <2> PICK code \in MembershipCodes : Respond(r, Answered(code))
    BY <1>4
  <2>1. RequestTyped' /\ Became(r, "done", call[r], Answered(code))
    BY RespondBecomes, InvParts
  <2>2. TypedByPart'
    BY <1>0, <1>2, <2>1, InvParts
       DEF TypedByPart, InvitationDatabaseTypeOK, EligibilityTypeOK, OnboardingTypeOK, WhitelistTypeOK
  <2>3. users[r] # NoRow => outcome[r] = "unknown"
    BY <1>0, InvParts DEF AccountInv
  <2>4. AccountInv(r)'
    BY <1>0, <1>2, <2>1, <2>3, InvParts DEF AccountInv, Routed, Became
  <2>5. SlotInv(r)'
    BY <2>1, <2>4, AccountRemains DEF Became
  <2> QED
    BY <1>0, <1>2, <2>1, <2>2, <2>5, QuietStep
<1>5. \/ outcome[r] = "changed" /\ Goto(r, "recheck")
      \/ outcome[r] # "changed" /\ \E code \in MembershipCodes : Respond(r, Answered(code))
  <2>1. /\ "A409_ACCOUNT_ALREADY_EXISTS" \in MembershipCodes
        /\ "A500_ACCOUNT_ACTIVATION_FAILED" \in MembershipCodes
    BY Codes DEF OnboardingCodes
  <2> QED
    BY <2>1 DEF Compensate
<1> QED
  BY <1>3, <1>4, <1>5

\* The link is validated again to tell the student why it failed.
LEMMA RecheckKeeps ==
  ASSUME JoiningInv, NEW r \in Slots, Recheck(r), UNCHANGED plan
  PROVE  Kept
<1> DEFINE code == Eligibility(call[r].link)
           told == IF code = "OK" THEN "A500_ACCOUNT_ACTIVATION_FAILED" ELSE code
<1>0. /\ pc[r] = "recheck" /\ UNCHANGED <<joinVars, rowRead, onboardingVars>>
      /\ UNCHANGED <<whitelist, links, users, authAccounts, expiring, inTime, outcome, reported>>
  BY DEF Recheck, joinVars, onboardingVars
<1>1. CASE code = "I410_INVITATION_EXPIRED"
  <2>1. lapsed' = [lapsed EXCEPT ![r] = LinksDue] /\ Goto(r, "expire")
    BY <1>1 DEF Recheck
  <2>2. RequestTyped' /\ Became(r, "expire", call[r], answer[r])
    BY <2>1, GotoBecomes, InvParts DEF Labels
  <2>3. call[r] \in LinkCalls /\ links[call[r].link] # NoRow
    BY <1>0, InvParts DEF Routed
  <2> QED
    BY <1>0, <2>1, <2>2, <2>3, LapseSeen
<1>2. CASE code # "I410_INVITATION_EXPIRED"
  <2>1. told \in MembershipCodes
    BY EligibilityCodes, Codes DEF OnboardingCodes
  <2>2. Respond(r, Answered(told)) /\ lapsed' = lapsed
    BY <1>2 DEF Recheck
  <2> HIDE DEF told
  <2>3. RequestTyped' /\ Became(r, "done", call[r], Answered(told))
    BY <2>1, <2>2, RespondBecomes, InvParts
  <2>4. TypedByPart'
    BY <1>0, <2>2, <2>3, InvParts
       DEF TypedByPart, InvitationDatabaseTypeOK, EligibilityTypeOK, OnboardingTypeOK, WhitelistTypeOK
  <2>5. call[r] \in MembershipCalls
    BY <1>0, InvParts DEF Routed, MembershipCalls
  <2>6. SlotInv(r)'
    BY <1>0, <2>3, <2>5, DoneSlot
  <2> QED
    BY <1>0, <2>2, <2>3, <2>4, <2>6, QuietStep
<1> QED
  BY <1>1, <1>2

\* The links that a student's joining leaves: the one used is accepted, the
\* person's others are revoked.
LEMMA AcceptedLinks ==
  ASSUME InvitationDatabaseTypeOK, NEW p \in People, NEW l \in ActiveLinks(p),
         links' = [k \in Slots |->
                     IF k = l THEN [links[l] EXCEPT !.status = "ACCEPTED"]
                     ELSE Marked(ActiveLinks(p), "REVOKED")[k]]
  PROVE  /\ Ends(ActiveLinks(p)) /\ links'[l].status = "ACCEPTED"
         /\ \A k \in ActiveLinks(p) : k # l => links'[k].status = "REVOKED"
<1> DEFINE S == ActiveLinks(p)
<1>1. \A k \in S : k \in Slots /\ links[k] # NoRow /\ links[k].status = "ACTIVE" /\ links[k] \in Link
  BY ActiveLinksTyped, TablesTyped
<1>2. \A k \in Slots \ S : links'[k] = links[k]
  BY DEF Marked
<1>3. ASSUME NEW k \in S, NEW s \in {"ACCEPTED", "REVOKED"},
             links'[k] = [links[k] EXCEPT !.status = s]
      PROVE  /\ links'[k] \in Link /\ links'[k] # NoRow /\ links'[k].status = s
             /\ links'[k].person = links[k].person
             /\ links'[k].address = links[k].address /\ links'[k].due = links[k].due
  <2>1. links'[k] \in Link
    BY <1>1, <1>3 DEF Link, LinkStatuses
  <2> QED
    BY <1>1, <1>3, <2>1, LinkTyped DEF Link
<1>4. links'[l] = [links[l] EXCEPT !.status = "ACCEPTED"]
  BY <1>1
<1>5. \A k \in S : k # l => links'[k] = [links[k] EXCEPT !.status = "REVOKED"]
  BY <1>1 DEF Marked
<1>6. \A k \in S : /\ links'[k] \in Link /\ links'[k] # NoRow /\ links'[k].status # "ACTIVE"
                   /\ links'[k].person = links[k].person
                   /\ links'[k].address = links[k].address /\ links'[k].due = links[k].due
  BY <1>3, <1>4, <1>5
<1>7. links' \in [Slots -> Link \cup {NoRow}]
  <2>1. DOMAIN links' = Slots /\ links' = [k \in Slots |-> links'[k]]
    OBVIOUS
  <2>2. \A k \in Slots : links'[k] \in Link \cup {NoRow}
    BY <1>2, <1>6, TablesTyped
  <2> QED
    BY <2>1, <2>2
<1> QED
  BY <1>1, <1>2, <1>3, <1>4, <1>5, <1>6, <1>7 DEF Ends

\* The row of a new member is the row it was, accepted.
LEMMA JoinedRow ==
  ASSUME InvitationDatabaseTypeOK, NEW r \in Slots, NEW p \in People, whitelist[p] # NoRow,
         whitelist' = [WithStatus(p, "ACCEPTED") EXCEPT ![p].user = r]
  PROVE  \E new \in WhitelistRow :
           /\ whitelist' = [whitelist EXCEPT ![p] = new] /\ new # NoRow /\ new # whitelist[p]
           /\ new.version > whitelist[p].version /\ new.status = "ACCEPTED" /\ new.user = r
           /\ new.email = whitelist[p].email /\ new.deleted = whitelist[p].deleted
<1> DEFINE mid == RowWith(p, "ACCEPTED")
           new == [mid EXCEPT !.user = r]
<1>1. /\ WithStatus(p, "ACCEPTED") = [whitelist EXCEPT ![p] = mid]
      /\ mid \in WhitelistRow /\ mid.status = "ACCEPTED" /\ mid.version > whitelist[p].version
      /\ mid.email = whitelist[p].email /\ mid.deleted = whitelist[p].deleted
  BY StatusRow DEF InvitationStatuses
<1>2. whitelist[p].version \in Nat
  BY TablesTyped, RowTyped
<1> HIDE DEF mid
<1>3. /\ new \in WhitelistRow /\ new.status = "ACCEPTED" /\ new.version = mid.version
      /\ new.email = mid.email /\ new.deleted = mid.deleted /\ new.user = r
  BY <1>1 DEF WhitelistRow
<1>4. whitelist' = [whitelist EXCEPT ![p] = new]
  BY <1>1 DEF InvitationDatabaseTypeOK
<1> HIDE DEF new
<1>5. new # NoRow /\ new # whitelist[p]
  BY <1>1, <1>2, <1>3, RowTyped
<1> QED
  BY <1>1, <1>3, <1>4, <1>5

\* The transaction that makes the member: link, row and user change at once.
LEMMA ActivateKeeps ==
  ASSUME JoiningInv, NEW r \in Slots, Activate(r), UNCHANGED plan
  PROVE  Kept
<1> DEFINE l == call[r].link
           p == PersonOf(r)
           row == whitelist[p]
           S == ActiveLinks(p)
           user == [email |-> rowRead[r].email, number |-> rowRead[r].number]
<1>0. /\ pc[r] = "activate" /\ Unlocked(S) /\ StillInvited(r)
      /\ users' = [users EXCEPT ![r] = user]
      /\ whitelist' = [WithStatus(p, "ACCEPTED") EXCEPT ![p].user = r]
      /\ links' = [k \in Slots |-> IF k = l THEN [links[l] EXCEPT !.status = "ACCEPTED"]
                                   ELSE Marked(S, "REVOKED")[k]]
      /\ AfterCommit(r)
      /\ UNCHANGED <<authAccounts, expiring, rowRead, lapsed, inTime, reported, plan>>
  BY DEF Activate, UserToCreate
<1>1. /\ call[r] \in LinkCalls /\ l \in Slots /\ links[l] # NoRow /\ p \in People
      /\ links[l].person = p /\ links[l].status = "ACTIVE" /\ l \in S
  <2>1. call[r] \in LinkCalls /\ l \in Slots /\ links[l] # NoRow
    BY <1>0, InvParts, LinkCallTyped DEF Routed
  <2> QED
    BY <1>0, <2>1, InvParts, TablesTyped, LinkTyped DEF PersonOf, StillInvited, ActiveLinks
<1>2. row # NoRow /\ IsOpen(row) /\ row.status = "INVITED" /\ row.email = rowRead[r].email
  BY <1>0, <1>1, InvParts DEF StillInvited, JoinInv, IsOpen
<1>3. PICK new \in WhitelistRow :
        /\ whitelist' = [whitelist EXCEPT ![p] = new] /\ new # NoRow /\ new # row
        /\ new.version > row.version /\ new.status = "ACCEPTED" /\ new.user = r
        /\ new.email = row.email /\ new.deleted = row.deleted
  BY <1>0, <1>1, <1>2, JoinedRow, InvParts
<1>4. /\ Ends(S) /\ links'[l].status = "ACCEPTED"
      /\ \A k \in S : k # l => links'[k].status = "REVOKED"
  BY <1>0, <1>1, AcceptedLinks, InvParts
<1>5. \A k \in S : k \in Slots /\ links[k] # NoRow /\ links[k].person = p /\ links[k].status = "ACTIVE"
  BY ActiveLinksTyped, InvParts
<1> HIDE DEF S
<1>6. user \in Account /\ user.email = row.email /\ user # NoRow
  <2>1. EarlierVersion(rowRead[r], row)
    BY <1>0, InvParts DEF ReadInv
  <2>2. user \in Account
    BY <2>1, RowTyped DEF EarlierVersion, Account
  <2> QED
    BY <1>2, <2>2, NoRowIsNoSlot
<1> HIDE DEF user
<1>7. /\ users' \in [Slots -> Account \cup {NoRow}] /\ users'[r] = user
      /\ \A s \in Slots \ {r} : users'[s] = users[s]
  BY <1>0, <1>6, InvParts DEF InvitationDatabaseTypeOK
<1>8. /\ RequestTyped' /\ outcome' \in [Slots -> Outcomes]
      /\ \A s \in Slots \ {r} : outcome'[s] = outcome[s]
      /\ \/ Became(r, "done", call[r], Answered("OK"))
         \/ Became(r, "compensate", call[r], answer[r]) /\ outcome'[r] = "unknown"
  <2>1. CASE Respond(r, Answered("OK")) /\ UNCHANGED outcome
    <3>1. "OK" \in MembershipCodes
      BY Codes DEF LinkCodes
    <3> QED
      BY <2>1, <3>1, RespondBecomes, InvParts DEF OnboardingTypeOK
  <2>2. CASE Goto(r, "compensate") /\ outcome' = [outcome EXCEPT ![r] = "unknown"]
    BY <2>2, GotoBecomes, InvParts DEF OnboardingTypeOK, Outcomes, Labels
  <2> QED
    BY <1>0, <2>1, <2>2 DEF AfterCommit
<1>9. Apart(r) /\ call' = call /\ pc'[r] \in {"done", "compensate"}
  <2>1. Apart(r) /\ pc'[r] \in {"done", "compensate"}
    BY <1>0, <1>7, <1>8 DEF Became, Apart
  <2>2. call' = call
    BY <1>0 DEF AfterCommit, Respond, Goto
  <2> QED
    BY <2>1, <2>2
<1>10. RowMoves(row, new)
  BY <1>2, <1>3, NoRowIsNoSlot DEF RowMoves, Forward, IsOpen
<1>11. RowsTyped' /\ (\A q \in People : RowMoves(whitelist[q], whitelist'[q])) /\ LinksMove(r)
  <2>1. \A k \in S : k = r \/ links[k].due \/ (links[k].person = p /\ new # row)
    BY <1>3, <1>5
  <2>2. \A k \in ActiveLinks(p) \ S :
          WaitingMoves(row, new, pc[k] = "mail" /\ row.version = rowRead[k].version)
    BY DEF S
  <2> QED
    BY <1>1, <1>3, <1>4, <1>10, <2>1, <2>2, OneRowMoves
<1>12. Moves(r)
  BY <1>0, <1>9, <1>11 DEF Moves
<1>13. TypedByPart'
  BY <1>0, <1>4, <1>7, <1>8, <1>11, InvParts
     DEF TypedByPart, InvitationDatabaseTypeOK, EligibilityTypeOK, OnboardingTypeOK,
         WhitelistTypeOK, RowsTyped, Ends
<1>14. users[r] = NoRow /\ authAccounts[r] = rowRead[r].email /\ links[r] = NoRow
  BY <1>0, InvParts DEF AccountInv, LinkInv
<1>15. links'[r] = NoRow
  BY <1>4, <1>5, <1>14 DEF Ends
<1>16. SlotInv(r)'
  <2>1. Routed(r)' /\ ReadInv(r)' /\ PlanInv(r)' /\ MailInv(r)' /\ JoinInv(r)'
    <3>1. links'[l] # NoRow
      BY <1>1, <1>4 DEF Ends
    <3>2. Routed(r)'
      BY <1>0, <1>1, <1>8, <1>9, <3>1, InvParts DEF Routed, Became
    <3> QED
      BY <1>9, <3>2 DEF ReadInv, PlanInv, MailInv, JoinInv
  <2>2. AccountInv(r)'
    BY <1>0, <1>1, <1>2, <1>6, <1>7, <1>8, <1>9, <1>14 DEF AccountInv, Became
  <2> QED
    BY <2>1, <2>2 DEF SlotInv
<1>17. LinkInv(r)' /\ SettledInv'
  BY <1>12, <1>15, SettledKept DEF LinkInv, IsSettled
<1>18. LockInv'
  BY <1>0, <1>4, <1>9, LockKept
<1>19. /\ whitelist'[p] = new
       /\ \A q \in People : q # p => whitelist'[q] = whitelist[q]
  BY <1>1, <1>3, InvParts DEF RowsTyped
<1>20. ASSUME NEW q \in People, q = p
       PROVE  LinksOf(q, "ACCEPTED")' = {l}
  <2>1. LinksOf(q, "ACCEPTED") = {}
    BY <1>1, <1>2, <1>20, InvParts DEF MemberInv, IsOpen
  <2>2. \A k \in Slots \ {l} : ~ (links'[k] # NoRow /\ links'[k].person = q /\ links'[k].status = "ACCEPTED")
    BY <1>4, <2>1 DEF Ends, LinksOf
  <2>3. links'[l] # NoRow /\ links'[l].person = q
    BY <1>1, <1>4, <1>20 DEF Ends
  <2>4. LinksOf(q, "ACCEPTED")' =
          {k \in Slots : links'[k] # NoRow /\ links'[k].person = q /\ links'[k].status = "ACCEPTED"}
    BY DEF LinksOf
  <2> QED
    BY <1>1, <1>4, <2>2, <2>3, <2>4
<1>21. ASSUME NEW q \in People, q # p
       PROVE  LinksOf(q, "ACCEPTED")' = LinksOf(q, "ACCEPTED")
  BY <1>4, <1>5, <1>21 DEF LinksOf, Ends
<1>22. MemberInv'
  <2>1. ASSUME NEW q \in People, whitelist'[q] # NoRow, q # p
        PROVE  LET joined == whitelist'[q]
               IN  /\ joined.status = "ACCEPTED" <=> joined.user # NoRow
                   /\ joined.user = NoRow => LinksOf(q, "ACCEPTED")' = {}
                   /\ joined.user # NoRow =>
                        /\ ~joined.deleted
                        /\ users'[joined.user] # NoRow /\ users'[joined.user].email = joined.email
                        /\ LinksOf(q, "ACCEPTED")' = {call'[joined.user].link}
    <3>1. whitelist'[q] = whitelist[q] /\ whitelist[q] \in WhitelistRow
      BY <1>19, <2>1, InvParts, TablesTyped
    <3>2. whitelist[q].user # NoRow =>
            /\ whitelist[q].user \in Slots /\ users[whitelist[q].user] # NoRow
      BY <2>1, <3>1, RowTyped, InvParts DEF MemberInv
    <3>3. whitelist[q].user # NoRow => users'[whitelist[q].user] = users[whitelist[q].user]
      BY <1>7, <1>14, <3>2
    <3> QED
      BY <1>9, <1>21, <2>1, <3>1, <3>3, InvParts DEF MemberInv
  <2>2. LET joined == whitelist'[p]
        IN  /\ joined.status = "ACCEPTED" /\ joined.user # NoRow /\ ~joined.deleted
            /\ users'[joined.user] # NoRow /\ users'[joined.user].email = joined.email
            /\ {l} = {call'[joined.user].link}
    BY <1>2, <1>3, <1>6, <1>7, <1>9, <1>19, NoRowIsNoSlot DEF IsOpen
  <2>3. ASSUME NEW u \in Slots, users'[u] # NoRow
        PROVE  \E q \in People : whitelist'[q] # NoRow /\ whitelist'[q].user = u
    <3>1. CASE u = r
      BY <1>1, <1>3, <1>19, <3>1
    <3>2. CASE u # r
      <4>1. PICK q \in People : whitelist[q] # NoRow /\ whitelist[q].user = u
        BY <1>7, <2>3, <3>2, InvParts DEF MemberInv
      <4>2. q # p
        BY <1>2, <4>1, NoRowIsNoSlot DEF IsOpen
      <4> QED
        BY <1>19, <4>1, <4>2
    <3> QED
      BY <3>1, <3>2
  <2>4. ASSUME NEW q \in People, whitelist'[q] # NoRow
        PROVE  LET joined == whitelist'[q]
               IN  /\ joined.status = "ACCEPTED" <=> joined.user # NoRow
                   /\ joined.user = NoRow => LinksOf(q, "ACCEPTED")' = {}
                   /\ joined.user # NoRow =>
                        /\ ~joined.deleted
                        /\ users'[joined.user] # NoRow /\ users'[joined.user].email = joined.email
                        /\ LinksOf(q, "ACCEPTED")' = {call'[joined.user].link}
    <3>1. CASE q # p
      BY <2>1, <2>4, <3>1
    <3>2. CASE q = p
      BY <1>20, <2>2, <3>2
    <3> QED
      BY <3>1, <3>2
  <2> QED
    BY <2>3, <2>4 DEF MemberInv
<1> QED
  BY <1>12, <1>13, <1>16, <1>17, <1>18, <1>22, StepKeeps

-----------------------------------------------------------------------------
(* The whitelist *)

\* A request for one of the whitelist's writes has come in.
LEMMA WriteReceived ==
  ASSUME JoiningInv, NEW r \in Slots, NEW c \in WhitelistCalls \cup ImportCalls,
         Receive(r, c, "write"), UNCHANGED <<joinVars, lapsed, onboardingVars>>,
         rowRead' \in [Slots -> WhitelistRow \cup {NoRow}], plan' \in [Slots -> Seq(Decision)],
         \A s \in Slots \ {r} : rowRead'[s] = rowRead[s] /\ plan'[s] = plan[s],
         ChangesOneRow(c) => EarlierVersion(rowRead'[r], whitelist[c.person]),
         PlanInv(r)'
  PROVE  Kept
<1>0. /\ UNCHANGED <<whitelist, links, users, authAccounts, expiring, lapsed, inTime, outcome, reported>>
      /\ c \in MembershipCalls
  BY DEF joinVars, onboardingVars, MembershipCalls
<1>1. RequestTyped' /\ pc[r] = "idle" /\ Became(r, "write", c, answer[r])
  BY <1>0, ReceiveBecomes, InvParts DEF Labels
<1>2. TypedByPart'
  BY <1>0, <1>1, InvParts
     DEF TypedByPart, InvitationDatabaseTypeOK, EligibilityTypeOK, OnboardingTypeOK, WhitelistTypeOK
<1>3. Routed(r)' /\ MailInv(r)' /\ JoinInv(r)'
  BY <1>0, <1>1, InvParts DEF Routed, MailInv, JoinInv, Became
<1>4. ReadInv(r)'
  BY <1>0, <1>1 DEF ReadInv, Became
<1>5. AccountInv(r)'
  BY <1>0, <1>1, InvParts DEF AccountInv, Became
<1> QED
  BY <1>0, <1>1, <1>2, <1>3, <1>4, <1>5, QuietStep DEF SlotInv

\* A correction or removal is refused or goes on with the row it read.
LEMMA ChangeReceived ==
  ASSUME JoiningInv, NEW r \in Slots, NEW c \in WhitelistCalls, ReceiveChange(r, c),
         UNCHANGED <<lapsed, onboardingVars>>
  PROVE  Kept
<1> DEFINE row == whitelist[c.person]
           refusal == IF c.op = "update" THEN UpdateRefusal(c, row) ELSE RemovalRefusal(row)
<1>0. /\ UNCHANGED <<joinVars, plan>> /\ c.person \in People /\ c \in MembershipCalls
      /\ c.op \in {"update", "remove"}
  BY WhitelistCallTyped DEF ReceiveChange, MembershipCalls
<1>1. CASE refusal # "none"
  <2>1. refusal \in MembershipCodes
    BY <1>1, Codes DEF UpdateRefusal, RemovalRefusal, WhitelistCodes
  <2>2. ReceiveAndRespond(r, c, refusal) /\ rowRead' = rowRead
    BY <1>1 DEF ReceiveChange
  <2> QED
    BY <1>0, <2>1, <2>2, AnsweredAtOnce
<1>2. CASE refusal = "none"
  <2>1. Receive(r, c, "write") /\ rowRead' = [rowRead EXCEPT ![r] = row]
    BY <1>2 DEF ReceiveChange
  <2>2. row # NoRow /\ row \in WhitelistRow
    <3>1. row # NoRow
      BY <1>2 DEF UpdateRefusal, RemovalRefusal
    <3> QED
      BY <1>0, <3>1, InvParts, TablesTyped
  <2>3. EarlierVersion(row, row)
    BY <2>2, RowTyped DEF EarlierVersion
  <2>4. /\ rowRead' \in [Slots -> WhitelistRow \cup {NoRow}] /\ rowRead'[r] = row
        /\ \A s \in Slots \ {r} : rowRead'[s] = rowRead[s]
    BY <2>1, <2>2, InvParts DEF InvitationDatabaseTypeOK
  <2>5. plan' \in [Slots -> Seq(Decision)] /\ \A s \in Slots \ {r} : plan'[s] = plan[s]
    BY <1>0, InvParts DEF WhitelistTypeOK
  <2>6. PlanInv(r)'
    <3>1. call'[r] = c
      BY <2>1, InvParts DEF Receive, RequestTyped
    <3> QED
      BY <1>0, <3>1, CallKinds DEF PlanInv
  <2> QED
    BY <1>0, <2>1, <2>3, <2>4, <2>5, <2>6, WriteReceived
<1> QED
  BY <1>1, <1>2

\* A write that is refused changes nothing.
LEMMA NothingWritten ==
  ASSUME JoiningInv, NEW r \in Slots, pc[r] = "write", NEW code, Silent(code),
         Respond(r, Answered(code)), UNCHANGED <<joinVars, rowRead, plan, lapsed, onboardingVars>>
  PROVE  Kept
<1>0. UNCHANGED <<whitelist, links, users, authAccounts, expiring, rowRead, plan, lapsed, inTime,
                  outcome, reported>>
  BY DEF joinVars, onboardingVars
<1>1. RequestTyped' /\ Became(r, "done", call[r], Answered(code))
  BY RespondBecomes, InvParts DEF Silent
<1>2. Ends({}) /\ Unlocked({})
  BY <1>0, NoneEnd, InvParts DEF Unlocked
<1>3. LockInv' /\ expiring' \in [Slots -> SUBSET Slots]
  BY <1>0, <1>1, <1>2, LocksHeld, InvParts DEF InvitationDatabaseTypeOK
<1>4. \A l \in {} : links'[l].status # "ACCEPTED" /\ (l # r => links[l].due)
  OBVIOUS
<1> QED
  BY <1>0, <1>1, <1>2, <1>3, <1>4, LinksWritten

\* A row that nobody took is not accepted.
LEMMA NotJoined ==
  ASSUME JoiningInv, NEW p \in People, whitelist[p] # NoRow, whitelist[p].user = NoRow
  PROVE  whitelist[p].status # "ACCEPTED"
BY InvParts DEF MemberInv

\* A write of row p that answers OK.
LEMMA PersonWritten ==
  ASSUME JoiningInv, NEW r \in Slots, pc[r] = "write", Respond(r, Answered("OK")),
         UNCHANGED <<users, authAccounts, expiring, rowRead, plan, lapsed, onboardingVars>>,
         NEW p \in People, NEW new \in WhitelistRow, whitelist' = [whitelist EXCEPT ![p] = new],
         RowMoves(whitelist[p], new), new # whitelist[p], new.user = NoRow,
         NEW S \in SUBSET ActiveLinks(p), links' = Marked(S, "REVOKED"), Unlocked(S),
         \A l \in ActiveLinks(p) \ S : WaitingMoves(whitelist[p], new, FALSE)
  PROVE  Kept
<1>0. UNCHANGED <<users, authAccounts, expiring, rowRead, plan, lapsed, inTime, outcome, reported>>
  BY DEF onboardingVars
<1>1. Silent("OK")
  BY Codes DEF Silent, LinkCodes
<1>2. RequestTyped' /\ Became(r, "done", call[r], Answered("OK"))
  BY <1>1, RespondBecomes, InvParts DEF Silent
<1>3. \A l \in S : /\ l \in Slots /\ links[l] # NoRow /\ links[l].status = "ACTIVE"
                   /\ links[l].person = p
  BY ActiveLinksTyped, InvParts
<1>4. Ends(S) /\ \A l \in S : links'[l].status = "REVOKED"
  BY <1>3, MarkedEnd, InvParts DEF LinkStatuses
<1>5. LockInv' /\ expiring' \in [Slots -> SUBSET Slots]
  BY <1>0, <1>2, <1>4, LocksHeld, InvParts DEF InvitationDatabaseTypeOK
<1>6. \A l \in ActiveLinks(p) \ S :
        WaitingMoves(whitelist[p], new, pc[l] = "mail" /\ whitelist[p].version = rowRead[l].version)
  BY DEF WaitingMoves
<1>7. \A l \in S : links'[l].status # "ACCEPTED" /\ (links[l].due \/ links[l].person = p)
  BY <1>3, <1>4
<1> QED
  BY <1>0, <1>1, <1>2, <1>4, <1>5, <1>6, <1>7, RowWritten

\* A correction writes the row if it is as read and ends its links.
LEMMA UpdateKeeps ==
  ASSUME JoiningInv, NEW r \in Slots, UpdatePerson(r), UNCHANGED <<lapsed, onboardingVars>>
  PROVE  Kept
<1> DEFINE c == call[r]
           p == c.person
           row == whitelist[p]
           next == Corrected(c, rowRead[r])
           asRead == IsOpen(row) /\ row.status # "ACCEPTED" /\ row.version = rowRead[r].version
           taken == EmailIn(whitelist, next.email, p) \/ NumberIn(whitelist, next.number, p)
           S == RevokedByUpdate(r)
           code == IF asRead THEN "W409_DUPLICATE" ELSE "W409_UPDATE_CONFLICT"
<1>0. /\ pc[r] = "write" /\ c \in WhitelistCalls /\ c.op = "update"
      /\ UNCHANGED <<users, authAccounts, expiring, rowRead, plan, lapsed, onboardingVars>>
  BY DEF UpdatePerson
<1>1. /\ p \in People /\ row \in WhitelistRow /\ row # NoRow /\ rowRead[r] \in WhitelistRow
      /\ asRead => row = rowRead[r]
  BY <1>0, RowOfRequest DEF ChangesOneRow
<1>2. CASE asRead /\ ~taken
  <2> DEFINE mid == WithIdentity(row, next.email, next.number)
             new == Touched(mid)
  <2>1. /\ Unlocked(S) /\ links' = Marked(S, "REVOKED") /\ Respond(r, Answered("OK"))
        /\ whitelist' = [whitelist EXCEPT ![p] = new]
    BY <1>2 DEF UpdatePerson, WithIdentity
  <2>2. next.email \in Emails /\ next.number \in Numbers
    BY <1>0, <1>1, WhitelistCallTyped, RowTyped DEF Corrected, Chosen
  <2>3. S \in SUBSET ActiveLinks(p) /\ (next.email = row.email \/ S = ActiveLinks(p))
    BY <1>1, <1>2 DEF RevokedByUpdate
  <2> HIDE DEF next, S
  <2>4. /\ mid \in WhitelistRow /\ mid.status = row.status /\ mid.deleted = row.deleted
        /\ mid.user = row.user /\ mid.email = next.email /\ mid.version = row.version
    BY <1>1, <2>2, CorrectedRow
  <2> HIDE DEF mid
  <2>5. /\ new \in WhitelistRow /\ new.status = row.status /\ new.deleted = row.deleted
        /\ new.user = row.user /\ new.email = next.email /\ new.version = row.version + 1
    BY <2>4, TouchedRow
  <2> HIDE DEF new
  <2>6. new # NoRow /\ new # row /\ new.version > row.version
    BY <1>1, <2>5, RowTyped
  <2>7. row.user = NoRow /\ row.status # "ACCEPTED"
    BY <1>2 DEF IsOpen
  <2>8. RowMoves(row, new)
    BY <1>1, <2>5, <2>6, <2>7 DEF RowMoves, Forward
  <2>9. \A l \in ActiveLinks(p) \ S : WaitingMoves(row, new, FALSE)
    BY <2>3, <2>5, <2>6 DEF WaitingMoves, IsOpen, Waits
  <2> QED
    BY <1>0, <1>1, <2>1, <2>3, <2>5, <2>6, <2>7, <2>8, <2>9, PersonWritten
<1>3. CASE ~asRead \/ taken
  <2>1. Respond(r, Answered(code)) /\ UNCHANGED <<joinVars, rowRead, plan>>
    BY <1>3 DEF UpdatePerson, joinVars
  <2>2. Silent(code)
    BY Codes DEF Silent, WhitelistCodes
  <2> QED
    BY <1>0, <2>1, <2>2, NothingWritten
<1> QED
  BY <1>2, <1>3

\* A removal takes an open row off the list and ends its links.
LEMMA RemoveKeeps ==
  ASSUME JoiningInv, NEW r \in Slots, RemovePerson(r), UNCHANGED <<lapsed, onboardingVars>>
  PROVE  Kept
<1> DEFINE p == call[r].person
           row == whitelist[p]
           S == ActiveLinks(p)
           mid == [row EXCEPT !.deleted = TRUE]
           new == Touched(mid)
<1>0. /\ pc[r] = "write" /\ call[r] \in WhitelistCalls /\ call[r].op = "remove"
      /\ UNCHANGED <<users, authAccounts, expiring, rowRead, plan, lapsed, onboardingVars>>
  BY DEF RemovePerson
<1>1. p \in People /\ row \in WhitelistRow /\ row # NoRow
  BY <1>0, RowOfRequest DEF ChangesOneRow
<1>2. CASE IsOpen(row) /\ row.status # "ACCEPTED"
  <2>1. /\ Unlocked(S) /\ links' = Marked(S, "REVOKED") /\ Respond(r, Answered("OK"))
        /\ whitelist' = [whitelist EXCEPT ![p] = new]
    BY <1>2 DEF RemovePerson
  <2>2. /\ mid \in WhitelistRow /\ mid.status = row.status /\ mid.user = row.user
        /\ mid.version = row.version
    BY <1>1 DEF WhitelistRow
  <2> HIDE DEF mid
  <2>3. /\ new \in WhitelistRow /\ new.status = row.status /\ new.user = row.user
        /\ new.version = row.version + 1
    BY <2>2, TouchedRow
  <2> HIDE DEF new
  <2>4. new # NoRow /\ new # row /\ new.version > row.version
    BY <1>1, <2>3, RowTyped
  <2>5. row.user = NoRow
    BY <1>2 DEF IsOpen
  <2>6. RowMoves(row, new)
    BY <1>1, <1>2, <2>3, <2>4, <2>5 DEF RowMoves, Forward
  <2> HIDE DEF S
  <2>7. S \in SUBSET ActiveLinks(p) /\ \A l \in ActiveLinks(p) \ S : WaitingMoves(row, new, FALSE)
    BY DEF S
  <2> QED
    BY <1>0, <1>1, <2>1, <2>3, <2>4, <2>5, <2>6, <2>7, PersonWritten
<1>3. CASE ~IsOpen(row) \/ row.status = "ACCEPTED"
  <2>1. Respond(r, Answered("W409_DELETE_CONFLICT")) /\ UNCHANGED <<joinVars, rowRead, plan>>
    BY <1>3 DEF RemovePerson, joinVars
  <2>2. Silent("W409_DELETE_CONFLICT")
    BY Codes DEF Silent, WhitelistCodes
  <2> QED
    BY <1>0, <2>1, <2>2, NothingWritten
<1> QED
  BY <1>2, <1>3

\* A creation is refused or decides to insert or to restore.
LEMMA CreationReceived ==
  ASSUME JoiningInv, NEW r \in Slots, NEW c \in WhitelistCalls, ReceiveCreation(r, c),
         UNCHANGED <<lapsed, onboardingVars>>
  PROVE  Kept
<1>0. UNCHANGED <<joinVars, rowRead>> /\ c.op = "create" /\ c \in MembershipCalls
  BY DEF ReceiveCreation, MembershipCalls
<1>1. CASE (\E code \in CreationRefusals(c) : ReceiveAndRespond(r, c, code)) /\ plan' = plan
  <2>1. PICK code \in CreationRefusals(c) : ReceiveAndRespond(r, c, code)
    BY <1>1
  <2>2. CreationRefusals(c) \subseteq
          {"U409_EMAIL", "U409_STUDENT_NUMBER", "W409_EMAIL", "W409_STUDENT_NUMBER"}
    BY DEF CreationRefusals, MemberRefusals
  <2>3. code \in MembershipCodes
    BY <2>2, Codes DEF WhitelistCodes
  <2> QED
    BY <1>0, <1>1, <2>1, <2>3, AnsweredAtOnce
<1>2. ASSUME Receive(r, c, "write"), NEW d \in Decision, d.kind \in {"CREATE", "RESTORE"},
             d.kind = "RESTORE" => d.person \in People /\ whitelist[d.person] # NoRow,
             plan' = [plan EXCEPT ![r] = <<d>>]
      PROVE  Kept
  <2>1. /\ plan' \in [Slots -> Seq(Decision)] /\ plan'[r] = <<d>>
        /\ \A s \in Slots \ {r} : plan'[s] = plan[s]
    <3> DEFINE D == Seq(Decision)
               e == <<d>>
    <3>1. plan \in [Slots -> D] /\ e \in D
      BY <1>2, InvParts DEF WhitelistTypeOK
    <3> HIDE DEF D, e
    <3>2. plan' \in [Slots -> D] /\ plan'[r] = e /\ \A s \in Slots \ {r} : plan'[s] = plan[s]
      BY <1>2, <3>1 DEF e
    <3> QED
      BY <3>2 DEF D, e
  <2>2. rowRead' \in [Slots -> WhitelistRow \cup {NoRow}] /\ \A s \in Slots : rowRead'[s] = rowRead[s]
    BY <1>0, InvParts DEF InvitationDatabaseTypeOK
  <2>3. PlanInv(r)'
    <3>1. call'[r] = c /\ whitelist' = whitelist
      BY <1>0, <1>2, InvParts DEF Receive, RequestTyped, joinVars
    <3>2. plan'[r][1] = d
      BY <2>1
    <3> QED
      BY <1>2, <3>1, <3>2, CallKinds DEF PlanInv
  <2>4. ~ ChangesOneRow(c)
    BY <1>0 DEF ChangesOneRow
  <2> QED
    BY <1>0, <1>2, <2>1, <2>2, <2>3, <2>4, WriteReceived
<1>3. CASE /\ Receive(r, c, "write")
           /\ plan' = [plan EXCEPT ![r] = <<[kind |-> "CREATE", person |-> NoRow]>>]
  BY <1>2, <1>3 DEF Decision, Kinds
<1>4. CASE Receive(r, c, "write") /\ \E p \in RemovedRow(c.email, c.number) :
             plan' = [plan EXCEPT ![r] = <<[kind |-> "RESTORE", person |-> p]>>]
  <2>1. PICK p \in RemovedRow(c.email, c.number) :
          plan' = [plan EXCEPT ![r] = <<[kind |-> "RESTORE", person |-> p]>>]
    BY <1>4
  <2>2. p \in People /\ whitelist[p] # NoRow
    BY DEF RemovedRow, HolderOf
  <2> QED
    BY <1>2, <1>4, <2>1, <2>2 DEF Decision, Kinds
<1> QED
  BY <1>1, <1>3, <1>4 DEF ReceiveCreation

\* A creation inserts or restores its row, or meets a conflict.
LEMMA CreateKeeps ==
  ASSUME JoiningInv, NEW r \in Slots, CreatePerson(r), UNCHANGED <<lapsed, onboardingVars>>
  PROVE  Kept
<1> DEFINE c == call[r]
<1>0. /\ pc[r] = "write" /\ c \in WhitelistCalls /\ c.op = "create"
      /\ UNCHANGED <<links, users, authAccounts, expiring, rowRead, plan, lapsed, onboardingVars>>
  BY DEF CreatePerson
<1>1. ASSUME NEW p \in People, NEW new \in WhitelistRow,
             whitelist' = [whitelist EXCEPT ![p] = new], Respond(r, Answered("OK")),
             RowMoves(whitelist[p], new), new # whitelist[p], new.user = NoRow,
             \A l \in ActiveLinks(p) : WaitingMoves(whitelist[p], new, FALSE)
      PROVE  Kept
  <2>1. links' = Marked({}, "REVOKED")
    BY <1>0, InvParts DEF Marked, InvitationDatabaseTypeOK
  <2>2. Unlocked({}) /\ {} \in SUBSET ActiveLinks(p)
    BY DEF Unlocked
  <2>3. \A l \in ActiveLinks(p) \ {} : WaitingMoves(whitelist[p], new, FALSE)
    BY <1>1
  <2> HIDE DEF c
  <2> QED
    BY <1>0, <1>1, <2>1, <2>2, <2>3, PersonWritten
<1>2. ASSUME NEW code \in {"W409_DUPLICATE", "W409_RESTORE_CONFLICT"}, Respond(r, Answered(code)),
             whitelist' = whitelist
      PROVE  Kept
  <2>1. Silent(code) /\ UNCHANGED <<joinVars, rowRead, plan>>
    BY <1>0, <1>2, Codes DEF Silent, WhitelistCodes, joinVars
  <2> QED
    BY <1>0, <1>2, <2>1, NothingWritten
<1>3. ASSUME NEW p \in People, whitelist[p] = NoRow, Respond(r, Answered("OK")),
             whitelist' = [whitelist EXCEPT ![p] = NewPerson(c.email, c.number)]
      PROVE  Kept
  <2> DEFINE new == NewPerson(c.email, c.number)
  <2>1. /\ new \in WhitelistRow /\ new.status = "PENDING" /\ new.user = NoRow
    BY <1>0, WhitelistCallTyped, NewPersonRow
  <2>2. whitelist' = [whitelist EXCEPT ![p] = new]
    BY <1>3
  <2> HIDE DEF new
  <2>3. new # NoRow
    BY <2>1, RowTyped
  <2>4. RowMoves(whitelist[p], new)
    BY <1>3, <2>1, <2>3 DEF RowMoves
  <2>5. \A l \in ActiveLinks(p) : WaitingMoves(whitelist[p], new, FALSE)
    BY <1>3 DEF WaitingMoves, IsOpen
  <2> QED
    BY <1>1, <1>3, <2>1, <2>2, <2>3, <2>4, <2>5
<1>4. ASSUME NEW p \in People, whitelist[p] # NoRow, whitelist[p].deleted,
             whitelist[p].user = NoRow, Respond(r, Answered("OK")),
             whitelist' = [whitelist EXCEPT ![p] = Restored(whitelist[p])]
      PROVE  Kept
  <2> DEFINE row == whitelist[p]
             new == Restored(row)
  <2>1. row \in WhitelistRow /\ row.version \in Nat /\ row.status # "ACCEPTED"
    BY <1>4, NotJoined, RowTyped, TablesTyped, InvParts
  <2>2. /\ new \in WhitelistRow /\ new.status = "PENDING" /\ new.user = NoRow /\ ~new.deleted
        /\ new.version = row.version + 1
    BY <1>4, <2>1, RestoredRow
  <2>3. whitelist' = [whitelist EXCEPT ![p] = new]
    BY <1>4
  <2> HIDE DEF new
  <2>4. new # NoRow /\ new # row /\ new.version > row.version
    BY <2>1, <2>2, RowTyped
  <2>5. RowMoves(row, new)
    BY <1>4, <2>1, <2>2, <2>4 DEF RowMoves, Forward
  <2>6. \A l \in ActiveLinks(p) : WaitingMoves(row, new, FALSE)
    BY <1>4 DEF WaitingMoves, IsOpen
  <2> QED
    BY <1>1, <1>4, <2>2, <2>3, <2>4, <2>5, <2>6
<1>5. CASE plan[r][1].kind = "CREATE"
  <2>1. CASE /\ \E p \in People : /\ whitelist[p] = NoRow
                                  /\ whitelist' = [whitelist EXCEPT ![p] = NewPerson(c.email, c.number)]
             /\ Respond(r, Answered("OK"))
    BY <1>3, <2>1
  <2>2. CASE Respond(r, Answered("W409_DUPLICATE")) /\ whitelist' = whitelist
    BY <1>2, <2>2
  <2> QED
    BY <1>5, <2>1, <2>2 DEF CreatePerson
<1>6. CASE plan[r][1].kind = "RESTORE"
  <2> DEFINE p == plan[r][1].person
             row == whitelist[p]
  <2>1. p \in People /\ row # NoRow
    BY <1>0, <1>6, InvParts DEF PlanInv
  <2>2. CASE /\ row.deleted /\ row.user = NoRow
             /\ whitelist' = [whitelist EXCEPT ![p] = Restored(row)] /\ Respond(r, Answered("OK"))
    BY <1>4, <2>1, <2>2
  <2>3. CASE Respond(r, Answered("W409_RESTORE_CONFLICT")) /\ whitelist' = whitelist
    BY <1>2, <2>3
  <2> QED
    BY <1>6, <2>2, <2>3 DEF CreatePerson
<1> QED
  BY <1>5, <1>6 DEF CreatePerson

-----------------------------------------------------------------------------
(* Imports, and the passing of time *)

LEMMA ImportReceived ==
  ASSUME JoiningInv, NEW r \in Slots, NEW c \in ImportCalls, ReceiveImport(r, c),
         UNCHANGED <<lapsed, onboardingVars>>
  PROVE  Kept
<1>0. UNCHANGED <<joinVars, rowRead>> /\ c \in MembershipCalls
  BY DEF ReceiveImport, MembershipCalls
<1>1. ASSUME NEW code \in ImportCodes, ReceiveAndRespond(r, c, code), plan' = plan
      PROVE  Kept
  BY <1>0, <1>1, Codes, AnsweredAtOnce
<1>2. CASE ImportRefusal(c) # "none" /\ ReceiveAndRespond(r, c, ImportRefusal(c)) /\ plan' = plan
  <2>1. ImportRefusal(c) \in ImportCodes
    BY <1>2 DEF ImportRefusal, ImportCodes
  <2> QED
    BY <1>1, <1>2, <2>1
<1>3. CASE ReceiveAndRespond(r, c, "OK") /\ plan' = plan
  BY <1>1, <1>3 DEF ImportCodes
<1>4. CASE Receive(r, c, "write") /\ plan' = [plan EXCEPT ![r] = Decisions(c)]
  <2> DEFINE d == Decisions(c)
             D == Seq(Decision)
  <2>1. DecisionsFit(c, d) /\ d \in D
    BY AllDecisionsFit, InvParts DEF DecisionsFit
  <2>2. plan \in [Slots -> D] /\ plan' = [plan EXCEPT ![r] = d]
    BY <1>4, InvParts DEF WhitelistTypeOK
  <2> HIDE DEF d, D
  <2>3. plan' \in [Slots -> D] /\ plan'[r] = d /\ \A s \in Slots \ {r} : plan'[s] = plan[s]
    BY <2>1, <2>2
  <2>4. plan' \in [Slots -> Seq(Decision)]
    BY <2>3 DEF D
  <2>5. rowRead' \in [Slots -> WhitelistRow \cup {NoRow}] /\ \A s \in Slots : rowRead'[s] = rowRead[s]
    BY <1>0, InvParts DEF InvitationDatabaseTypeOK
  <2>6. PlanInv(r)'
    <3>1. call'[r] = c /\ whitelist' = whitelist
      BY <1>0, <1>4, InvParts DEF Receive, RequestTyped, joinVars
    <3>2. DecisionsFit(call[r], plan[r])'
      BY <2>1, <2>3, <3>1 DEF DecisionsFit, Fits
    <3> QED
      BY <3>1, <3>2, CallKinds DEF PlanInv
  <2>7. ~ ChangesOneRow(c)
    BY CallKinds DEF ChangesOneRow
  <2> QED
    BY <1>0, <1>4, <2>3, <2>4, <2>5, <2>6, <2>7, WriteReceived
<1> QED
  BY <1>2, <1>3, <1>4 DEF ReceiveImport

\* The transaction of an import writes all of its rows or none.
LEMMA ImportKeeps ==
  ASSUME JoiningInv, NEW r \in Slots, ImportPeople(r), UNCHANGED <<lapsed, onboardingVars>>
  PROVE  Kept
<1>0. /\ pc[r] = "write" /\ call[r] \in ImportCalls
      /\ UNCHANGED <<links, users, authAccounts, expiring, rowRead, plan, lapsed, inTime, outcome,
                     reported>>
  BY DEF ImportPeople, onboardingVars
<1>1. PICK code \in ImportCodes :
        Respond(r, Answered(code)) /\ RowsTyped' /\ \A p \in People : ImportMoves(whitelist[p], whitelist'[p])
  BY <1>0, ImportWrites, InvParts DEF PlanInv
<1>2. Silent(code)
  BY Codes DEF Silent, ImportCodes
<1>3. RequestTyped' /\ Became(r, "done", call[r], Answered(code))
  BY <1>1, <1>2, RespondBecomes, InvParts DEF Silent
<1>4. Ends({}) /\ Unlocked({})
  BY <1>0, NoneEnd, InvParts DEF Unlocked
<1>5. LockInv' /\ expiring' \in [Slots -> SUBSET Slots]
  BY <1>0, <1>3, <1>4, LocksHeld, InvParts DEF InvitationDatabaseTypeOK
<1>6. TypedByPart'
  BY <1>0, <1>1, <1>3, <1>4, <1>5, WrittenTyped
<1>7. ASSUME NEW p \in People
      PROVE  /\ RowMoves(whitelist[p], whitelist'[p])
             /\ whitelist'[p] = whitelist[p] \/ whitelist'[p].user = NoRow
             /\ whitelist[p] # NoRow => WaitingMoves(whitelist[p], whitelist'[p], FALSE)
  <2>1. CASE whitelist'[p] = whitelist[p]
    BY <2>1 DEF RowMoves, WaitingMoves, Waits
  <2>2. CASE whitelist'[p] # whitelist[p]
    <3>1. whitelist'[p] # NoRow
      BY <1>1, <2>2, RowTyped DEF ImportMoves
    <3>2. RowMoves(whitelist[p], whitelist'[p])
      BY <1>1, <2>2, <3>1 DEF ImportMoves, RowMoves, Forward
    <3>3. whitelist[p] # NoRow => WaitingMoves(whitelist[p], whitelist'[p], FALSE)
      BY <1>1, <2>2, <3>1 DEF ImportMoves, WaitingMoves, IsOpen, Waits
    <3> QED
      BY <1>1, <2>2, <3>2, <3>3 DEF ImportMoves
  <2> QED
    BY <2>1, <2>2
<1>8. LinksMove(r)
  <2>1. \A l \in Slots : links[l] # NoRow => links[l].person \in People /\ whitelist[links[l].person] # NoRow
    BY TablesTyped, LinkTyped, InvParts DEF LinkInv
  <2>2. \A l \in Slots : links[l] # NoRow =>
          LinkMovesWith(r, l, whitelist[links[l].person], whitelist'[links[l].person])
    BY <1>0, <1>7, <2>1 DEF LinkMovesWith, WaitingMoves
  <2> QED
    BY <1>0, <2>2 DEF LinksMove, LinkMoves
<1>9. ~ IsSettled(r)'
  BY <1>2, <1>3, AnsweredTyped DEF IsSettled, Silent, Became
<1> QED
  BY <1>0, <1>3, <1>4, <1>5, <1>6, <1>7, <1>8, <1>9, WriteStep

\* The expiry time of a link passes.
LEMMA TimeKeeps ==
  ASSUME JoiningInv, NEW l \in Slots, LinkFallsDue(l),
         UNCHANGED <<requestVars, lapsed, onboardingVars, plan>>
  PROVE  Kept
<1> DEFINE new == [links[l] EXCEPT !.due = TRUE]
<1>0. /\ UNCHANGED <<pc, call, attempt, answer, whitelist, users, authAccounts, expiring, rowRead,
                     lapsed, inTime, outcome, reported, plan>>
      /\ links[l] # NoRow /\ links[l] \in Link /\ links' = [links EXCEPT ![l] = new]
  BY InvParts, TablesTyped DEF LinkFallsDue, requestVars, onboardingVars
<1>1. /\ new \in Link /\ new # NoRow /\ new.person = links[l].person /\ new.due
      /\ new.status = links[l].status /\ new.address = links[l].address
  <2>1. new \in Link /\ new.person = links[l].person /\ new.due
        /\ new.status = links[l].status /\ new.address = links[l].address
    BY <1>0 DEF Link
  <2> QED
    BY <2>1, LinkTyped
<1> HIDE DEF new
<1>2. /\ links' \in [Slots -> Link \cup {NoRow}] /\ links'[l] = new
      /\ \A k \in Slots \ {l} : links'[k] = links[k]
  BY <1>0, <1>1, InvParts DEF InvitationDatabaseTypeOK
<1>3. \A k \in Slots : links[k] # NoRow =>
        /\ links'[k] # NoRow /\ links'[k].person = links[k].person
        /\ links'[k].status = links[k].status /\ links'[k].address = links[k].address
        /\ links[k].due => links'[k].due
  BY <1>1, <1>2
<1>4. \A k \in Slots : links[k] = NoRow <=> links'[k] = NoRow
  BY <1>0, <1>1, <1>2
<1>5. TypedByPart'
  BY <1>0, <1>2, InvParts
     DEF TypedByPart, RequestTyped, InvitationDatabaseTypeOK, EligibilityTypeOK, OnboardingTypeOK,
         WhitelistTypeOK
<1>6. Moves(l)
  <2>1. \A p \in People : RowMoves(whitelist[p], whitelist'[p])
    BY <1>0 DEF RowMoves
  <2>2. LinksMove(l)
    BY <1>0, <1>3, <1>4 DEF LinksMove, LinkMoves, LinkMovesWith, WaitingMoves, Waits
  <2>3. Apart(l)
    BY <1>0 DEF Apart
  <2> QED
    BY <1>0, <2>1, <2>2, <2>3 DEF Moves
<1>7. SlotInv(l)'
  <2>0. ASSUME pc[l] \in {"account", "activate"}
        PROVE  /\ call[l].link \in Slots /\ links[call[l].link] # NoRow
               /\ PersonOf(l)' = PersonOf(l)
    <3>1. call[l].link \in Slots /\ links[call[l].link] # NoRow
      BY <2>0, InvParts, LinkCallTyped DEF Routed
    <3> QED
      BY <1>0, <1>3, <3>1 DEF PersonOf
  <2>1. Routed(l)'
    BY <1>0, <1>3, InvParts, LinkCallTyped DEF Routed
  <2>2. ReadInv(l)'
    BY <1>0, <2>0, InvParts DEF ReadInv
  <2>3. PlanInv(l)'
    BY <1>0, InvParts DEF PlanInv, DecisionsFit, Fits
  <2>4. MailInv(l)'
    BY <1>0, <1>3, InvParts DEF MailInv
  <2>5. JoinInv(l)'
    BY <1>0, <1>3, <2>0, InvParts DEF JoinInv
  <2>6. AccountInv(l)'
    BY <1>0, InvParts DEF AccountInv
  <2> QED
    BY <2>1, <2>2, <2>3, <2>4, <2>5, <2>6 DEF SlotInv
<1>8. LinkInv(l)'
  BY <1>0, <1>3, InvParts DEF LinkInv
<1>9. SettledInv'
  BY <1>0, <1>6, SettledKept
<1>10. LockInv'
  <2>1. \A s \in Slots : expiring[s] \subseteq Slots /\ lapsed[s] \subseteq Slots
    BY InvParts DEF InvitationDatabaseTypeOK, EligibilityTypeOK
  <2> QED
    BY <1>0, <1>3, <2>1, InvParts DEF LockInv
<1>11. MemberInv'
  <2>1. \A k \in Slots : links'[k] # NoRow /\ links'[k].status = "ACCEPTED" =>
                           links[k] # NoRow /\ links[k].status = "ACCEPTED"
    BY <1>3, <1>4
  <2> QED
    BY <1>0, <1>6, <2>1, MemberKept
<1> QED
  BY <1>5, <1>6, <1>7, <1>8, <1>9, <1>10, <1>11, StepKeeps

-----------------------------------------------------------------------------
(* The invariant holds *)

LEMMA StepKept ==
  ASSUME JoiningInv, MembershipNext
  PROVE  Kept
<1>1. CASE InvitationsNext /\ UNCHANGED <<lapsed, onboardingVars, plan>>
  BY <1>1, InvitationReceived, LinkCreated, InvitationSecuredKeeps, InvitationSupersededKeeps,
     MailFailedKeeps DEF InvitationsNext
<1>2. CASE EligibilityNext /\ UNCHANGED <<onboardingVars, plan>>
  BY <1>2, VerifyKeeps, LinksMarkedKeeps, RowMarkedKeeps, AbortKeeps DEF EligibilityNext
<1>3. CASE OnboardingNext /\ UNCHANGED plan
  BY <1>3, CompleteReceivedKeeps, AccountMadeKeeps, AccountRefusedKeeps, ActivateKeeps,
     ActivationFailedKeeps, CompensateKeeps, RecheckKeeps DEF OnboardingNext
<1>4. CASE WhitelistNext /\ UNCHANGED <<lapsed, onboardingVars>>
  BY <1>4, ChangeReceived, CreationReceived, UpdateKeeps, RemoveKeeps, CreateKeeps
     DEF WhitelistNext
<1>5. CASE ImportNext /\ UNCHANGED <<lapsed, onboardingVars>>
  BY <1>5, ImportReceived, ImportKeeps DEF ImportNext
<1>6. CASE \E l \in Slots : LinkFallsDue(l) /\ UNCHANGED <<requestVars, lapsed, onboardingVars, plan>>
  BY <1>6, TimeKeeps
<1> QED
  BY <1>1, <1>2, <1>3, <1>4, <1>5, <1>6 DEF MembershipNext

\* The start satisfies the invariant.
LEMMA JoiningStarts == MembershipInit => JoiningInv
<1> SUFFICES ASSUME MembershipInit PROVE JoiningInv
  OBVIOUS
<1>0. /\ \A r \in Slots : /\ pc[r] = "idle" /\ call[r] = NoCall /\ answer[r] = NoAnswer
                          /\ links[r] = NoRow /\ users[r] = NoRow /\ authAccounts[r] = NoRow
                          /\ expiring[r] = {} /\ lapsed[r] = {} /\ plan[r] = <<>>
      /\ whitelist = InitialWhitelist /\ reported = {}
  BY DEF MembershipInit, RequestsInit, InvitationDatabaseInit, EligibilityInit, OnboardingInit,
         WhitelistInit
<1>1. TypedByPart
  <2>1. NoAnswer \in Answer(MembershipCodes) /\ NoAnswer.code = "none"
    BY AnsweredTyped DEF NoAnswer, MembershipCodes
  <2>2. RequestTyped
    <3> DEFINE Answers == Answer(MembershipCodes)
               a == NoAnswer
    <3>1. a \in Answers
      BY <2>1
    <3>2. answer = [r \in Slots |-> a] /\ pc = [r \in Slots |-> "idle"]
          /\ call = [r \in Slots |-> NoCall] /\ attempt = [r \in Slots |-> 1]
      BY DEF MembershipInit, RequestsInit
    <3> HIDE DEF Answers, a
    <3>3. answer \in [Slots -> Answers] /\ pc \in [Slots -> Labels]
          /\ call \in [Slots -> MembershipCalls \cup {NoCall}]
      BY <3>1, <3>2 DEF Labels
    <3> QED
      BY <3>2, <3>3 DEF RequestTyped, Answers
  <2>3. InvitationDatabaseTypeOK
    BY InvitationDatabaseAssumption
       DEF MembershipInit, InvitationDatabaseInit, InvitationDatabaseTypeOK
  <2>4. EligibilityTypeOK /\ OnboardingTypeOK
    BY DEF MembershipInit, EligibilityInit, OnboardingInit, EligibilityTypeOK, OnboardingTypeOK,
           Outcomes
  <2>5. WhitelistTypeOK
    <3> DEFINE D == Seq(Decision)
    <3>1. <<>> \in D
      OBVIOUS
    <3>2. plan = [r \in Slots |-> <<>>]
      BY DEF MembershipInit, WhitelistInit
    <3> HIDE DEF D
    <3>3. plan \in [Slots -> D]
      BY <3>1, <3>2
    <3> QED
      BY <3>3 DEF WhitelistTypeOK, D
  <2> QED
    BY <2>2, <2>3, <2>4, <2>5 DEF TypedByPart
<1>2. ASSUME NEW r \in Slots
      PROVE  SlotInv(r) /\ LinkInv(r) /\ ~IsSettled(r)
  <2>1. NoAnswer.code = "none"
    BY DEF NoAnswer, Answered
  <2>2. Routed(r) /\ ReadInv(r) /\ PlanInv(r) /\ MailInv(r) /\ JoinInv(r)
    BY <1>0, <2>1 DEF Routed, ReadInv, PlanInv, MailInv, JoinInv
  <2>3. AccountInv(r)
    BY <1>0 DEF AccountInv
  <2> QED
    BY <1>0, <2>2, <2>3 DEF SlotInv, LinkInv, IsSettled
<1>3. SettledInv
  BY <1>2 DEF SettledInv
<1>4. LockInv
  BY <1>0 DEF LockInv
<1>5. MemberInv
  <2>1. \A p \in People : LinksOf(p, "ACCEPTED") = {}
    BY <1>0 DEF LinksOf
  <2>2. \A p \in People : whitelist[p] # NoRow =>
          whitelist[p].user = NoRow /\ whitelist[p].status # "ACCEPTED"
    BY <1>0, MembershipAssumption
  <2> QED
    BY <1>0, <2>1, <2>2 DEF MemberInv
<1>6. MembershipTypeOK
  BY <1>1, TypeParts
<1> QED
  BY <1>2, <1>3, <1>4, <1>5, <1>6 DEF JoiningInv

\* A stutter keeps it.
LEMMA NothingHappens == JoiningInv /\ UNCHANGED membershipVars => JoiningInv'
<1> SUFFICES ASSUME JoiningInv, UNCHANGED membershipVars PROVE JoiningInv'
  OBVIOUS
<1>0. UNCHANGED <<pc, call, attempt, answer, whitelist, links, users, authAccounts, expiring, rowRead,
                  lapsed, inTime, outcome, reported, plan>>
  BY DEF membershipVars, requestVars, joinVars, onboardingVars
<1>1. MembershipTypeOK'
  <2>1. TypedByPart'
    BY <1>0, InvParts
       DEF TypedByPart, RequestTyped, InvitationDatabaseTypeOK, EligibilityTypeOK, OnboardingTypeOK,
           WhitelistTypeOK
  <2> QED
    BY <2>1 DEF TypedByPart, RequestTyped, Labels, MembershipTypeOK
<1>2. ASSUME NEW r \in Slots
      PROVE  SlotInv(r)' /\ LinkInv(r)'
  <2>1. Routed(r)' /\ ReadInv(r)' /\ MailInv(r)' /\ JoinInv(r)' /\ AccountInv(r)' /\ LinkInv(r)'
    BY <1>0, InvParts DEF Routed, ReadInv, MailInv, JoinInv, AccountInv, LinkInv, PersonOf
  <2>2. PlanInv(r)'
    BY <1>0, InvParts DEF PlanInv, DecisionsFit, Fits
  <2> QED
    BY <2>1, <2>2 DEF SlotInv
<1>3. SettledInv' /\ LockInv' /\ MemberInv'
  BY <1>0, InvParts DEF SettledInv, IsSettled, LockInv, MemberInv, LinksOf
<1> QED
  BY <1>1, <1>2, <1>3 DEF JoiningInv

\* So it holds in every reachable state.
LEMMA JoiningInvariant == MembershipSpec => []JoiningInv
<1>1. JoiningInv /\ [MembershipNext]_membershipVars => JoiningInv'
  BY StepKept, NothingHappens DEF Kept
<1> QED
  BY <1>1, JoiningStarts, PTL DEF MembershipSpec

-----------------------------------------------------------------------------
(* What steps tell and end *)

\* Every step of request s but two: it tells nobody that a link was sent, and it
\* carries no import out.
Plain(s) ==
  /\ \A t \in Slots \ {s} : pc'[t] = pc[t] /\ answer'[t] = answer[t]
  /\ answer'[s].code \in {"SENT", "RESENT"} => answer'[s] = answer[s]
  /\ pc[s] = "write" /\ pc'[s] = "done" => call[s] \notin ImportCalls

\* Receiving a request and going on tell nothing; an answer tells its code.
LEMMA PlainSteps ==
  ASSUME JoiningInv, NEW r \in Slots
  PROVE  /\ \A c, l : Receive(r, c, l) => Plain(r)
         /\ \A c, code : ReceiveAndRespond(r, c, code) /\ code \notin {"SENT", "RESENT"} => Plain(r)
         /\ \A l : Goto(r, l) /\ pc[r] # "write" => Plain(r)
         /\ \A code : Respond(r, Answered(code)) /\ code \notin {"SENT", "RESENT"}
                      /\ (pc[r] = "write" => call[r] \notin ImportCalls) => Plain(r)
<1> DEFINE Answers == Answer(MembershipCodes)
<1>1. pc \in [Slots -> Labels] /\ answer \in [Slots -> Answers]
  BY InvParts DEF RequestTyped
<1> HIDE DEF Answers
<1>2. \A code : Answered(code).code = code
  BY DEF Answered
<1>3. ASSUME NEW c, NEW l, Receive(r, c, l) PROVE Plain(r)
  BY <1>1, <1>3 DEF Receive, Plain
<1>4. ASSUME NEW c, NEW code, ReceiveAndRespond(r, c, code), code \notin {"SENT", "RESENT"}
      PROVE  Plain(r)
  <2> DEFINE a == Answered(code)
  <2>1. a.code = code /\ pc[r] = "idle" /\ pc' = [pc EXCEPT ![r] = "done"]
        /\ answer' = [answer EXCEPT ![r] = a]
    BY <1>2, <1>4 DEF ReceiveAndRespond
  <2> HIDE DEF a
  <2> QED
    BY <1>1, <1>4, <2>1 DEF Plain
<1>5. ASSUME NEW l, Goto(r, l), pc[r] # "write" PROVE Plain(r)
  BY <1>1, <1>5 DEF Goto, Plain
<1>6. ASSUME NEW code, Respond(r, Answered(code)), code \notin {"SENT", "RESENT"},
             pc[r] = "write" => call[r] \notin ImportCalls
      PROVE  Plain(r)
  <2> DEFINE a == Answered(code)
  <2>1. a.code = code /\ pc' = [pc EXCEPT ![r] = "done"] /\ answer' = [answer EXCEPT ![r] = a]
    BY <1>2, <1>6 DEF Respond
  <2> HIDE DEF a
  <2> QED
    BY <1>1, <1>6, <2>1 DEF Plain
<1> QED
  BY <1>3, <1>4, <1>5, <1>6

\* Apart from mails that succeed and imports, steps say nothing of either.
LEMMA OtherStepsPlain ==
  ASSUME JoiningInv, MembershipNext
  PROVE  \E s \in Slots : \/ Plain(s)
                          \/ InvitationSecured(s) /\ UNCHANGED <<lapsed, onboardingVars, plan>>
                          \/ ImportPeople(s) /\ UNCHANGED <<lapsed, onboardingVars>>
<1>1. ASSUME NEW r \in Slots, NEW c \in InvitationCalls, ReceiveInvitation(r, c) PROVE Plain(r)
  <2>1. InvitationRefusal(c.op, whitelist[c.person]) \notin {"SENT", "RESENT"}
    BY DEF InvitationRefusal
  <2> QED
    BY <1>1, <2>1, PlainSteps DEF ReceiveInvitation
<1>2. ASSUME NEW r \in Slots, CreateLink(r) \/ InvitationSuperseded(r) PROVE Plain(r)
  BY <1>2, PlainSteps DEF CreateLink, InvitationSuperseded
<1>3. ASSUME NEW r \in Slots, MailFailed(r) PROVE Plain(r)
  BY <1>3, PlainSteps DEF MailFailed
<1>4. ASSUME NEW r \in Slots, NEW c \in LinkCalls, ReceiveVerify(r, c) \/ ReceiveComplete(r, c)
      PROVE  Plain(r)
  <2>1. Eligibility(c.link) \notin {"SENT", "RESENT"}
    BY DEF Eligibility
  <2>2. CASE ReceiveRefused(r, c)
    BY <2>1, <2>2, PlainSteps DEF ReceiveRefused
  <2>3. CASE ReceiveVerify(r, c) /\ ~ReceiveRefused(r, c)
    <3>1. PICK code \in {"I409_INVITATION_ALREADY_ACCEPTED", "OK"} : ReceiveAndRespond(r, c, code)
      BY <2>3 DEF ReceiveVerify
    <3> QED
      BY <3>1, PlainSteps
  <2>4. CASE ReceiveComplete(r, c) /\ ~ReceiveRefused(r, c)
    BY <2>4, PlainSteps DEF ReceiveComplete
  <2> QED
    BY <1>4, <2>2, <2>3, <2>4
<1>5. ASSUME NEW r \in Slots, MarkExpiredLinks(r) \/ MarkExpiredRow(r) \/ AbortExpiry(r)
      PROVE  Plain(r)
  BY <1>5, PlainSteps DEF MarkExpiredLinks, MarkExpiredRow, AbortExpiry
<1>6. ASSUME NEW r \in Slots, CreateAuthAccount(r) \/ AuthAccountRefused(r) PROVE Plain(r)
  BY <1>6, PlainSteps DEF CreateAuthAccount, AuthAccountRefused
<1>7. ASSUME NEW r \in Slots, Activate(r) \/ ActivationFails(r) PROVE Plain(r)
  BY <1>7, PlainSteps DEF Activate, AfterCommit, ActivationFails
<1>8. ASSUME NEW r \in Slots, Compensate(r) PROVE Plain(r)
  BY <1>8, PlainSteps DEF Compensate
<1>9. ASSUME NEW r \in Slots, Recheck(r) PROVE Plain(r)
  <2>1. Eligibility(call[r].link) \notin {"SENT", "RESENT"}
    BY DEF Eligibility
  <2> QED
    BY <1>9, <2>1, PlainSteps DEF Recheck
<1>10. ASSUME NEW r \in Slots, NEW c \in WhitelistCalls, ReceiveChange(r, c) \/ ReceiveCreation(r, c)
       PROVE  Plain(r)
  <2>1. /\ UpdateRefusal(c, whitelist[c.person]) \notin {"SENT", "RESENT"}
        /\ RemovalRefusal(whitelist[c.person]) \notin {"SENT", "RESENT"}
    BY DEF UpdateRefusal, RemovalRefusal
  <2>2. CASE ReceiveChange(r, c)
    BY <2>1, <2>2, PlainSteps DEF ReceiveChange
  <2>3. CASE ReceiveCreation(r, c)
    <3>1. CreationRefusals(c) \cap {"SENT", "RESENT"} = {}
      BY DEF CreationRefusals, MemberRefusals
    <3> QED
      BY <2>3, <3>1, PlainSteps DEF ReceiveCreation
  <2> QED
    BY <1>10, <2>2, <2>3
<1>11. ASSUME NEW r \in Slots, UpdatePerson(r) \/ RemovePerson(r) \/ CreatePerson(r)
       PROVE  Plain(r)
  <2>1. call[r] \notin ImportCalls
    BY <1>11, CallKinds DEF UpdatePerson, RemovePerson, CreatePerson
  <2>2. CASE UpdatePerson(r)
    BY <2>1, <2>2, PlainSteps DEF UpdatePerson
  <2>3. CASE RemovePerson(r)
    BY <2>1, <2>3, PlainSteps DEF RemovePerson
  <2>4. CASE CreatePerson(r)
    BY <2>1, <2>4, PlainSteps DEF CreatePerson
  <2> QED
    BY <1>11, <2>2, <2>3, <2>4
<1>12. ASSUME NEW r \in Slots, NEW c \in ImportCalls, ReceiveImport(r, c) PROVE Plain(r)
  <2>1. ImportRefusal(c) \notin {"SENT", "RESENT"}
    BY DEF ImportRefusal
  <2> QED
    BY <1>12, <2>1, PlainSteps DEF ReceiveImport
<1>13. ASSUME NEW l \in Slots, UNCHANGED requestVars PROVE Plain(l)
  BY <1>13 DEF requestVars, Plain
<1>14. CASE InvitationsNext /\ UNCHANGED <<lapsed, onboardingVars, plan>>
  BY <1>1, <1>2, <1>3, <1>14 DEF InvitationsNext
<1>15. CASE EligibilityNext
  BY <1>4, <1>5, <1>15 DEF EligibilityNext
<1>16. CASE OnboardingNext
  BY <1>4, <1>6, <1>7, <1>8, <1>9, <1>16 DEF OnboardingNext
<1>17. CASE WhitelistNext
  BY <1>10, <1>11, <1>17 DEF WhitelistNext
<1>18. CASE ImportNext /\ UNCHANGED <<lapsed, onboardingVars>>
  BY <1>12, <1>18 DEF ImportNext
<1>19. CASE \E l \in Slots : LinkFallsDue(l) /\ UNCHANGED requestVars
  BY <1>13, <1>19
<1> QED
  BY <1>14, <1>15, <1>16, <1>17, <1>18, <1>19 DEF MembershipNext

-----------------------------------------------------------------------------
(* Theorems *)

\* Every variable of the joining of the association has its type, for any number
\* of people and requests and for imports of any length.
THEOREM MembershipTyped == MembershipSpec => []MembershipTypeOK
<1>1. JoiningInv => MembershipTypeOK
  BY DEF JoiningInv
<1> QED
  BY <1>1, JoiningInvariant, PTL

\* One invitation, one member: a row is accepted exactly when one user took it,
\* through one accepted link (the transaction of complete against resends,
\* corrections, removals, imports and itself).
THEOREM AcceptedOnceAlways == MembershipSpec => []AcceptedOnce
<1>1. JoiningInv => AcceptedOnce
  BY DEF JoiningInv, MemberInv, AcceptedOnce
<1> QED
  BY <1>1, JoiningInvariant, PTL

\* A member has the address that the whitelist has for them (complete inserts the
\* user from the row that validate read).
THEOREM MembersHaveOwnAddress == MembershipSpec => []MemberHasOwnAddress
<1>1. JoiningInv => MemberHasOwnAddress
  BY DEF JoiningInv, MemberInv, MemberHasOwnAddress
<1> QED
  BY <1>1, JoiningInvariant, PTL

\* A person has at most one link that was sent and is in use, and while they are
\* invited it went to the address on the whitelist (sendInvitations and
\* resendInvitations against corrections and expiry).
THEOREM LinksGoToTheRightAddress == MembershipSpec => []OneLinkToTheRightAddress
<1>1. JoiningInv => OneLinkToTheRightAddress
  <2> SUFFICES ASSUME JoiningInv, NEW p \in People, NEW l \in SettledLinks(p)
               PROVE  /\ \A m \in SettledLinks(p) : m = l
                      /\ whitelist[p].status = "INVITED" => links[l].address = whitelist[p].email
    BY DEF OneLinkToTheRightAddress
  <2>1. \A m \in SettledLinks(p) : m \in Slots /\ IsSettled(m) /\ links[m].person = p
    BY DEF SettledLinks, ActiveLinks, IsSettled
  <2> QED
    BY <2>1, InvParts DEF SettledInv
<1> QED
  BY <1>1, JoiningInvariant, PTL

\* An account at the provider that is no member's is still being worked on, on
\* record, or was never confirmed (the compensation in complete).
THEOREM OrphansKnown == MembershipSpec => []OrphansAreKnown
<1>1. JoiningInv => OrphansAreKnown
  BY InvParts DEF AccountInv, OrphansAreKnown
<1> QED
  BY <1>1, JoiningInvariant, PTL

\* A member has an account at the provider under their address, unless the commit
\* that made them a member was not confirmed (complete).
THEOREM MembersSignIn == MembershipSpec => []MembersCanSignIn
<1>1. JoiningInv => MembersCanSignIn
  BY InvParts DEF AccountInv, MembersCanSignIn
<1> QED
  BY <1>1, JoiningInvariant, PTL

\* The rows of the whitelist go through their stages in order, and a member's row
\* never changes again (all services that write whitelisted_users).
THEOREM RowsMoveForward == MembershipSpec => WhitelistMovesForward
<1>1. JoiningInv /\ [MembershipNext]_membershipVars =>
        [\A p \in People :
           whitelist[p] # NoRow /\ whitelist'[p] # whitelist[p] =>
             LET old == whitelist[p]
                 new == whitelist'[p]
             IN  /\ new # NoRow /\ old.status # "ACCEPTED"
                 /\ \/ new.status = old.status
                    \/ old.status = "PENDING" /\ new.status \in {"INVITED", "FAILED"}
                    \/ old.status \in {"FAILED", "EXPIRED"} /\ new.status = "INVITED"
                    \/ old.status = "INVITED" /\ new.status \in {"EXPIRED", "ACCEPTED"}
                    \/ old.deleted /\ ~new.deleted /\ new.status = "PENDING"
        ]_membershipVars
  BY StepKept DEF Kept, RowMoves, Forward
<1>2. MembershipSpec => []JoiningInv /\ [][MembershipNext]_membershipVars
  BY JoiningInvariant DEF MembershipSpec
<1> QED
  BY <1>1, <1>2, PTL DEF WhitelistMovesForward

\* When an administrator is told that a link was sent, the person is invited and
\* nothing but time has ended the link (the conditional update after the mail in
\* sendInvitations and resendInvitations).
THEOREM SentLinksUsable == MembershipSpec => SentMeansUsable
<1>1. ASSUME JoiningInv, MembershipNext, NEW r \in Slots,
             answer'[r].code \in {"SENT", "RESENT"}, answer[r].code = "none"
      PROVE  /\ links'[r].status = "ACTIVE" \/ links'[r].due
             /\ whitelist'[links[r].person].status = "INVITED"
  <2>1. InvitationSecured(r)
    <3>1. PICK s \in Slots : Plain(s) \/ InvitationSecured(s) \/ ImportPeople(s)
      BY <1>1, OtherStepsPlain
    <3>2. CASE Plain(s)
      BY <1>1, <3>2 DEF Plain
    <3>3. CASE InvitationSecured(s)
      <4>1. s # r => answer'[r] = answer[r]
        BY <1>1, <3>3, InvParts DEF InvitationSecured, Respond, RequestTyped
      <4> QED
        BY <1>1, <3>3, <4>1
    <3>4. CASE ImportPeople(s)
      <4>1. PICK code : Respond(s, Answered(code)) /\ code \in ImportCodes
        BY <1>1, <3>4, ImportWrites, InvParts DEF PlanInv, ImportPeople
      <4>2. s # r => answer'[r] = answer[r]
        BY <1>1, <4>1, InvParts DEF Respond, RequestTyped
      <4>3. answer'[s] = Answered(code)
        BY <1>1, <4>1, InvParts DEF Respond, RequestTyped
      <4> QED
        BY <1>1, <4>1, <4>2, <4>3 DEF Answered, ImportCodes
    <3> QED
      BY <3>1, <3>2, <3>3, <3>4
  <2> DEFINE p == call[r].person
  <2>2. /\ pc[r] = "mail" /\ RowAsRead(r) /\ whitelist' = WithStatus(p, "INVITED")
        /\ links' = Marked(ReplacedLinks(r), "REVOKED")
    BY <2>1 DEF InvitationSecured
  <2>3. p \in People /\ whitelist[p] # NoRow /\ links[r] # NoRow /\ links[r].person = p
    BY <1>1, <2>2, RowOfRequest, InvParts DEF MailInv, LinkInv
  <2>4. links[r].status = "ACTIVE" \/ links[r].due
    BY <1>1, <2>2, InvParts DEF MailInv, RowAsRead
  <2>5. links'[r] = links[r]
    BY <2>2 DEF Marked, ReplacedLinks
  <2>6. whitelist'[p].status = "INVITED"
    <3>1. WithStatus(p, "INVITED")[p].status = "INVITED"
      <4> DEFINE t == RowWith(p, "INVITED")
      <4>1. WithStatus(p, "INVITED") = [whitelist EXCEPT ![p] = t] /\ t.status = "INVITED"
        BY <1>1, <2>3, StatusRow, InvParts DEF InvitationStatuses
      <4> HIDE DEF t
      <4> QED
        BY <1>1, <2>3, <4>1, InvParts DEF RowsTyped
    <3> QED
      BY <2>2, <3>1
  <2> QED
    BY <2>3, <2>4, <2>5, <2>6
<1>2. JoiningInv /\ [MembershipNext]_membershipVars =>
        [\A r \in Slots :
           answer'[r].code \in {"SENT", "RESENT"} /\ answer[r].code = "none" =>
             /\ links'[r].status = "ACTIVE" \/ links'[r].due
             /\ whitelist'[links[r].person].status = "INVITED"
        ]_membershipVars
  BY <1>1
<1>3. MembershipSpec => []JoiningInv /\ [][MembershipNext]_membershipVars
  BY JoiningInvariant DEF MembershipSpec
<1> QED
  BY <1>2, <1>3, PTL DEF SentMeansUsable

\* An import tells the truth, whatever its length and whatever happened between
\* its decisions and its transaction: answered with OK it has written every row it
\* reports, otherwise none (importUsers).
THEOREM ImportsTellTheTruth == MembershipSpec => ImportAnswersTruthfully
<1> DEFINE Truthful(r) ==
             \/ /\ answer'[r].code = "OK"
                /\ \A i \in WrittenRows(plan[r]) :
                     \E p \in People :
                       /\ whitelist'[p] # NoRow /\ ~whitelist'[p].deleted
                       /\ whitelist'[p].email = call[r].rows[i].email
                       /\ whitelist'[p].number = call[r].rows[i].number
             \/ answer'[r].code # "OK" /\ whitelist' = whitelist
<1>1. ASSUME JoiningInv, MembershipNext, NEW r \in Slots,
             pc[r] = "write", pc'[r] = "done", call[r] \in ImportCalls
      PROVE  Truthful(r)
  <2>1. ImportPeople(r)
    <3>1. PICK s \in Slots : Plain(s) \/ InvitationSecured(s) \/ ImportPeople(s)
      BY <1>1, OtherStepsPlain
    <3>2. CASE Plain(s)
      BY <1>1, <3>2 DEF Plain
    <3>3. CASE InvitationSecured(s)
      BY <1>1, <3>3, InvParts DEF InvitationSecured, Respond, RequestTyped
    <3>4. CASE ImportPeople(s)
      <4>1. pc' = [pc EXCEPT ![s] = "done"]
        BY <3>4 DEF ImportPeople, Respond
      <4>2. s = r
        BY <1>1, <4>1, InvParts DEF RequestTyped
      <4> QED
        BY <3>4, <4>2
    <3> QED
      BY <3>1, <3>2, <3>3, <3>4
  <2>2. PICK code \in ImportCodes :
          /\ Respond(r, Answered(code))
          /\ code # "OK" => whitelist' = whitelist
          /\ code = "OK" =>
               \A i \in WrittenRows(plan[r]) : \E p \in People :
                 /\ whitelist'[p] # NoRow /\ ~whitelist'[p].deleted
                 /\ whitelist'[p].email = call[r].rows[i].email
                 /\ whitelist'[p].number = call[r].rows[i].number
    BY <1>1, <2>1, ImportWrites, InvParts DEF PlanInv
  <2>3. answer'[r] = Answered(code)
    BY <1>1, <2>2, InvParts DEF Respond, RequestTyped
  <2>4. answer'[r].code = code
    BY <2>3 DEF Answered
  <2> QED
    BY <2>2, <2>4
<1>2. JoiningInv /\ [MembershipNext]_membershipVars =>
        [\A r \in Slots :
           pc[r] = "write" /\ pc'[r] = "done" /\ call[r] \in ImportCalls => Truthful(r)
        ]_membershipVars
  BY <1>1
<1>3. MembershipSpec => []JoiningInv /\ [][MembershipNext]_membershipVars
  BY JoiningInvariant DEF MembershipSpec
<1> QED
  BY <1>2, <1>3, PTL DEF ImportAnswersTruthfully

\* An import that nothing overtakes goes through, whatever its length, its policy
\* and the tables it meets: its decisions never get in each other's way, and each
\* row that it writes is on the whitelist once (importUsers, the loop over the rows
\* and the loop of its transaction).
THEOREM ImportsFit == MembershipSpec => []ImportDecisionsFit
<1>1. JoiningInv => ImportDecisionsFit
  BY CarriedOutFits, InvParts DEF ImportDecisionsFit
<1> QED
  BY <1>1, JoiningInvariant, PTL

=============================================================================
