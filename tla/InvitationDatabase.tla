-------------------------- MODULE InvitationDatabase --------------------------
(***************************************************************************)
(* The tables behind joining the association: the whitelist, the           *)
(* invitation links, the accounts of members, and the accounts that the    *)
(* authentication provider (Supabase) keeps outside the database.          *)
(*                                                                         *)
(* A link is named by the request that created it, an account by the       *)
(* request that created it at the provider.  Transactions run at READ      *)
(* COMMITTED: one that commits is a step, unless what it read may be stale *)
(* when it writes; then it is two.  A transaction that marks links and     *)
(* goes on holds their row locks (expiring).  The clock is abstract: the   *)
(* expiry of a link passes at some moment, and updated_at is a counter     *)
(* that moves with every update of the row.                                *)
(***************************************************************************)
EXTENDS Requests, FiniteSets

CONSTANTS
  People,            \* ids of whitelist rows
  Emails,            \* addresses in the association's domain
  Numbers,           \* student numbers
  InitialWhitelist,  \* the whitelist at the start
  NoRow              \* an id that has no row

VARIABLES
  whitelist,         \* whitelisted_users
  links,             \* invitations, by the request that made them
  users,             \* users who joined, by the id of their auth account
  authAccounts,      \* addresses of the accounts at the provider
  rowRead,           \* the whitelist row a handler read and goes on with
  expiring           \* links that an open transaction marked as expired

joinVars == <<whitelist, links, users, authAccounts, expiring>>

InvitationStatuses == {"PENDING", "INVITED", "FAILED", "EXPIRED", "ACCEPTED"}
LinkStatuses == {"ACTIVE", "ACCEPTED", "EXPIRED", "REVOKED", "FAILED"}

WhitelistRow == [email   : Emails,
                 number  : Numbers,
                 status  : InvitationStatuses,
                 user    : Slots \cup {NoRow},
                 deleted : BOOLEAN,
                 version : Nat]

Link == [person  : People,
         status  : LinkStatuses,
         address : Emails,
         due     : BOOLEAN]

Account == [email : Emails, number : Numbers]

ASSUME InvitationDatabaseAssumption ==
  /\ InitialWhitelist \in [People -> WhitelistRow \cup {NoRow}]
  /\ NoRow \notin WhitelistRow \cup Link \cup Account \cup Emails \cup Slots

InvitationDatabaseInit ==
  /\ whitelist = InitialWhitelist
  /\ links = [r \in Slots |-> NoRow]
  /\ users = [r \in Slots |-> NoRow]
  /\ authAccounts = [r \in Slots |-> NoRow]
  /\ rowRead = [r \in Slots |-> NoRow]
  /\ expiring = [r \in Slots |-> {}]

InvitationDatabaseTypeOK ==
  /\ whitelist \in [People -> WhitelistRow \cup {NoRow}]
  /\ links \in [Slots -> Link \cup {NoRow}]
  /\ users \in [Slots -> Account \cup {NoRow}]
  /\ authAccounts \in [Slots -> Emails \cup {NoRow}]
  /\ rowRead \in [Slots -> WhitelistRow \cup {NoRow}]
  /\ expiring \in [Slots -> SUBSET Slots]

-----------------------------------------------------------------------------

\* A row as it is first inserted.
NewPerson(email, number) ==
  [email |-> email, number |-> number, status |-> "PENDING",
   user |-> NoRow, deleted |-> FALSE, version |-> 0]

\* A row that is on the whitelist and not yet a member's.
IsOpen(row) == row # NoRow /\ ~row.deleted /\ row.user = NoRow

\* Every update moves updated_at.
Touched(row) == [row EXCEPT !.version = @ + 1]

WithStatus(p, s) ==
  [whitelist EXCEPT ![p] = Touched([@ EXCEPT !.status = s])]

ActiveLinks(p) ==
  {l \in Slots : /\ links[l] # NoRow
                 /\ links[l].person = p
                 /\ links[l].status = "ACTIVE"}

\* The links of set S take status s.
Marked(S, s) ==
  [l \in Slots |-> IF l \in S THEN [links[l] EXCEPT !.status = s] ELSE links[l]]

\* No open transaction holds the lock of a link of S.
Unlocked(S) == \A r \in Slots : expiring[r] \cap S = {}

\* A row of table t, other than row but, has this address or this number.
EmailIn(t, email, but) ==
  \E i \in DOMAIN t \ {but} : t[i] # NoRow /\ t[i].email = email
NumberIn(t, number, but) ==
  \E i \in DOMAIN t \ {but} : t[i] # NoRow /\ t[i].number = number

\* A member has this address or number.
IsMember(email, number) ==
  EmailIn(users, email, NoRow) \/ NumberIn(users, number, NoRow)

\* The expiry time of link l passes.
LinkFallsDue(l) ==
  /\ links[l] # NoRow /\ ~links[l].due
  /\ links' = [links EXCEPT ![l].due = TRUE]
  /\ UNCHANGED <<whitelist, users, authAccounts, expiring, rowRead>>

=============================================================================
