----------------------------- MODULE Eligibility -----------------------------
(***************************************************************************)
(* InvitationEligibilityService and the verification endpoint: whether a   *)
(* link may still be used.  Nothing in the system watches the clock: a     *)
(* link is marked expired when somebody opens it after its time, in a      *)
(* transaction that first marks links, then looks for another valid link   *)
(* and then, on the strength of that look, marks the row.                  *)
(* Tokens that name no link are refused before anything is read and are    *)
(* not modelled.                                                           *)
(***************************************************************************)
EXTENDS InvitationDatabase

CONSTANTS
  LinkCalls          \* requests that carry a link

VARIABLES
  lapsed             \* the links whose time had passed when a handler looked

LinkCall == [op : {"verify", "complete"}, link : Slots]

LinkCodes ==
  {"OK", "I409_INVITATION_ALREADY_ACCEPTED", "I410_INVITATION_REVOKED",
   "I410_INVITATION_UNAVAILABLE", "I410_INVITATION_EXPIRED", "500"}

ASSUME EligibilityAssumption ==
  LinkCalls \subseteq LinkCall /\ NoCall \notin LinkCalls

EligibilityInit == lapsed = [r \in Slots |-> {}]

EligibilityTypeOK == lapsed \in [Slots -> SUBSET Slots]

eligibilityVars == <<joinVars, rowRead, lapsed>>

PersonOf(r) == links[call[r].link].person

LinksDue == {l \in Slots : links[l] # NoRow /\ links[l].due}

\* What validate says of link l.
Eligibility(l) ==
  LET link == links[l]
      row  == whitelist[link.person]
  IN  IF \/ link.status = "ACCEPTED" \/ row.status = "ACCEPTED"
         \/ row.user # NoRow
      THEN "I409_INVITATION_ALREADY_ACCEPTED"
      ELSE IF link.status = "REVOKED" THEN "I410_INVITATION_REVOKED"
      ELSE IF link.status = "FAILED" \/ row.deleted
      THEN "I410_INVITATION_UNAVAILABLE"
      ELSE IF link.status = "EXPIRED" \/ link.due
      THEN "I410_INVITATION_EXPIRED"
      ELSE IF row.status # "INVITED" THEN "I410_INVITATION_UNAVAILABLE"
      ELSE "OK"

\* validate refuses the link of a request that has just come in; of an expired
\* one it first records the expiry.
ReceiveRefused(r, c) ==
  /\ Eligibility(c.link) # "OK"
  /\ \/ /\ Eligibility(c.link) = "I410_INVITATION_EXPIRED"
        /\ Receive(r, c, "expire")
        /\ lapsed' = [lapsed EXCEPT ![r] = LinksDue]
     \/ /\ Eligibility(c.link) # "I410_INVITATION_EXPIRED"
        /\ ReceiveAndRespond(r, c, Eligibility(c.link))
        /\ UNCHANGED lapsed
  /\ UNCHANGED <<joinVars, rowRead>>

\* verify only tells the student what the sign-up page shows.
ReceiveVerify(r, c) ==
  /\ c.op = "verify" /\ links[c.link] # NoRow
  /\ \/ ReceiveRefused(r, c)
     \/ /\ Eligibility(c.link) = "OK"
        /\ LET row == whitelist[links[c.link].person]
           IN  ReceiveAndRespond(r, c,
                 IF IsMember(row.email, row.number)
                 THEN "I409_INVITATION_ALREADY_ACCEPTED" ELSE "OK")
        /\ UNCHANGED eligibilityVars

\* The links of the person that were ACTIVE with time left at the look.
ValidLinks(r) == ActiveLinks(PersonOf(r)) \ lapsed[r]

\* The first statements of markExpiredInvitations: the links whose time has
\* passed are marked, and if another one is valid that is all.
MarkExpiredLinks(r) ==
  LET overdue == ActiveLinks(PersonOf(r)) \cap lapsed[r]
  IN  /\ pc[r] = "expire"
      /\ Unlocked(overdue)
      /\ \/ /\ ValidLinks(r) # {}
            /\ links' = Marked(overdue, "EXPIRED")
            /\ Respond(r, Answered("I410_INVITATION_EXPIRED"))
            /\ UNCHANGED expiring
         \/ /\ ValidLinks(r) = {}
            /\ expiring' = [expiring EXCEPT ![r] = overdue]
            /\ Goto(r, "expireRow")
            /\ UNCHANGED links
      /\ UNCHANGED <<whitelist, users, authAccounts, rowRead, lapsed>>

\* Mutant: any person without a valid link is expired.
AnyRow(p) == ~whitelist[p].deleted

\* The row of p is one that expires with its last link.
ExpirableRow(p) == IsOpen(whitelist[p]) /\ whitelist[p].status = "INVITED"

\* Mutant: the transaction of r is left open.
StillLocked(r) == expiring

\* The transaction of r ends and gives its locks back.
Released(r) == [expiring EXCEPT ![r] = {}]

\* Its last statement: an invited person without a valid link is expired.  The
\* transaction commits and the marks of its links show.
MarkExpiredRow(r) ==
  LET p == PersonOf(r)
  IN  /\ pc[r] = "expireRow"
      /\ whitelist' = IF ExpirableRow(p)
                      THEN WithStatus(p, "EXPIRED") ELSE whitelist
      /\ links' = Marked(expiring[r], "EXPIRED")
      /\ expiring' = Released(r)
      /\ Respond(r, Answered("I410_INVITATION_EXPIRED"))
      /\ UNCHANGED <<users, authAccounts, rowRead, lapsed>>

\* The database chooses the transaction as the victim of a deadlock.
AbortExpiry(r) ==
  /\ pc[r] = "expireRow"
  /\ expiring' = Released(r)
  /\ Respond(r, Answered("500"))
  /\ UNCHANGED <<whitelist, links, users, authAccounts, rowRead, lapsed>>

EligibilityNext ==
  \E r \in Slots :
    \/ \E c \in LinkCalls : ReceiveVerify(r, c)
    \/ MarkExpiredLinks(r)
    \/ MarkExpiredRow(r)
    \/ AbortExpiry(r)

=============================================================================
