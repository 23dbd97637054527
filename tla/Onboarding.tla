------------------------------ MODULE Onboarding ------------------------------
(***************************************************************************)
(* OnboardingService.complete: a student with a valid link becomes a       *)
(* member.  The account is created at the authentication provider first,   *)
(* then a transaction checks the invitation again and writes the user; if  *)
(* it fails, the account at the provider is deleted again, and if that     *)
(* fails too it is written to the server's log for manual cleaning.        *)
(* Weak passwords and missing consent are refused before anything is read. *)
(***************************************************************************)
EXTENDS Eligibility

VARIABLES
  inTime,            \* whether the link had time left at acceptedAt
  outcome,           \* how the activation transaction of a request ended
  reported           \* accounts reported in the log for manual cleaning

onboardingVars == <<inTime, outcome, reported>>

Outcomes == {"none", "changed", "duplicate", "failed", "unknown"}

OnboardingCodes ==
  LinkCodes \cup {"A409_ACCOUNT_ALREADY_EXISTS", "A503_AUTH_PROVIDER_UNAVAILABLE",
                  "A400_WEAK_PASSWORD", "A500_ACCOUNT_ACTIVATION_FAILED"}

OnboardingInit ==
  /\ inTime = [r \in Slots |-> FALSE]
  /\ outcome = [r \in Slots |-> "none"]
  /\ reported = {}

OnboardingTypeOK ==
  /\ inTime \in [Slots -> BOOLEAN]
  /\ outcome \in [Slots -> Outcomes]
  /\ reported \subseteq Slots

\* The link is validated, the row is read with it, and nobody has joined under
\* its address or number.
ReceiveComplete(r, c) ==
  /\ c.op = "complete" /\ links[c.link] # NoRow
  /\ \/ ReceiveRefused(r, c)
     \/ /\ Eligibility(c.link) = "OK"
        /\ LET row == whitelist[links[c.link].person]
           IN  \/ /\ IsMember(row.email, row.number)
                  /\ ReceiveAndRespond(r, c, "A409_ACCOUNT_ALREADY_EXISTS")
                  /\ UNCHANGED rowRead
               \/ /\ ~IsMember(row.email, row.number)
                  /\ Receive(r, c, "account")
                  /\ rowRead' = [rowRead EXCEPT ![r] = row]
        /\ UNCHANGED <<joinVars, lapsed>>
  /\ UNCHANGED onboardingVars

\* The provider makes an account for the address that was read.
CreateAuthAccount(r) ==
  /\ pc[r] = "account"
  /\ \A s \in Slots : authAccounts[s] # rowRead[r].email
  /\ authAccounts' = [authAccounts EXCEPT ![r] = rowRead[r].email]
  /\ inTime' = [inTime EXCEPT ![r] = ~links[call[r].link].due]
  /\ Goto(r, "activate")
  /\ UNCHANGED <<whitelist, links, users, expiring, rowRead, lapsed,
                 outcome, reported>>

\* It has one for that address, or cannot be reached, or finds the password weak,
\* or its answer is lost after it made the account.
AuthAccountRefused(r) ==
  /\ pc[r] = "account"
  /\ \/ /\ \E s \in Slots : authAccounts[s] = rowRead[r].email
        /\ Respond(r, Answered("A409_ACCOUNT_ALREADY_EXISTS"))
        /\ UNCHANGED authAccounts
     \/ /\ \E code \in {"A503_AUTH_PROVIDER_UNAVAILABLE", "A400_WEAK_PASSWORD"} :
             Respond(r, Answered(code))
        /\ UNCHANGED authAccounts
     \/ /\ \A s \in Slots : authAccounts[s] # rowRead[r].email
        /\ authAccounts' = [authAccounts EXCEPT ![r] = rowRead[r].email]
        /\ Respond(r, Answered("A503_AUTH_PROVIDER_UNAVAILABLE"))
  /\ UNCHANGED <<whitelist, links, users, expiring, rowRead, lapsed,
                 onboardingVars>>

\* Mutant: nothing is looked at again.
NotRechecked(r) == TRUE

\* Mutant: the row is looked at again, the link is not.
RowStillInvited(r) ==
  IsOpen(whitelist[PersonOf(r)]) /\ whitelist[PersonOf(r)].status = "INVITED"

\* The transaction finds the link and the row still fit to be accepted.
StillInvited(r) ==
  /\ links[call[r].link].status = "ACTIVE"
  /\ inTime[r]
  /\ IsOpen(whitelist[PersonOf(r)])
  /\ whitelist[PersonOf(r)].status = "INVITED"

\* Mutant: the address and the number, both strings, change places.
UserWithFieldsSwapped(r) == [email |-> rowRead[r].number, number |-> rowRead[r].email]

\* The user to be inserted, from the row as validate read it.
UserToCreate(r) == [email |-> rowRead[r].email, number |-> rowRead[r].number]

\* Mutant: the account is cleaned up whether or not the transaction failed.
CleanInAnyCase(r) ==
  Goto(r, "compensate") /\ outcome' = [outcome EXCEPT ![r] = "failed"]

\* The transaction of r has committed.  Its answer may be lost: the handler then
\* believes that it failed.
AfterCommit(r) ==
  \/ Respond(r, Answered("OK")) /\ UNCHANGED outcome
  \/ Goto(r, "compensate") /\ outcome' = [outcome EXCEPT ![r] = "unknown"]

\* The user takes the row, its link is accepted and the person's other links
\* end, all or nothing.
Activate(r) ==
  LET l == call[r].link
      p == PersonOf(r)
  IN  /\ pc[r] = "activate"
      /\ ~IsMember(rowRead[r].email, rowRead[r].number)
      /\ Unlocked(ActiveLinks(p))
      /\ StillInvited(r)
      /\ users' = [users EXCEPT ![r] = UserToCreate(r)]
      /\ links' = [l2 \in Slots |->
                     IF l2 = l THEN [links[l] EXCEPT !.status = "ACCEPTED"]
                     ELSE Marked(ActiveLinks(p), "REVOKED")[l2]]
      /\ whitelist' = [WithStatus(p, "ACCEPTED") EXCEPT ![p].user = r]
      /\ AfterCommit(r)
      /\ UNCHANGED <<authAccounts, expiring, rowRead, lapsed, inTime, reported>>

\* Mutant: the account of a failed activation stays where it is.
FailsWithoutCleaning(r) ==
  /\ pc[r] = "activate"
  /\ outcome' = [outcome EXCEPT ![r] = "failed"]
  /\ Respond(r, Answered("A500_ACCOUNT_ACTIVATION_FAILED"))
  /\ UNCHANGED <<joinVars, rowRead, lapsed, inTime, reported>>

\* The transaction writes nothing: address or number are taken, the invitation
\* changed, or the database gave up on it.
ActivationFails(r) ==
  LET member == IsMember(rowRead[r].email, rowRead[r].number)
  IN  /\ pc[r] = "activate"
      /\ \/ member /\ outcome' = [outcome EXCEPT ![r] = "duplicate"]
         \/ /\ ~member /\ ~StillInvited(r)
            /\ outcome' = [outcome EXCEPT ![r] = "changed"]
         \/ outcome' = [outcome EXCEPT ![r] = "failed"]
      /\ Goto(r, "compensate")
      /\ UNCHANGED <<joinVars, rowRead, lapsed, inTime, reported>>

\* The account of this request is deleted at the provider, or reported.  Unless
\* the invitation changed, the client is answered.
Compensate(r) ==
  /\ pc[r] = "compensate"
  /\ \/ /\ authAccounts' = [authAccounts EXCEPT ![r] = NoRow]
        /\ UNCHANGED reported
     \/ /\ reported' = reported \cup {r}
        /\ UNCHANGED authAccounts
  /\ \/ outcome[r] = "changed" /\ Goto(r, "recheck")
     \/ /\ outcome[r] # "changed"
        /\ Respond(r, Answered(IF outcome[r] = "duplicate"
                               THEN "A409_ACCOUNT_ALREADY_EXISTS"
                               ELSE "A500_ACCOUNT_ACTIVATION_FAILED"))
  /\ UNCHANGED <<whitelist, links, users, expiring, rowRead, lapsed,
                 inTime, outcome>>

\* The link is validated once more to tell the student what changed.
Recheck(r) ==
  LET code == Eligibility(call[r].link)
  IN  /\ pc[r] = "recheck"
      /\ \/ /\ code = "I410_INVITATION_EXPIRED"
            /\ lapsed' = [lapsed EXCEPT ![r] = LinksDue]
            /\ Goto(r, "expire")
         \/ /\ code # "I410_INVITATION_EXPIRED"
            /\ Respond(r, Answered(IF code = "OK"
                                   THEN "A500_ACCOUNT_ACTIVATION_FAILED"
                                   ELSE code))
            /\ UNCHANGED lapsed
      /\ UNCHANGED <<joinVars, rowRead, onboardingVars>>

OnboardingNext ==
  \E r \in Slots :
    \/ \E c \in LinkCalls : ReceiveComplete(r, c)
    \/ CreateAuthAccount(r)
    \/ AuthAccountRefused(r)
    \/ Activate(r)
    \/ ActivationFails(r)
    \/ Compensate(r)
    \/ Recheck(r)

=============================================================================
