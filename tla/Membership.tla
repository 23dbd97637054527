----------------------------- MODULE Membership -----------------------------
(***************************************************************************)
(* Joining the association as a whole: whitelist, imports, invitations,    *)
(* verification and onboarding work on the same rows at the same time.     *)
(***************************************************************************)
EXTENDS Invitations, Onboarding, WhitelistImport

membershipVars == <<requestVars, joinVars, rowRead, lapsed, onboardingVars, plan>>

MembershipInit ==
  /\ RequestsInit
  /\ InvitationDatabaseInit
  /\ EligibilityInit
  /\ OnboardingInit
  /\ WhitelistInit

MembershipCalls == InvitationCalls \cup LinkCalls \cup WhitelistCalls \cup ImportCalls

MembershipCodes ==
  InvitationCodes \cup OnboardingCodes \cup WhitelistCodes \cup ImportCodes \cup {"none"}

\* Every variable has its type.
MembershipTypeOK ==
  /\ pc \in [Slots -> {"idle", "create", "mail", "expire", "expireRow", "account",
                       "activate", "compensate", "recheck", "write", "done"}]
  /\ call \in [Slots -> MembershipCalls \cup {NoCall}]
  /\ attempt = [r \in Slots |-> 1]
  /\ answer \in [Slots -> Answer(MembershipCodes)]
  /\ InvitationDatabaseTypeOK
  /\ EligibilityTypeOK
  /\ OnboardingTypeOK
  /\ WhitelistTypeOK

MembershipNext ==
  \/ InvitationsNext /\ UNCHANGED <<lapsed, onboardingVars, plan>>
  \/ EligibilityNext /\ UNCHANGED <<onboardingVars, plan>>
  \/ OnboardingNext /\ UNCHANGED plan
  \/ WhitelistNext /\ UNCHANGED <<lapsed, onboardingVars>>
  \/ ImportNext /\ UNCHANGED <<lapsed, onboardingVars>>
  \/ \E l \in Slots :
       LinkFallsDue(l) /\ UNCHANGED <<requestVars, lapsed, onboardingVars, plan>>

MembershipSpec == MembershipInit /\ [][MembershipNext]_membershipVars

\* Nobody on the whitelist has joined yet.
ASSUME MembershipAssumption ==
  \A p \in People :
    LET row == InitialWhitelist[p]
    IN  row # NoRow => row.user = NoRow /\ row.status # "ACCEPTED"

-----------------------------------------------------------------------------
(* Properties *)

LinksOf(p, s) == {l \in Slots : links[l] # NoRow /\ links[l].person = p /\ links[l].status = s}

\* One invitation, one member: a row is accepted if and only if exactly one user
\* took it, through exactly one accepted link, and it is never a removed row;
\* every user took a row (Activate against resends, removals and itself).
AcceptedOnce ==
  /\ \A p \in People :
       whitelist[p] # NoRow =>
         LET row == whitelist[p]
         IN  /\ row.status = "ACCEPTED" <=> row.user # NoRow
             /\ row.user = NoRow => LinksOf(p, "ACCEPTED") = {}
             /\ row.user # NoRow =>
                  /\ ~row.deleted
                  /\ users[row.user] # NoRow
                  /\ LinksOf(p, "ACCEPTED") = {call[row.user].link}
  /\ \A u \in Slots :
       users[u] # NoRow =>
         \E p \in People : whitelist[p] # NoRow /\ whitelist[p].user = u

\* A member joined under the address that the whitelist has for them, however
\* corrections and imports changed it while the request was on its way.
MemberHasOwnAddress ==
  \A p \in People :
    whitelist[p] # NoRow /\ whitelist[p].user # NoRow =>
      users[whitelist[p].user].email = whitelist[p].email

\* The links whose administrator was told that they were sent.
SettledLinks(p) ==
  {l \in ActiveLinks(p) : answer[l].code \in {"SENT", "RESENT"}}

\* A person has at most one link that was sent and is in use, and it went to the
\* address that the whitelist has now.  (A link whose request is on its way, or
\* died on it, is not counted: see AbandonedLinks in the README.)
OneLinkToTheRightAddress ==
  \A p \in People : \A l \in SettledLinks(p) :
    /\ \A m \in SettledLinks(p) : m = l
    /\ whitelist[p].status = "INVITED" => links[l].address = whitelist[p].email

\* An administrator who is told that a link was sent can rely on it: nothing has
\* ended it between its creation and the answer, except the passing of its time.
SentMeansUsable ==
  [][\A r \in Slots :
       answer'[r].code \in {"SENT", "RESENT"} /\ answer[r].code = "none" =>
         /\ links'[r].status = "ACTIVE" \/ links'[r].due
         /\ whitelist'[links[r].person].status = "INVITED"
    ]_membershipVars

\* An account at the provider that belongs to no member is one that a request
\* still works on, one reported for cleaning, or one whose making was never
\* confirmed (the compensation in complete).
OrphansAreKnown ==
  \A r \in Slots :
    authAccounts[r] # NoRow /\ users[r] = NoRow =>
      \/ pc[r] \in {"activate", "compensate"}
      \/ r \in reported
      \/ answer[r].code = "A503_AUTH_PROVIDER_UNAVAILABLE"

\* A member can sign in: the account at the provider is there, under the
\* member's address, unless the commit that made the member was not confirmed.
MembersCanSignIn ==
  \A r \in Slots :
    users[r] # NoRow =>
      authAccounts[r] = users[r].email \/ outcome[r] = "unknown"

\* The stages of a whitelist row: a first invitation leads out of PENDING, only
\* restoring a removed row leads back, and a member's row never changes again.
WhitelistMovesForward ==
  [][\A p \in People :
       whitelist[p] # NoRow /\ whitelist'[p] # whitelist[p] =>
         LET old == whitelist[p]
             new == whitelist'[p]
         IN  /\ new # NoRow /\ old.status # "ACCEPTED"
             /\ \/ new.status = old.status
                \/ old.status = "PENDING" /\ new.status \in {"INVITED", "FAILED"}
                \/ old.status \in {"FAILED", "EXPIRED"} /\ new.status = "INVITED"
                \/ old.status = "INVITED" /\ new.status \in {"EXPIRED", "ACCEPTED"}
                \/ old.deleted /\ ~new.deleted /\ new.status = "PENDING"
    ]_membershipVars

\* An import that nothing overtakes goes through: whatever the tables hold, its
\* decisions can be carried out in order without a conflict, and each row that it
\* reports as written is then on the whitelist as asked, once.
ImportDecisionsFit ==
  \A c \in ImportCalls :
    LET d == Decisions(c)
    IN  ImportRefusal(c) = "none" =>
          \A ids \in FreshIds(d) :
            LET result == CarriedOut(c, d, ids)
            IN  /\ result.code = "OK"
                /\ \A i \in WrittenRows(d) :
                     Cardinality({p \in People :
                       /\ result.table[p] # NoRow /\ ~result.table[p].deleted
                       /\ result.table[p].email = c.rows[i].email
                       /\ result.table[p].number = c.rows[i].number}) = 1

\* An import that is answered with OK has left every row it reports as written
\* on the whitelist as asked; one that is not has changed nothing, even if it
\* was overtaken after its decisions.
ImportAnswersTruthfully ==
  [][\A r \in Slots :
       pc[r] = "write" /\ pc'[r] = "done" /\ call[r] \in ImportCalls =>
         \/ /\ answer'[r].code = "OK"
            /\ \A i \in WrittenRows(plan[r]) :
                 \E p \in People :
                   /\ whitelist'[p] # NoRow /\ ~whitelist'[p].deleted
                   /\ whitelist'[p].email = call[r].rows[i].email
                   /\ whitelist'[p].number = call[r].rows[i].number
         \/ answer'[r].code # "OK" /\ whitelist' = whitelist
    ]_membershipVars

\* What the comment in complete says of its conditional updates: the state that
\* was validated is checked again, so a member has the student number that the
\* whitelist has.
MemberHasOwnNumber ==
  \A p \in People :
    whitelist[p] # NoRow /\ whitelist[p].user # NoRow =>
      users[whitelist[p].user].number = whitelist[p].number

\* What the tests of markExpiredInvitations say: a person who has another valid
\* link is not marked as expired.
ValidLinkKeepsInvited ==
  [][\A p \in People :
       /\ whitelist[p] # NoRow /\ whitelist[p].status = "INVITED"
       /\ whitelist'[p].status = "EXPIRED"
       => \A l \in SettledLinks(p) : links'[l].status # "ACTIVE" \/ links'[l].due
    ]_membershipVars

-----------------------------------------------------------------------------
(* Liveness: no server dies. *)

\* A handler that runs takes its next step; the database ends an open
\* transaction.  Clients and administrators send what they like.
MembershipFairness ==
  \A r \in Slots :
    /\ WF_membershipVars((CreateLink(r) \/ InvitationSecured(r)
                          \/ InvitationSuperseded(r) \/ MailFailed(r))
                         /\ UNCHANGED <<lapsed, onboardingVars, plan>>)
    /\ WF_membershipVars((MarkExpiredLinks(r) \/ MarkExpiredRow(r) \/ AbortExpiry(r))
                         /\ UNCHANGED <<onboardingVars, plan>>)
    /\ WF_membershipVars((CreateAuthAccount(r) \/ AuthAccountRefused(r) \/ Activate(r)
                          \/ ActivationFails(r) \/ Compensate(r) \/ Recheck(r))
                         /\ UNCHANGED plan)
    /\ WF_membershipVars((UpdatePerson(r) \/ RemovePerson(r) \/ CreatePerson(r)
                          \/ ImportPeople(r)) /\ UNCHANGED <<lapsed, onboardingVars>>)

FairMembershipSpec == MembershipSpec /\ MembershipFairness

\* Every request is answered: nobody waits for ever for links that an expiry has
\* locked, since it commits or is aborted (markExpiredInvitations).
JoiningAnswered == \A r \in Slots : pc[r] # "idle" ~> pc[r] = "done"

\* An account at the provider ends up as a member's, or deleted, or on record.
AccountsSettle ==
  \A r \in Slots :
    authAccounts[r] # NoRow /\ users[r] = NoRow ~>
      \/ users[r] # NoRow \/ authAccounts[r] = NoRow \/ r \in reported
      \/ answer[r].code = "A503_AUTH_PROVIDER_UNAVAILABLE"

=============================================================================
