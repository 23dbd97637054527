----------------------------- MODULE Invitations -----------------------------
(***************************************************************************)
(* InvitationsService: an administrator sends a first invitation or sends  *)
(* another one.  The row is read up front, the link is inserted, the mail  *)
(* goes out, and only then is the row updated, on condition that it is     *)
(* still the one read.  Nothing ties these steps together: a request that  *)
(* stops between them (a dead server, a failed transaction) is a slot that *)
(* takes no more steps, and leaves its link ACTIVE.                        *)
(*                                                                         *)
(* A bulk request is one slot per person: it reads all its rows first and  *)
(* then treats person after person, each on its own.  From the moment the  *)
(* link exists its mail may have arrived, even if the provider's answer    *)
(* says that it failed.                                                    *)
(***************************************************************************)
EXTENDS InvitationDatabase

CONSTANTS
  InvitationCalls    \* POST /admin/invitations/send and /resend, per person

InvitationCall == [op : {"send", "resend"}, person : People]

InvitationCodes ==
  {"SENT", "RESENT", "I404_WHITELIST_USER_NOT_FOUND",
   "I409_ACCOUNT_ALREADY_LINKED", "I409_INVITATION_ALREADY_ACCEPTED",
   "I409_ALREADY_INVITED", "I409_RESEND_REQUIRED", "I409_INITIAL_SEND_REQUIRED",
   "I409_WHITELIST_STATE_CHANGED", "I502_EMAIL_SEND_FAILED",
   "I502_EMAIL_RESEND_FAILED"}

ASSUME InvitationsAssumption ==
  InvitationCalls \subseteq InvitationCall /\ NoCall \notin InvitationCalls

\* The statuses of a row from which each operation goes on.
StatusesFor(op) ==
  IF op = "send" THEN {"PENDING"} ELSE {"INVITED", "EXPIRED", "FAILED"}

InvitationRefusal(op, row) ==
  IF row = NoRow \/ row.deleted THEN "I404_WHITELIST_USER_NOT_FOUND"
  ELSE IF row.user # NoRow THEN "I409_ACCOUNT_ALREADY_LINKED"
  ELSE IF row.status = "ACCEPTED" THEN "I409_INVITATION_ALREADY_ACCEPTED"
  ELSE IF row.status \in StatusesFor(op) THEN "none"
  ELSE IF op = "resend" THEN "I409_INITIAL_SEND_REQUIRED"
  ELSE IF row.status = "INVITED" THEN "I409_ALREADY_INVITED"
  ELSE "I409_RESEND_REQUIRED"

ReceiveInvitation(r, c) ==
  LET row     == whitelist[c.person]
      refusal == InvitationRefusal(c.op, row)
  IN  /\ \/ /\ refusal # "none"
            /\ ReceiveAndRespond(r, c, refusal)
            /\ UNCHANGED rowRead
         \/ /\ refusal = "none"
            /\ Receive(r, c, "create")
            /\ rowRead' = [rowRead EXCEPT ![r] = row]
      /\ UNCHANGED joinVars

\* The link is inserted and the mail handed to the mail service, addressed as
\* the row was when it was read.
CreateLink(r) ==
  LET c == call[r]
  IN  /\ pc[r] = "create" /\ c \in InvitationCalls
      /\ links' = [links EXCEPT ![r] =
                     [person |-> c.person, status |-> "ACTIVE",
                      address |-> rowRead[r].email, due |-> FALSE]]
      /\ Goto(r, "mail")
      /\ UNCHANGED <<whitelist, users, authAccounts, expiring, rowRead>>

\* Mutant: the row may have been updated since it was read.
StatusAsRead(r) ==
  LET row == whitelist[call[r].person]
  IN  IsOpen(row) /\ row.status \in StatusesFor(call[r].op)

\* The row is still the one that request r read.
RowAsRead(r) ==
  LET row == whitelist[call[r].person]
  IN  /\ IsOpen(row)
      /\ row.status \in StatusesFor(call[r].op)
      /\ row.version = rowRead[r].version

\* The link of request r, unless something else has ended it already.
OwnLink(r) == {r} \cap ActiveLinks(call[r].person)

\* Mutant: the earlier links stay as they are.
NoOtherLinks(r) == {}

\* The links that a successful resend takes out of use.
ReplacedLinks(r) ==
  IF call[r].op = "resend" THEN ActiveLinks(call[r].person) \ {r} ELSE {}

\* The mail went out and the row is still the one read: the person is invited.
InvitationSecured(r) ==
  /\ pc[r] = "mail" /\ call[r] \in InvitationCalls
  /\ RowAsRead(r)
  /\ Unlocked(ReplacedLinks(r))
  /\ whitelist' = WithStatus(call[r].person, "INVITED")
  /\ links' = Marked(ReplacedLinks(r), "REVOKED")
  /\ Respond(r, Answered(IF call[r].op = "send" THEN "SENT" ELSE "RESENT"))
  /\ UNCHANGED <<users, authAccounts, expiring, rowRead>>

\* The mail went out and the row changed meanwhile: the new link is revoked.
InvitationSuperseded(r) ==
  /\ pc[r] = "mail" /\ call[r] \in InvitationCalls
  /\ ~RowAsRead(r)
  /\ Unlocked({r})
  /\ links' = Marked(OwnLink(r), "REVOKED")
  /\ Respond(r, Answered("I409_WHITELIST_STATE_CHANGED"))
  /\ UNCHANGED <<whitelist, users, authAccounts, expiring, rowRead>>

\* The mail service reports a failure.  A first invitation that fails marks its
\* row too; a repeated one leaves the row and the earlier links as they are.
MailFailed(r) ==
  LET first == call[r].op = "send"
      counted == OwnLink(r) # {} /\ (first => RowAsRead(r))
  IN  /\ pc[r] = "mail" /\ call[r] \in InvitationCalls
      /\ Unlocked({r})
      /\ links' = Marked(OwnLink(r), "FAILED")
      /\ whitelist' = IF first /\ RowAsRead(r)
                      THEN WithStatus(call[r].person, "FAILED") ELSE whitelist
      /\ Respond(r, Answered(IF ~counted THEN "I409_WHITELIST_STATE_CHANGED"
                             ELSE IF first THEN "I502_EMAIL_SEND_FAILED"
                             ELSE "I502_EMAIL_RESEND_FAILED"))
      /\ UNCHANGED <<users, authAccounts, expiring, rowRead>>

InvitationsNext ==
  \E r \in Slots :
    \/ \E c \in InvitationCalls : ReceiveInvitation(r, c)
    \/ CreateLink(r)
    \/ InvitationSecured(r)
    \/ InvitationSuperseded(r)
    \/ MailFailed(r)

=============================================================================
