SPECIFICATION MembershipSpec
CONSTANTS
  ann = ann
  ben = ben
  new1 = new1
  new2 = new2
  mail1 = mail1
  mail2 = mail2
  mail3 = mail3
  mail4 = mail4
  n1 = n1
  n2 = n2
  n3 = n3
  n4 = n4
  NoRow = NoRow
  NoCall = NoCall
  Keep = Keep
  InvalidRow = InvalidRow
  MaxAttempts = 1
  Slots = {r1, r2, r3, r4}
  People = {ann}
  Emails = {mail1, mail2}
  Numbers = {n1, n2}
  InitialWhitelist <- MCOnlyAnn
  InvitationCalls <- MCInvitationCalls
  LinkCalls <- MCLinkCalls
  WhitelistCalls <- MCChanges
  ImportCalls <- MCOneImport
SYMMETRY MCSymmetry
INVARIANTS
  MembershipTypeOK
  AcceptedOnce
  MemberHasOwnAddress
  OneLinkToTheRightAddress
  OrphansAreKnown
  MembersCanSignIn
PROPERTIES
  SentMeansUsable
  WhitelistMovesForward
CHECK_DEADLOCK FALSE
