SPECIFICATION AdminUsersSpec
CONSTANTS
  alice = alice
  root = root
  boss = boss
  NoRow = NoRow
  NoSource = NoSource
  NoCall = NoCall
  Keep = Keep
  Users = {alice, root, boss}
  Admins = {root, boss}
  Products = {}
  Keys = {}
  Events = {}
  Images = {}
  MaxInt = 1
  MaxAttempts = 1
  Slots = {r1, r2, r3, r4}
  InitialBalance <- MCInitialBalance
  InitialProducts <- MCInitialProducts
  AccessCalls <- MCAccessCalls
SYMMETRY MCSymmetry
PROPERTY
  LogMeansChange
CHECK_DEADLOCK FALSE
