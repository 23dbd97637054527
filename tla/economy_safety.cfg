SPECIFICATION EconomySpec
CONSTANTS
  alice = alice
  bob = bob
  root = root
  soap = soap
  photo = photo
  k1 = k1
  e1 = e1
  late = late
  gift = gift
  bonus = bonus
  NoRow = NoRow
  NoSource = NoSource
  NoCall = NoCall
  Keep = Keep
  NoOrder = NoOrder
  NoReason = NoReason
  Users = {alice, bob, root}
  Admins = {root}
  Products = {soap}
  Keys = {k1}
  Events = {e1}
  Images = {photo}
  Reasons = {late}
  GrantReasons = {gift, bonus}
  Names = {"fair", "gala"}
  Quantities = {1}
  MaxGrant = 2
  MaxInt = 3
  MaxAttempts = 1
  Slots = {r1, r2, r3, r4, r5}
  InitialBalance <- MCInitialBalance
  InitialFiles <- MCInitialFiles
  InitialProducts <- MCInitialProducts
  PurchaseCalls <- MCPurchaseCalls
  StatusCalls <- MCStatusCalls
  ProductCalls <- MCProductCalls
  EventCalls <- MCEventCalls
  GrantCalls <- MCGrantCalls
  ResetCalls <- MCResetCalls
  AccessCalls <- MCAccessCalls
SYMMETRY MCSymmetry
INVARIANTS
  EconomyTypeOK
  LedgerChain
  BooksBalance
  PriceLocked
PROPERTIES
  KeepsLedgerPromise
  OnlyActiveStudentsServed
CHECK_DEADLOCK FALSE
