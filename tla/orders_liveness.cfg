SPECIFICATION FairOrdersSpec
CONSTANTS
  alice = alice
  bob = bob
  root = root
  soap = soap
  k1 = k1
  k2 = k2
  badFit = badFit
  changedMind = changedMind
  photo = photo
  NoRow = NoRow
  NoSource = NoSource
  NoCall = NoCall
  Keep = Keep
  NoOrder = NoOrder
  NoReason = NoReason
  Users = {alice, bob, root}
  Admins = {root}
  Products = {soap}
  Keys = {k1, k2}
  Events = {}
  Images = {photo}
  Reasons = {badFit, changedMind}
  Quantities = {1, 2}
  Slots = {r1, r2}
  MaxInt = 5
  MaxAttempts = 3
  InitialBalance <- MCInitialBalance
  InitialProducts <- MCInitialProducts
  PurchaseCalls <- MCPurchaseCalls
  StatusCalls <- MCStatusCalls
PROPERTY
  EveryRequestAnswered
CHECK_DEADLOCK FALSE
