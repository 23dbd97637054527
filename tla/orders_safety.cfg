SPECIFICATION OrdersSpec
CONSTANTS
  alice = alice
  bob = bob
  root = root
  soap = soap
  k1 = k1
  k2 = k2
  badFit = badFit
  changedMind = changedMind
  photo = photo
  NoRow = NoRow
  NoSource = NoSource
  NoCall = NoCall
  Keep = Keep
  NoOrder = NoOrder
  NoReason = NoReason
  Users = {alice, bob, root}
  Admins = {root}
  Products = {soap}
  Keys = {k1, k2}
  Events = {}
  Images = {photo}
  Reasons = {badFit, changedMind}
  Quantities = {1, 2}
  Slots = {r1, r2, r3, r4}
  MaxInt = 5
  MaxAttempts = 1
  InitialBalance <- MCInitialBalance
  InitialProducts <- MCInitialProducts
  PurchaseCalls <- MCPurchaseCalls
  StatusCalls <- MCStatusCalls
SYMMETRY MCSymmetry
INVARIANTS
  PaidOnce
  RefundedOnce
  AnswersTruthful
  StatusHistory
  StockConserved
PROPERTIES
  OrdersMoveForward
  CollisionsRecovered
  KeepsPurchasePromise
CHECK_DEADLOCK FALSE
