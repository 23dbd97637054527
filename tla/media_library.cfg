SPECIFICATION MediaSpec
CONSTANTS
  root = root
  aide = aide
  soap = soap
  mug = mug
  post = post
  photo = photo
  poster = poster
  sketch = sketch
  fresh = fresh
  late = late
  NoRow = NoRow
  NoSource = NoSource
  NoCall = NoCall
  Keep = Keep
  NoOrder = NoOrder
  NoReason = NoReason
  NoDay = NoDay
  Users = {root, aide}
  Admins = {root, aide}
  Products = {soap, mug}
  PostIds = {post}
  Keys = {}
  Events = {}
  Images = {photo, poster, sketch, fresh}
  Days = {1, 2, 3}
  Reasons = {late}
  Quantities = {1}
  MaxInt = 2
  MaxAttempts = 1
  Slots = {r1, r2, r3}
  InitialBalance <- NoOne
  InitialProducts <- MCInitialProducts
  InitialFiles <- MCInitialFiles
  PurchaseCalls <- NoCalls
  StatusCalls <- NoCalls
  ProductCalls <- MCProductCalls
  PostCalls <- MCPostCalls
  FileCalls <- MCFileCalls
SYMMETRY MCSymmetry
INVARIANTS
  MediaTypeOK
  AttachedImagesUsable
  CompletedHasObject
  DeletedMeansGone
  PublishedAreComplete
  PeriodsMakeSense
PROPERTIES
  FirstPublicationKept
CHECK_DEADLOCK FALSE
