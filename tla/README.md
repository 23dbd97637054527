# KSA-BE: TLA+ verification project

KSA-BE is the NestJS back end of a student association: members buy goods with
tokens that administrators grant at events, accounts are opened by invitation,
and administrators publish products, posts and files.  State lives in
PostgreSQL (through Prisma), in Supabase (accounts and stored images) and, for
the time a mail is under way, at Resend.

This directory holds the TLA+ modules that model the services, the TLC
configurations that check them on small instances, and proofs checked by TLAPS.
`PROJECT.json` maps every definition to the lines it models and lists runs,
mutants, findings, hazards and theorems.

    tlc -config orders_safety.cfg MCOrders      # any <run>.cfg with its MC module
    tlapm OrderProofs.tla                       # any *Proofs module

## 1. Inventory

| Component | State | Operations that write | Modelled in |
|---|---|---|---|
| Orders | orders, order_status_logs | createOrder, updateOrderStatus | `Orders` |
| Token events | token_events, token_grants | create, updateTokenEvent, saveGrants, deleteTokenEvent | `TokenEvents` |
| Token balances | users.token_balance, token_logs | resetTokenBalances | `TokenBalances` |
| Products | products | createProduct, updateProduct | `Products` |
| Admin users | users.role, users.status | update | `AdminUsers` |
| Guards | none | SupabaseAuthGuard, AdminGuard | partly: guards of `Receive...` actions of `Orders` and `AdminUsers` |
| Whitelist | whitelisted_users | update, remove, create | `Whitelist` |
| | | importUsers | `WhitelistImport` |
| Invitations | invitations, mail | send, resend | `Invitations` |
| Eligibility | invitations, whitelisted_users | validate, verify, markExpiredInvitations | `Eligibility` |
| Onboarding | users, Supabase accounts | complete: account, activation, compensation | `Onboarding` |
| Files | files, stored objects | createImageUploadUrl, completeFileUpload, deleteFile | `Files` |
| Posts (administrators) | content posts, their images | createPost, updatePost | `Posts` |
| Posts (public) | none | read-only | partly: the list by period is `Listed` in `Posts` |
| Users, Action logs, Admin profile | none | read-only | not modelled |
| HTTP and database plumbing, health | none | none | not modelled |
| Clubs, admin memos | tables only | no service uses them | not modelled |

**How they interact.**  The services never call each other; they meet in the
database.  Orders, events and resets all write `users.token_balance` and append
to `token_logs`.  Orders and product edits both write `products`.  Purchases and
grants read the role and the status that account changes write.  Every
administrators' operation appends to `admin_action_logs`.  Whitelist,
invitations, eligibility and onboarding share `whitelisted_users` and
`invitations`, and each goes on with rows that it read before the others wrote.
Products and posts refer to `files`, which a deletion looks for in both; the
browser uploads to Storage by itself, between two requests about the file.

**What is hard.**

- *Concurrency.*  Orders, events, resets, products, posts and file deletion run
  SERIALIZABLE transactions in a loop of three attempts.  Account changes and
  all of whitelist, invitations and onboarding run at READ COMMITTED: what they
  read may be stale when they write, and what they check again is a part of it.
- *Retries.*  A purchase carries an idempotency key that is looked up before the
  transaction, inside it, and again after a collision on its unique index.  A
  status update that repeats the current status is a safe retry.
- *Failure.*  A database call may fail, and a transaction may commit without its
  server being told: `createOrder` and `updateOrderStatus` then answer with an
  O500 code although the order may stand, and the client asks again.
  Batches of grants are all or nothing.  Sending an invitation,
  opening an account and deleting a file each cross two systems and compensate
  or rely on a repeated call.
- *Ordering.*  The ledger's entries are computed from balances read back in the
  same transaction, and have to form a chain whoever moved the tokens before.

**What makes each part correct.**

- Orders: a purchase is paid once however often it is sent; it is refunded once
  if it is cancelled and never otherwise; a retry is told what the first answer
  said; stock is conserved; an order's history is one path.
- Token events: grants, ledger and balances agree; a batch is saved whole or not
  at all; a deleted event grants nothing.
- Token balances: a reset leaves the ledger unbroken.
- Products: the price is fixed once there is an order; what is published is
  complete.
- Admin users: nobody locks themselves out; a log row means a change.
- Whitelist: a row goes through its stages in order and is frozen once its
  person has joined; an import is carried out whole, as it was reported, or not at
  all.
- Invitations: at most one sent link of a person is in use, and it went to the
  address on the whitelist; an administrator who is told SENT can rely on it.
- Eligibility and onboarding: a person joins once, through one link, under the
  whitelist's address and with an account that works; an account at the provider
  that is nobody's is known to somebody.
- Files: what is attached is usable and not deleted; a completed file has its
  object; a confirmed deletion is final, and one that failed can be repeated.
- Posts: whatever partial updates follow each other, a published post lies in one
  period of the public list and keeps the date of its first publication.

The hazards behind these, each at its line, are in `PROJECT.json` under
`hazards`; those that no property covers yet say why.

## 2. Modules

Three clusters of services share tables; each has a composed module, an instance
for TLC and proofs.

| Module | What it is |
|---|---|
| `Requests` | requests in flight and the retry loop `runSerializableTransaction` that each service has a copy of |
| **Shop** | |
| `TokenDatabase` | the shared tables: users, ledger, products, administrators' log; `LedgerChain` |
| `Orders` | OrdersService |
| `FileDatabase` | files and stored objects, and what may be attached |
| `Products` | ProductsService, extends `Orders` (its lock counts orders) and `FileDatabase` |
| `TokenEvents`, `TokenBalances`, `AdminUsers` | the services of the same name |
| `TokenEconomy` | the five services on one database |
| `PurchasePromise` | abstract: what the order service promises its clients |
| `AtomicLedger` | abstract: what the ledger promises, whichever services write it |
| `MCOrders`, `MCEconomy`, `MCAdminUsers` | instances for TLC |
| `EconomyTypeProofs`, `EconomyProofs` | theorems: types; ledger chain, prices, accounts, events and batches |
| `LedgerProofs` | the shop implements `AtomicLedger` |
| `OrderProofs` | theorems on orders and answers; the shop implements `PurchasePromise` |
| `BooksProofs` | sums over finite sets; grants, balances and stock reconcile |
| **Membership** | |
| `InvitationDatabase` | whitelist, links, members, accounts at the provider, locks; the passing of time |
| `Invitations` | InvitationsService: first invitation and resend |
| `Eligibility` | InvitationEligibilityService: validate, verify, expiry |
| `Onboarding` | OnboardingService.complete |
| `Whitelist`, `WhitelistImport` | WhitelistUsersService: single changes, and imports of a list |
| `Membership` | these services on one database |
| `MCMembership` | instances for TLC |
| `ImportProofs`, `MembershipProofs` | what an import does for lists of any length; theorems |
| **Media library** | |
| `Posts`, `Files` | the administrators' posts and files; `Files` extends `Products` and `Posts`, where it looks for uses |
| `MediaLibrary` | `Products`, `Posts` and `Files` on one database and one Storage |
| `MCMediaLibrary` | instance for TLC |
| `MediaProofs` | theorems |

### From code to actions

A **request** is a slot (`Slots`) with a label `pc`, the call it carries, the
attempt it is in and the answer it got.  A slot is used once.  A crash of the
server is a slot that takes no more steps; a lost answer is a slot nobody reads;
a client's retry is another slot with an equal call.

A **SERIALIZABLE transaction** that commits is one step.  PostgreSQL promises
that the committed transactions have *some* serial order, so the intermediate
statements of one are invisible to the others.  An attempt that aborts with P2034
is `RetryAfterConflict`, possible at any time; it leaves no trace and counts an
attempt.  The model serialises in commit order.  Where PostgreSQL's order may
differ (a reset that does not see a grant committed during it to a member who
had nothing, an account change at READ COMMITTED during a transaction that
writes another row) the states reached are those of the other order, which is
also a behaviour of the model.  Purchases and raised grants write the account's
row, so a block or a role change of that account committed during one of them
makes it abort.  `deleteTokenEvent` counts the grants of the event it deletes
(token-events.service.ts:882-889): that read is what makes a concurrent
`saveGrants` conflict with it.  Since a committed transaction is one step, the
model takes such conflicts for granted: `DeletedEventsFrozen` would notice a
missing check of `deletedAt`, not a missing count.

A transaction's insert may instead meet a unique index (P2002): `CollideOnKey`
and `CollideOnRefund`.  They are enabled whenever the row exists, which includes
every attempt whose snapshot was older.  After `CollideOnKey` the request is at
the label `recover` and looks the order up in a step of its own.  Because
`CollideOnRefund` is enabled more often than the database allows, a cancellation
may find another reason than its own there; `CollisionsRecovered` is about those
that lost to the same cancellation.

**Failures of the database** in `Orders` are `FailOrderRequest`: a lookup or a
transaction fails at any label (a timeout, a lost connection), leaves nothing
behind and is answered with O500_ORDER_CREATE_FAILED or
O500_ORDER_STATUS_UPDATE_FAILED by the catch block; what fails in the catch block
itself, at `recover`, is answered with HTTP_500 by the exception filter
(`FailureCode`).  A transaction that commits may be answered the same way,
because the confirmation of the commit was lost (`RespondAfterCommit`).  The
client cannot tell the two apart, and asks again with the same key.

A **READ COMMITTED transaction** (`AdminUsers`) is two steps, `ReadAccess` and
`WriteAccess`; the read is kept in `accessRead`.

**createOrder** is `ReceivePurchase` (guard), `LookUpKey` (fast path),
`FindKeyTaken` / `RefusePurchase` / `PlaceOrder` / `OrderConflict` / `CollideOnKey`
(the transaction), `RecoverFromCollision`, and `FailOrderRequest` at each of them.
**updateOrderStatus** is `ReceiveStatusUpdate` (guard, reason),
`AnswerStatusUpdate`, `AdvanceOrder`, `CancelOrder`, `CollideOnRefund`,
`RecoverFromRefundCollision` and `FailOrderRequest`.  **saveGrants** is
`ReceiveGrants`, `RefuseGrants`, `OverflowGrants`, `SaveGrants`; the other event
operations, the reset and the product operations have one action per outcome.
Each row of a table is a record; an id without a row holds `NoRow` or `NoOrder`.

#### Membership

These services use READ COMMITTED transactions without retries, so a handler is
a chain of steps, and what it carries from one to the next (`rowRead`, `lapsed`,
`plan`, `inTime`) is what makes it go wrong or not.  A link is named by the slot
of the request that created it.

- **send, resend** (`Invitations`): `ReceiveInvitation` reads the row and judges
  it; `CreateLink` inserts the link and hands over the mail; `InvitationSecured`,
  `InvitationSuperseded` and `MailFailed` are the three ends.  The row is written
  only if its version is the one that was read.  A bulk request is one slot per
  person.  Once a link exists its mail may have arrived, whatever the mail
  service answers.
- **verify** (`Eligibility`): `ReceiveVerify`.  **markExpiredInvitations** is
  `MarkExpiredLinks`, which looks for another valid link and locks the ones it
  marks (`expiring`), and `MarkExpiredRow`, which writes the person and commits.
  Others that write these links wait; if they wait for each other the database
  chooses a victim, `AbortExpiry`.  Time passes in `LinkFallsDue`.
- **complete** (`Onboarding`): `ReceiveComplete` validates; `CreateAuthAccount` or
  `AuthAccountRefused` is the call to Supabase, which may make the account and
  lose the answer; `Activate` or `ActivationFails` is the transaction, whose
  commit may go unconfirmed (`AfterCommit`); then `Compensate` deletes the account
  or reports it, and `Recheck` validates once more to say what changed.
- **update, remove** (`Whitelist`): `ReceiveChange` reads and judges, then
  `UpdatePerson` or `RemovePerson` writes on condition of the version and revokes
  links.  **create**: `ReceiveCreation` looks for duplicates, `CreatePerson`
  inserts or restores.
- **importUsers** (`WhitelistImport`): `ReceiveImport` classifies every row
  against the tables as they are (`Decisions`), `ImportPeople` carries the
  decisions out in order on the tables as they are then (`CarriedOut`), all or
  nothing.

**AbandonedLinks.**  A dead server is a slot that takes no more steps.  A request
that dies between the insertion of its link and its answer leaves the link ACTIVE
although nobody was told that it was sent.  If the row still waits for an
invitation (resent to, INVITED) such a link opens an account like any other, to the
address the row had when it was read.  It ends with the next successful resend,
correction, removal or joining of that person, or with its time.  For this reason
`OneLinkToTheRightAddress` and `ValidLinkKeepsInvited` speak of links whose
request was answered SENT or RESENT, while `AcceptedOnce` and
`MemberHasOwnAddress` speak of all.

**Unconfirmed activations.**  When the commit of an activation is not confirmed
(`outcome` "unknown"), `complete` deletes the new account as if nothing had been
committed, and a member is left who cannot sign in.  The code does not ask what
became of the commit, so the state is reachable; `MembersCanSignIn` exempts it and
says that nobody else's account is lost.

#### Media library

- **Files**: `ReceiveFileCall`; an upload URL is `CreateImageUploadUrl`.
  `completeFileUpload` is `LookUpUpload` (the row), `VerifyUpload` (the question
  to Storage) and `CompleteFileUpload` (the conditional update): three steps, with
  others between them.  `deleteFile` is the transaction `DeleteFile`, which looks
  for every use of the image and marks the row, and then `RemoveObject` at
  Storage, which may fail, with or without having removed the object; a repeated
  deletion goes to Storage again.  `FileConflict` is an aborted attempt.
- **Storage** is a state per image: absent, matching what was announced, different
  from it, or leaked, which is an upload after the deletion.  `Upload` is the
  browser: the signed URL writes once (no upsert), but it outlives the row, so
  `Upload` is possible whenever there is no object.
- **Posts**: `ReceivePostCall`, `RefusePostCall`, `SavePost`, `PostConflict`.
  `UpdatedPost` merges the sent fields with the row; the schedule is judged after
  the merge; `PublicationDate` is set by the first publication.  `Listed` is
  `buildPeriodWhere` of the public list.

### Promises and refinements

`AtomicLedger` knows accounts and entries only.  One step moves one account
(`Pay`, `Refund`) or several (`Award`, `Reset`), each explained by one appended
entry of the right type and direction; nothing written is rewritten.
`TokenEconomy` instantiates it with `balance <- tokenBalance` and
`entries <- tokenLogs`, so the mapping forgets everything else; the property is
`KeepsLedgerPromise`.

`PurchasePromise` knows requests, their answers and the deals struck, by key.  A
request strikes a deal under a key that names none, repeats the deal its key
names if that is the purchase it asks for, or is refused, and which refusals are
possible depends on what the key names at that moment: a retry of a purchase that
succeeded is never told that tokens or stock are short.  It may always be told of
contention or of a failure of the server, and a failure may be told although the
deal was struck: it says nothing about the deal, and asking again tells.  A deal is
settled once.
`Orders` maps `asked` and `told` to the calls and answers of purchase slots and
`deals` to the orders, each with what its payment left (`DealOf`); labels,
attempts, stock and balances are forgotten.  Looking up, retrying, colliding and
accepting are stutters, `PlaceOrder` strikes the deal, `LookUpKey`,
`FindKeyTaken` and `RecoverFromCollision` repeat or refuse, `FailOrderRequest`
refuses.  The property is
`KeepsPurchasePromise`.

### What is abstracted

- Unexpected errors of the database and commits that are not confirmed are in
  `Orders`, where a client repeats its request, and in `Onboarding`, which
  compensates.  An expiry may be aborted, and mail, Supabase and Storage may fail.
  Everywhere else (products, token events, resets, account changes, posts, file
  rows, invitations, the whitelist and imports) a transaction commits and is
  answered, is refused, or gives up after its attempts; a request that dies is a
  slot that takes no more steps.  So nothing is claimed about what, for example,
  an administrator may conclude from a server error about a batch of grants.
- An order is named by its idempotency key, which is unique.
- Times are left out; of the `_at` columns of an order the set of those that are
  set is kept (`stamps`).
- Error codes that differ only by which of several checks in one step failed are
  merged (the two cancellation-reason codes, the codes of an incomplete published
  product, a missing and an unusable image, the conflict codes of renaming and
  deleting an event).
- A product's name is locked, read and written with its price and is not modelled
  beside it.  Description and publication are flags.
- `updateMany ... count !== 1` branches and re-reads that find nothing cannot be
  taken inside a SERIALIZABLE transaction that read the row, and are left out.
- Requests for users that do not exist are left out; no endpoint deletes users
  or products.
- Numbers above int4 in product requests are left out (the database refuses
  them).
- Stock is set to the absolute number an administrator sends, whatever was sold
  since they looked: that is what the endpoint does.  `StockMovesByEditOnly`
  says that nothing else loses or makes a unit.
- *Membership.*  A person's name is corrected, imported and copied with the student
  number and is not modelled beside it.  `updatedAt` is a counter that moves with
  every update; the guards that compare it rely on that, although two writes
  within a millisecond would look like none.  Malformed tokens, weak passwords
  found by the DTO, missing consent, a wrong e-mail domain, `invitedBy`,
  `invitedAt` and the administrators' log are left out.
- The validation and the look for an existing member that follows it are one step;
  so are the reads of whitelist and users at the start of a creation or an import.
- The address and the number of a request to create may belong to two members;
  which of the two codes answers it is left open (`CreationRefusals`).
- A new row takes an unused id of `People`; a request that would need more new rows
  than there are ids does not run.
- *Media.*  The id that the server draws for a file or a post is named by the
  request, and so is the date of a publication.  Titles, contents, categories,
  `membersOnly`, the order of images and the administrators' log are left out.
  Clubs have images in the schema, but no endpoint writes them, so `IsInUse` looks
  at products and posts.
- `deleteStoredImage` asks Storage for the object and removes it; this is one step.

## 3. Runs

Slots are interchangeable model values (symmetry) in every run that checks safety
only.  Deadlock checking is off because requests are a bounded supply: a
behaviour ends when they are used up.  That nobody waits for ever is a liveness
property.

| Run | Question | Bounds |
|---|---|---|
| `orders_safety` | do purchases, retries, cancellations and collisions keep their promises? | 4 requests out of 11, 2 buyers and an administrator, 2 keys, 1 product of 2 units, 1 attempt |
| `orders_liveness` | is every received request answered? | 2 requests, 3 attempts as in the code, no symmetry |
| `economy_safety` | do the five services together keep types, ledger, books and prices, and serve only active students? | 5 requests, 2 students and an administrator, 1 product, 1 key, 1 event, largest number 3 |
| `grants_safety` | do grants, ledger and batches agree? | 5 requests on one event: two batches, a change of reason only, rename, delete, reset, block |
| `admin_users_safety` | can an administrator's own request lock them out? | 4 requests out of 9, 2 administrators and a student |
| `admin_users_duplicate_log` | does a log row mean a change? (expected to fail) | the same |
| `membership_safety` | does a person join once, through the right link, under the right address, with an account that works? | 4 requests: sending, resending, verifying and joining through any link, 4 changes, an import; 1 person, 2 addresses, 2 numbers |
| `whitelist_imports` | can an import be carried out as decided, and is its answer true when it was overtaken? | 3 requests, among them 9 lists of one to four rows under the three policies; 4 ids, one person waiting and one removed |
| `membership_liveness` | is every request answered, and does every account end up somewhere? | 3 requests, no symmetry |
| `onboarding_stale_number` | does a member have the number on the whitelist? (expected to fail) | as `membership_safety` |
| `expiry_ignores_new_link` | does a valid link keep its person invited? (expected to fail) | as `membership_safety` |
| `media_library` | is what products and posts show usable, and do files, objects and posts stay consistent? | 3 requests out of 29, 2 products, 1 post, 4 images in different stages, 3 days |

*Why the bounds are enough.*  The conflicts in this code are between two or three
requests about one row; the slots leave room for what has to come before.

- *Shop.*  One key is asked for by both buyers and for two quantities, so it is
  retried, reused and raced.  Balances and stock are small enough to run out, and
  `MaxInt` is small enough to overflow: refunds are refused and grants answered
  with 500.  An aborted attempt leaves nothing behind but the counter, and the
  next one takes the same steps from the same label, so the safety runs use one;
  `orders_liveness`, which is about the loop, uses the code's three.
- *Membership.*  The person is never created by a run: the row waits for its first
  invitation at the start.  The longest stories take a send, a resend or change,
  and two requests that race after it: four slots.  Two addresses and two numbers
  are needed for a correction to be seen.  People do not interfere except by taking
  each other's address or number; that is the business of imports and creations,
  for which `whitelist_imports` has four ids, lists that cross two people over,
  repeat a row, or hold an invalid one.
- *Media library.*  A completion against a deletion takes two requests, a deletion
  and its repetition two, hiding and publishing again three, and two partial
  updates of the dates of a post that was just created three.  Uploads are steps of
  the browser and take no slot.  Three days order a start, an end and a now.

*Mutants.*  Each property of a passing run has a mutant in `PROJECT.json`: a
plausible bug in one definition under which TLC finds the property violated.  Where
the bug is more than a line its definition stands beside the right one, marked
as a mutant; nothing else uses it.

*Findings.*  Three runs show where the code does something else than its comments or
tests say.

1. `admin_users_duplicate_log`: `AdminUsersService.update` says that a request
   whose values all equal the current ones makes no update and no log.  At READ
   COMMITTED it compares with the row it read, and two equal requests that both
   read before either writes both log.
2. `onboarding_stale_number`: a comment in `complete` says that the state is checked
   again after the first validation.  Link and row are, but name and student
   number are inserted as they were read before the call to Supabase, so a person
   whose number is corrected meanwhile joins under the old one.  (The address is
   safe: correcting it revokes the links; that is `MemberHasOwnAddress`.)
3. `expiry_ignores_new_link`: a test says that a person who has another valid
   link stays invited.  `markExpiredInvitations` looks for one and then writes the
   person without looking again; a resend that commits between the two is
   answered RESENT, and its link is then refused because the person is EXPIRED.
   Another resend repairs it.

### Fairness

`FairOrdersSpec` assumes weak fairness of `ServeOrderRequest(r)` for each slot: a
received request keeps running, since every `await` in the handlers is a database
call that returns or fails.  Nothing is assumed about which outcome a step has:
the database may abort or fail every attempt, clients may never send anything.

`FairMembershipSpec` assumes the same of each handler about joining: that the
server does not die, that calls to the mail service, to Supabase and to the
database return or fail, and that the database ends an open transaction or
resolves a deadlock.  Nothing is assumed about clients, about the outcome of a
call, or about the clock.  Under it `JoiningAnswered` says that waiting for the
links an expiry has locked ends, and `AccountsSettle` that compensation does.  Only
an expiry keeps locks from one step to the next in the model, so a circle of
transactions that wait for each other does not form there; that PostgreSQL
resolves one is not shown but assumed.

## 4. Proofs

The theorems hold for all values of the constants that satisfy the named
assumptions of the modules (`...Assumption` in each module that declares
constants; what the tables hold at the start is `TokenDatabaseAssumption`,
`MembershipAssumption` and `MediaAssumption`; that orders share
no ids with other tables, which the model needs because it keeps in one field what
the schema keeps in a column for each kind, is `DistinctIds`; that a table has finitely many rows is `FinitePeople`).  TLC
evaluates the assumptions on every run.  One theorem has a hypothesis of its own:
`StockAlwaysConserved` is about shops in which no request sets the stock.

| Theorem | Statement |
|---|---|
| `TypeCorrect` | `EconomySpec => []TypeInv` |
| `EconomyTyped` | `EconomySpec => []EconomyTypeOK` |
| `LedgerExplainsBalances` | `EconomySpec => []LedgerChain` |
| `PricesLocked` | `EconomySpec => []PriceLocked` |
| `ShopIsAtomicLedger` | `EconomySpec => KeepsLedgerPromise` |
| `OrdersPaidOnce` | `EconomySpec => []PaidOnce` |
| `OrdersRefundedOnce` | `EconomySpec => []RefundedOnce` |
| `OrdersAdvanceLegally` | `EconomySpec => OrdersMoveForward` |
| `HistoriesTrue` | `EconomySpec => []StatusHistory` |
| `PurchasesAnsweredTruly` | `EconomySpec => []AnswersTruthful` |
| `LosersAnswered` | `EconomySpec => CollisionsRecovered` |
| `ShopKeepsPromise` | `EconomySpec => KeepsPurchasePromise` |
| `GrantsMatchLedger` | `EconomySpec => []GrantMatchesLedger` |
| `FirstEntriesAreGrants` | `EconomySpec => []FirstEntryIsGrant` |
| `BooksAlwaysBalance` | `EconomySpec => []BooksBalance` |
| `StockLostByEditOnly` | `EconomySpec => StockMovesByEditOnly` |
| `StockAlwaysConserved` | `EconomySpec => []StockConserved`, if no request sets the stock |
| `BatchesAtomic` | `EconomySpec => BatchAllOrNothing` |
| `DeletedEventsStayFrozen` | `EconomySpec => DeletedEventsFrozen` |
| `ActiveStudentsServed` | `EconomySpec => OnlyActiveStudentsServed` |
| `NobodyLockedOut` | `EconomySpec => NobodyLocksThemselvesOut` |
| `MembershipTyped` | `MembershipSpec => []MembershipTypeOK` |
| `AcceptedOnceAlways` | `MembershipSpec => []AcceptedOnce` |
| `MembersHaveOwnAddress` | `MembershipSpec => []MemberHasOwnAddress` |
| `LinksGoToTheRightAddress` | `MembershipSpec => []OneLinkToTheRightAddress` |
| `OrphansKnown` | `MembershipSpec => []OrphansAreKnown` |
| `MembersSignIn` | `MembershipSpec => []MembersCanSignIn` |
| `RowsMoveForward` | `MembershipSpec => WhitelistMovesForward` |
| `SentLinksUsable` | `MembershipSpec => SentMeansUsable` |
| `ImportsTellTheTruth` | `MembershipSpec => ImportAnswersTruthfully` |
| `ImportsFit` | `MembershipSpec => []ImportDecisionsFit` |
| `MediaTyped` | `MediaSpec => []MediaTypeOK` |
| `AttachedImagesStayUsable` | `MediaSpec => []AttachedImagesUsable` |
| `PublishedProductsComplete` | `MediaSpec => []PublishedAreComplete` |
| `CompletedFilesHaveObjects` | `MediaSpec => []CompletedHasObject` |
| `DeletedFilesAreGone` | `MediaSpec => []DeletedMeansGone` |
| `PostsHaveOnePeriod` | `MediaSpec => []PeriodsMakeSense` |
| `FirstPublicationsKept` | `MediaSpec => FirstPublicationKept` |

### The shop

- **Types.**  `EconomyTypeOK` is not inductive: cancelling an order writes the
  stock of the order's product, which must have a row for the result to be a
  product.  `TypeInv` adds `OrderedProductsExist`.  The proof has one lemma per
  group of actions; the interesting leaves are the arithmetic ones (a refused
  overflow keeps a refund within `MaxInt`, a checked balance keeps a payment above
  zero).
- **One classification of steps.**  `EconomyStep` shows that a step either leaves
  orders and ledger alone, places one order with its payment, advances one order,
  cancels one order with its refund, or appends event and reset entries; every
  later invariant is proved against these few cases.
- **Ledger.**  A step either leaves a user's balance and ledger alone or appends an
  entry that starts at the balance and ends at the new one (`LedgerMoves`).
- **Refinement of the atomic ledger.**  The same lemmas say which types a service
  may append and that an entry's direction fits its type.  `LedgerProofs` maps
  each case of `EconomyStep` to a move: a placed order to `Pay`, a cancellation to
  `Refund`, grants to `Award`, a reset to `Reset` with the accounts it emptied,
  everything else to a stutter.
- **Price.**  A product's price changes only while it has no order, and a new order
  copies it.
- **Paid and refunded once.**  `PaidOnce` and `RefundedOnce` are inductive together
  with `TypeInv`: a payment is appended only for a key that has no order and
  hence no payment; a refund only for an order that is not cancelled and hence
  has none; events and resets append entries of other types.
- **Histories.**  `StatusHistory` needs two facts about what is under way: a request
  for a status change that is being served has a reason exactly if it cancels
  (`ReasonsChecked`; the check is the first thing the handler does), and no
  administrators' log mentions an order that does not exist (`Unmentioned`).
- **Answers.**  `PurchasesTold` says of each purchase what its answer may be, and that
  a request that goes to look for the winner of its key will find one;
  `RefundsLost` says the same of a cancellation that met another's refund.  That is
  why losers are answered as winners (`LosersAnswered`).  That an
  answer stays true is `OrderLasts`: terms and payment of an order never change,
  and by `PaidOnce` there is one payment to be told about.
- **Refinement of the promise.**  A step either places the order of the request that
  it also answers, changes the phase of one deal, answers a request, or is a
  stutter of `PurchasePromise`.  The steps of the other four services are stutters.
- **Accounts and events.**  A change of an account that is about to be written was not
  refused for the row that was read (`AccessChecked`), so its own administrator is not
  the one it demotes, stale or not.  The other action properties follow from the
  conditions that each transaction checks itself.
- **Sums.**  `BooksBalance`, `StockConserved` and `GrantMatchesLedger` compare a
  number with a sum, which the community modules define as a fold over a finite
  set in an order that is not known.  `BooksProofs` first shows, by induction over
  the subsets of the set (`SubsetInduction`), that a family of integers has sums
  that do not depend on the order and that `SumFunction` is one of them; then that
  a sum moves by the difference when one summand joins, leaves or changes
  (`SumMoves`).
- **Grants.**  `GrantBooked` is inductive: the grant of an event to a member is the sum
  of the entries of that event, there is no grant exactly if there are none, and
  the first one only is of type EVENT_GRANT.  Raising a grant appends the
  difference, so both sides move together; payments, refunds and resets append
  entries of no event.
- **Books.**  `BooksKept` adds to `BooksBalance` that only finitely many orders and
  grants exist, without which sums mean nothing: keys, users and events need not
  be finite.  `PlaceKeepsBooks`, `StatusKeepsBooks`, `GrantsKeepBooks`
  and `ResetKeepsBooks` move one side of the equation as much as the other; a reset
  takes exactly the balance it finds.
- **Stock.**  `StockStep` shows of every step that stock and what the standing orders
  hold change together, or the step is an update of the product that sets the stock.
  `StockMovesByEditOnly` is that, for every shop; no run checks it.
  `StockAlwaysConserved` follows for shops without such updates, which is the
  case in `orders_safety`.

### Membership

None of the invariants is inductive alone, because a handler goes on with what it
read steps ago.  `JoiningInv` is their strengthening:

- `SlotInv(r)` says what request r may rely on.  Each label belongs to one kind of
  call (`Routed`); the row it read is an earlier version of the row or the row
  itself (`ReadInv`); what it decided names rows that exist (`PlanInv`); while the
  row has the version that was read, only time can have ended the link whose mail
  is on its way (`MailInv`); while the link of a student who joins is active, the
  row waits, and if its address changed it is expired (`JoinInv`); its account
  at the provider is in one of the known stages (`AccountInv`).
- `LinkInv`, `SettledInv`, `LockInv` and `MemberInv` relate links, rows, open expiry
  transactions and members.

The proof is by rely and guarantee.  `Moves(r)` collects what a step of request r
may do to rows, links, members and accounts: a row moves forward with its version,
a link only ends, and the rest of the requests are apart.  `OthersRely` shows once
that under `Moves(r)` every other request keeps what it relies on.  Each action then
has to be shown to be such a move and to establish its own request's part.
`WhitelistMovesForward` is a part of the conclusion (`Kept`); the two other
action properties follow from the invariant, with most actions treated at once
because they answer nothing that the property is about.

An import may be of any length and is proved by induction.  `Decisions` and
`CarriedOut` are recursive functions over the rows.  The induction theorems of the
library take an operator, which these provers cannot instantiate; `UpTo` in
`ImportProofs` states induction over a set of numbers and derives it from a minimal
counterexample, and `Recursion` shows that a function defined step by step exists.
`AllDecisionsFit` says that each decision names a row that exists and that no row is
the target of two; `CarriedOutMoves` that carrying them out adds, restores or
corrects rows and never touches a member's, and leaves each written row as asked
unless it fails; `ImportWrites` what follows for the step of the model.

`ImportDecisionsFit` needs more about the decisions: a row that is to be created has
no holder, one that is to be updated or restored has one, which is the row that the
decision names (`Exact`, the one place where the table has to be finite), and no two
rows that are to be written share an address or a number (`AllDecisionsExact`).  By
`StaysFree` the writes of the earlier rows then neither touch the row that comes
next nor take its address or number, so no write meets a conflict, and at the end
nobody else holds what was written.

### Media library

`MediaInv` adds to the types what the tables say about Storage and what a request
that is between two systems left behind: a completed file's object matches
(`FileKept`); a request that has seen a matching object and is about to complete
the file will find it pending only if the object is still there, and one that is
about to remove an object works on a deleted row (`FileRequest`); what products
and posts show fits (`ProductFit`, `PostFit`).  The condition of the
update in `CompleteFileUpload` is what keeps `FileKept`: without it a deletion in
between leaves a completed file without an object.
`PeriodsMakeSense` follows from `PostFit`, since the schedule is judged after the
merge.

### Only model-checked

- Liveness under fairness (`EveryRequestAnswered`, `JoiningAnswered`,
  `AccountsSettle`) and ENABLED are out of the prover's reach.
- The three runs that expect a violation show a counterexample each; there is
  nothing to prove.

Every invariant and every other action property or refinement that a passing run
checks is stated by a theorem above.

## 5. Not modelled

- **Guards of the other endpoints.**  Orders and account changes are modelled with
  the role and status of the caller; for the rest an administrator's request is
  taken to come from one.  Token verification by Supabase is a library's business.
- **Reading.**  The queries of lists and details, the calendar and the home page,
  the users' own profile and ledger, the administrators' profile and log: they
  change nothing, and what they show is the state the properties are about.  The
  public list by period is modelled because its three conditions have to
  partition what updatePost may write.
- **Plumbing.**  Bootstrap, exception filter, response interceptor, database
  connection, health check: no state of their own.
- **Clubs and admin memos** are tables that no service uses.
