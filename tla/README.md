# A verification of the shop server

TLA+ models of `simpleShopServer` (NestJS, TypeORM on PostgreSQL, Redis, BullMQ),
checked with TLC and, for what matters most, proved with TLAPS.  Paths below are
relative to the repository; services are named as in `src/src/modules`.

## 1. The system

The server is one Node process (`ecosystem.config.js`: `instances: 1`) in front of
PostgreSQL, Redis and S3.  Every HTTP request runs through a service and gives the
event loop away at each `await`, so requests interleave between any two queries.
Only three places use a database transaction (the reservation of marking codes and
two in OAuth); everything else is read, compute, write, with the unique indexes of
the schema as the only arbiter.  `repository.update` leaves columns whose value is
`undefined` alone, which several services overlook when they mean to clear one.

| component | state | operations | interacts with | hard behaviour | what makes it correct |
|---|---|---|---|---|---|
| orders (`orders.service`) | `orders` (number, status, jsonb history), `order_items` | `create`, `updateStatus`, `cancel`, `updateNote`, lists, statistics | cart, products, promotions, order marking, mail | stale writes of status and history, numbers read then inserted, ten steps of `create` that may stop anywhere | legal histories that agree with the status, dense unique numbers, every placed order finished |
| order marking (`order-marking.service`) | `marking_codes` status and order | `reserveCodesForOrder`, `transitionCodes` | marking, orders | row locks with SKIP LOCKED, commit and synchronisation apart, errors swallowed by the caller | a code has one order, sold codes are not resold, stock is not overstated |
| marking (`marking.service`) | `marking_codes`, stock of variants | `create`, `bulkCreate`, `updateStatus`, `bulkUpdateStatus`, `delete`, `syncVariantStock` | products, order marking | administrator's save over a reservation, a bulk that stops half way | the stock is the number of codes in stock once the last request has recounted |
| promotions | `promotions` (counters in total and by user) | `validate`, `applyUsage`, CRUD | orders, cart | counters read then written, limit checked long before it is counted; type and value of a discount changed apart | counters agree and never exceed the orders; the order gives the discount the cart shows, and never more than its items cost |
| cart | `carts`, `cart_items` (unique by cart and variant) | `addItem`, `updateItem`, `removeItem`, `applyPromo`, `removePromo`, `mergeCarts`, `clearCart` | products, promotions, orders | find-or-create, retry after a unique violation, merge in many awaits | quantities within limit and stock; what was added or merged is there |
| products | `products`, `product_variants`, Redis cache | CRUD, bulk operations, `updateStock`, `replaceVariants`, grouped list and facets | marking, cart, orders, reviews | cache filled after it was emptied, variants deleted and inserted again, counts by hand-written SQL | the cached copy is the product, a product has the variants last given to it, facets agree with the list |
| categories | tree of `parentId`, cached tree | CRUD, move, reorder | products | the walk against cycles reads row by row, two moves close a cycle | every category is in the tree; a walk ends also on a cycle |
| users, auth | `users` (refresh token hash by audience, one-time tokens, addresses, role) | register, login, refresh, logout, verify, reset, change of password and e-mail, addresses | mail, oauth, every controller through the guards | whole-object writes of jsonb columns, tokens that are not cleared, access tokens older than the role | sessions follow the role and revocations, an address is proved, one default address |
| oauth | `user_oauth_identities` | resolve, create, link, unlink | users, providers | last way to log in removed, a login that saves a link it read before | an identity has one user, a user keeps a way in; an address counts as verified only if the provider vouched for it |
| reviews | `reviews`, rating of the product, cached list | create, update, approve, reject, reply, delete | products | approve against edit, rating computed then written, list cached after its invalidation | only approved texts are shown; the rating at rest is that of the approved reviews |
| wishlist | jsonb list in `users` | add, remove, move to the cart | products, cart | whole-list writes | no product twice |
| analytics | `analytics_daily`, set of sessions in Redis | events through a queue, daily job | orders | retried read-then-write, two notions of a day | counters are ordered and, without errors, exact |
| import | `import_jobs` | start, process | products, categories, S3 | a crash half way, rows taken twice, an update of the row that fails outside of the `try` or in its `catch` | a SKU is that of one product, the row tells how it ended |
| mail | BullMQ queue | send | SMTP, auth, orders | three attempts, crashes | every queued mail ends |
| progressive delay | counter in Redis | one per request | — | — | nothing runs it: its lines in `app.module.ts` are commented out |
| settings, pages, upload, health, database, configuration | rows, files | CRUD | — | little | — |

`PROJECT.json` lists the same components with their sources and, under `hazards`,
the lines where a test would hardly reach what can go wrong.

## 2. What is modelled

A step of a model is one `await` of the code together with what the code computes
up to the next one; where a module joins awaits into one step, its comments say so.
The `map` of `PROJECT.json` has the lines of every definition.

### Orders, marking, promotions

| module | models | state | proofs |
|---|---|---|---|
| `OrderStates` | the statuses, the table of `validateStatusTransition`, history entries | — | |
| `OrderStatusMachine` | what the table promises, as an abstract specification | `status` | |
| `OrderLifecycle` | one row of `orders` as `create`, `updateStatus` and `cancel` write it | `status`, `history`, `number`, `draft` (a number computed but not inserted), `req` (a write to come, with the history it has read) | `OrderLifecycleProofs` |
| `Fulfilment` | the three calls whole: cart, stock check, number, insert, reservation, synchronisation, items, cart, stock, status change, cancel | those of `OrderLifecycle` and `cart`, `stock`, `code`, `attached` (codes stored with the items), `run` (a `create` call), `job` (an `updateStatus` or `cancel` call) | `FulfilmentProofs` |
| `MarkingAdmin` | what the office does with the codes of one variant while orders reserve, sell and release them | `row`, `stock`, `lastId`, `call`, `uncounted` (history: codes were written by a request that did not recount them, and no recount has come since) | `MarkingAdminProofs` |
| `OrderTurns` | that row again, in behaviours whose requests race and in behaviours where they take turns | those of `OrderLifecycle` and `sequential` | `OrderLifecycleProofs` |
| `PromoUsage` | `validate` and `applyUsage` as `create` calls them, and an administrator who edits or deletes the code | `promo`, `call`, `redeemed` | `ShopProofs` |
| `PromoRules` | what a promotion is worth: `update`, `validate`, `applyUsage`, `applyPromo` of the cart and the discount in `create` | `promo`, `price` (of the products now), `cart` and `stored` (the prices kept with its items), `uses`, `kept` (the code in the cart), `call`, `since` | `ShopProofs` |

`Fulfilment` composes: `Life == INSTANCE OrderLifecycle` is its part for the row, and
each of its writes to the row is an action of that module.

* `create`: `ReadCart`, `CheckItem` (one per item, the `findById` before the
  comparison), `ReadNumber` (`generateOrderNumber`), `Insert` or `InsertConflict`
  (the unique index), `LockCodes` (one `SELECT ... FOR UPDATE SKIP LOCKED` per
  item), `CommitCodes`, `SyncStock` (one per variant of the order), `SaveItems`,
  `ClearCart`, `DebitRead` and `DebitWrite` (per unmarked item).
  `CheckoutCatches` is the `catch` around the marking service, `CheckoutDies` an
  error or a restart anywhere else.
* `updateStatus`: `UpdateRead`, `WriteRow`, then `TransitionCodes`, `FindVariants`,
  `Resync`.  `cancel`: `CancelRead`, `CreditRead`/`CreditWrite`, then the three
  marking steps, `WriteRow` last.  `JobCatches` and `JobDies` as above.
* The `UPDATE` of a reservation inside its transaction becomes visible in
  `CommitCodes`; until then the codes are in `run[o].codes` and locked
  (`LockedBy`).  A rollback drops them.
* Items are visited in any order instead of the order of the cart.  A model value
  stands for an order: an order that is not placed yet is the `create` call that
  may become it, and a failed call of `OrderLifecycle` may be tried again.
* `MarkingAdmin`: `StartCreate` is `create`, `StartList` is `bulkCreate`;
  `updateStatus` and `delete` read the row and save or remove it later (a `save` of a
  removed row inserts it again).  Every operation ends in `Recount`, the one statement
  of `syncVariantStock`, except two that look up first which variants to recount:
  `bulkUpdateStatus` passes over numbers without a row and recounts nothing when none
  has one, though its `UPDATE` may hit a row that has come back (`StartBulk`, `Bulk`);
  `transitionCodes` looks the variants up by the codes the order still has, so a release
  finds none (`Transition`, `FindVariants`).  Orders reserve, sell, release and take
  back codes as `OrderMarkingService` does.
* `PromoRules` computes amounts in whole roubles: which items a code applies to, the
  minimum, the cap, the percentage, the limits in total and by customer.  `applyPromo`
  totals the prices stored with the items, all of them, with their categories and for a
  guest without his own limit; `create` totals the current prices of what
  `buildCartResponse` shows, without categories and as the customer.

### The shop

The proofs about these modules are in `ShopProofs`.

| module | models | state |
|---|---|---|
| `Cart` | the carts of one visitor, known by a session and later by a user: find-or-create, `addItem` with the retry after a unique violation, `updateItem`, `removeItem`, `clearCart`, `applyPromo`, `removePromo`, `mergeCarts` | `owners`, `promo`, `item`, `call` |
| `Wishlist` | every operation as a read and a write of the whole list, which is how often it names each product (`remove` takes one entry out); `moveToCart` asks the cart first | `list`, `stock`, `call` |
| `Reviews` | the reviews of one product, its rating and the cached list | `review`, `shown`, `listing`, `call`, and history |
| `CategoryTree` | parents, the walk of `checkCircularDependency` row by row, the cached tree, `buildTree` as what is in every set that has the roots and the children of its own | `parent`, `tree`, `call` |
| `Catalog` | one product: its row, variants (a list that may be empty or absent), marks and the copy in Redis under create, update, bulk operations and status changes, delete, `updateStock` | `product`, `copy`, `edits`, `call`, and history (`past`, `unsaid`) |
| `ProductFilter` | the grouped list, the flat list and the facets, each as the set its SQL defines | `shown`, `stock` |

Rows of `cart_items` carry the call that inserted them, because `save` and `remove` go
by the id that was read.  In `Reviews`, `CategoryTree` and `Catalog` a variable
`calm` chosen at the start says whether requests overlap in the behaviour: some
properties are promises to a shop with one request at a time, others to all.

### Accounts

| module | models | state | proofs |
|---|---|---|---|
| `LoginSessions` | what a customer may expect of sessions, every request one step | `role`, `open` | |
| `Sessions` | login, refresh, logout, revocation, role changes over one jsonb column of refresh hashes | `exists`, `role`, `open`, `call`, and history | `SessionsProofs` |
| `Routes`, `Access` | every route with its guard; access tokens against the role of now | `role`, `tokens` | `AccountsProofs` |
| `AccountMails` | registration, accounts created by the log-in of a provider, the three kinds of mailed links, change of e-mail, edits by the office | `row`, `links`, `call`, and history | `AccountsProofs` |
| `AddressBook` | the list of addresses and its default mark | `book`, `call`, `given`, `unset` | `AccountsProofs` |
| `Identities` | logging in by a provider, linking, unlinking, passwords, deletion | `account`, `identity`, `born`, `lastId`, `call`, `crossed` | `IdentitiesProofs`, `AccountsProofs` |

`Sessions` takes from bcrypt that it compares 72 bytes, which for these tokens end
within the user's id: a hash of the audience is what counts, not which token was
hashed.  `AccountMails` keeps the tokens that are "cleared" with `undefined` as they
stay in the row.  A history variable (`fresh`, `tainted`, `crossed`, `proved`,
`given`) only records; no guard reads it.

### Queues

The proofs about imports and counters are in `JobsProofs`.

| module | models | state |
|---|---|---|
| `JobQueue` | a BullMQ job as the processors use it: attempts, and a job of a dead process is taken once more (external) | — |
| `ImportJob` | `start`, the processor group by group, matches by SKU and by name, duplicates, resolutions, errors inside and outside of its `try`, crashes, the office beside it | `file`, `old` and `there` (the products before), `made` (those created), `choice`, `job`, `row`, `run`, and history |
| `DailyCounters` | `trackEvent` and `processTrackEvent`, statement by statement, with the local and the UTC day | `event`, `hour`, `row`, `seen`, `work`, and history |
| `MailQueue` | three attempts of a mail under errors and crashes | `mail`, `out`, `deaths` |

### Compositions and instances

`Accounts`, `Shop` and `Jobs` put components side by side: `part` chooses the component
of a behaviour, the variables of the others stay `Off`, and each component is an
`INSTANCE ... WITH` of its module.  So every behaviour is one of the component alone,
and a run asks one question of several components; the proofs are about the same
compositions.  Some of these components write the same tables.  `AccountMails` and
`Identities` both have `users.email` and the insert of a user; each has the writes of
the other to what it reads as actions of its own (`SignIn`, `Insert` and `RollBack`
there, `Register` and `ChangeEmail` here), and their properties speak of different
columns.  `Cart` and `PromoRules` both have the items of a cart and its code,
`PromoUsage` and `PromoRules` the counters of a promotion, in the same way.  Where
components interact the modules do: `Fulfilment` contains the cart, the stock and the codes as
orders see them, `MarkingAdmin` the reservations and releases, `Wishlist` the cart's answer,
`PromoRules` the cart, the prices and the order, `Reviews` the rating of the product, `Catalog` the
marks and the stock that others change, `ImportJob` and `MailQueue` the queue.

The modules `MC...` only give the constants values: `MCOrderLifecycle` to `OrderTurns`,
`MCFulfilment` and `MCFulfilmentProgress` to `Fulfilment`, `MCPromoUsage` to
`PromoUsage`, `MCAccounts`, `MCShop` and `MCJobs` to the compositions.

External code is modelled as it is used: TypeORM and PostgreSQL by single
statements that are atomic, READ COMMITTED, unique indexes and foreign keys; Redis by
keys with a time to live; BullMQ by `JobQueue`; SMTP and S3 by success or error.

## 3. What is checked

All configurations switch deadlock checking off because the system may rest: nobody
has to ask for anything.

| run | instance | shows |
|---|---|---|
| `lifecycle` | behaviours with 2 racing requests on 2 orders, and behaviours with 3 orders of 2 customers and one request at a time | `TypeOK`; `HistoryIsLegal`: a history is one legal life although updates are lost; `StatusMatchesHistory`; `NumbersHaveNoGap` with conflicts and retries; `FollowsTheTable`: with one request at a time implements `OrderStatusMachine` |
| `fulfilment_safety` | 2 checkouts, 1 request, 1 marked and 1 unmarked variant, 1 code, caught errors and early ends | `TypeOK`, `CodesFollowOrders`, `AttachedCodesAreHeld`, `MarkedStockIsNotOverstated` |
| `fulfilment_sold` | 1 checkout, 1 code, 5 interchangeable requests (symmetry) | `SoldCodesAreNotResold`, with five requests the least in which an order is refunded |
| `fulfilment_progress` | 2 checkouts that lock 2 codes in any order; or 2 checkouts and 1 request; caught errors | `PlacedOrdersAreFinished`, `CancelTakesEffect`, `MarkedStockSettles` |
| `accounts` | 2 requests; 2 audiences, 2 roles; 2 users, 3 addresses, 2 links; 2 provider accounts | `AdminTokensAreForStaff`, `RevocationHolds`, `StepsAreAtomic` (implements `LoginSessions`), `OfficeWorkIsForTheOffice`, `EmailsAreOwn`, `VerifiedMeansProved`, `OneDefault`, `EverybodyCanLogIn`, `IdentitiesDoNotMove` |
| `shop` | 2 requests (3 checkouts of 2 customers for the code); 2 carts, 2 variants; 3 categories; 2 codes, 1 order that holds them; 3 products; for the rules 2 products at 2 prices, 3 kinds of terms, 2 updates, 1 use; the requests, the products of a wishlist, the customers with reviews, the codes and two of the categories are interchangeable (symmetry) | `TypesOK`, `CountersAgree`, `UsesAreBackedByOrders`, `CheckoutKeepsThePromise`, `MergeLosesNothing`, `AdditionsAreKept`, `OnlyApprovedIsShown`, `EveryCategoryIsInTheTree`, `StockIsCounted`, `CopyIsCurrent`, `FacetsPredictTheListing` |
| `jobs` | 2 files of 2 groups, 1 product before, 2 crashes, 1 edit of the office; 3 events, 1 error or crash; 2 mails, 2 crashes; 2 requests on reviews or categories | `ImportedOnce`, `FunnelIsOrdered`, and the liveness `QueuedImportsEnd`, `MailsEnd`, `HiddenTextsVanish`, `RequestsEnd` |
| `lifecycle_final`, `unmarked_zeroed`, `cancel_stock`, `cancel_codes`, `promo_limit` | the smallest that suffices | violated: what a comment or a message of the code says, see below |

### What the less obvious properties say

* `AdminTokensAreForStaff`: the role is compared once in a call and the tokens are
  written awaits later; nevertheless no token of the panel is handed to somebody who
  was not staff at some moment of that very call.  `OfficeWorkIsForTheOffice` is the
  other half: an old token of the panel opens nothing once the role has changed.
* `RevocationHolds`: after a change of the password an audience is open only by a
  login since.  The column is read and written as a whole, so a call that began before
  the revocation may bring a session back; `tainted` marks exactly that.
* `VerifiedMeansProved` and `EmailsAreOwn` hold although used links stay good: a link
  proves the address it was mailed to, and a change writes the address of its link.
  The log-in of a provider creates an account with the provider's address, verified when
  the provider vouches for it (Yandex), or with a placeholder, which nobody has verified.
  An address the office sets keeps the mark of the one before: that exception is named.
* `MergeLosesNothing`: wherever a merge stops, what it has read in the guest cart is in
  one of the carts until somebody takes it away.  The exceptions are named: two merges
  that get into each other (`EmptiedUnseen`, `MergedAway`) can lose a line.
  `AdditionsAreKept`: an addition that answered without an error is in the cart in full,
  also when two run into the unique index; only a removal or somebody who writes an
  older reading back (`Overwritten`, `Undercut`) may leave less.
* `CheckoutKeepsThePromise`: what `applyPromo` showed in the cart is what `create`
  grants, as long as the cart, the prices, the promotion and its counters have not
  changed since.  Three exceptions are the code's, and each is needed: an item was
  in the cart at another price than the product had when the code was applied (the cart
  totals the old price, the order the new one), a guest applied a code he has used up as a
  customer, and a promotion limited to categories alone, which `create` never grants.  At
  whatever prices, no order gets a discount over the price of its items.  It takes one
  update of the promotion at a time because two overlapping ones make a percentage over
  100.
* `OnlyApprovedIsShown`: an approve is one `UPDATE` of a row that may have been edited
  since the moderator saw it; it is the text in the row that becomes public, and an
  edit afterwards withdraws it.  That a moderator has read that very text is not
  claimed: the code cannot tell.
* `EveryCategoryIsInTheTree` holds with one request at a time.  Two moves at once can
  close a cycle; `RequestsEnd` shows that a later walk up such a cycle ends.
* `StockIsCounted`: an operation recounts after its own writes, which corrects also what
  an order or another operation has changed in between.  So at rest the stock is right
  unless the last that wrote codes did not recount them: it broke off, it was a bulk change
  that had found no variant, or the release of an order.  In particular a `save` that brings
  a deleted row back, a half-stopped list and every overlap of complete requests end right.
* `CopyIsCurrent` is about one request at a time, any of which may stop between two of its
  statements or be refused its list of variants.  What the last edit gave is what the
  product has; exempt are a copy that was there when an edit broke off before the
  invalidation (`past.stale`) and a list that was wiped and not inserted (`past.lost`).
  Its last part is about overlapping edits: a product without variants is not an accident
  of the overlap but the result of an empty list, or of such a broken edit.
* `FacetsPredictTheListing`: the count beside a filter value is the number of cards
  that choosing it gives, for every state of variants and every choice of filters,
  although each count is an SQL text of its own.
* `FunnelIsOrdered`: a retried event is counted again, but the wider counter is
  written first, so unique visitors never exceed visitors or visitors pages.
* `ImportedOnce`: a SKU of the file is that of one product however often the job runs and
  whatever the office adds and deletes; a completed import has dealt with every group of
  the run that its row tells of, and only a duplicate that was to be skipped is not among
  the counted ones.
* `QueuedImportsEnd`: what fails inside the `try` ends in a row that says so.  The update to
  "processing" is outside of it and the one to "failed" in its `catch`; where the database
  refuses one of these (`refused`) the job has had its one attempt and the row stays
  "pending" or "processing", and so it does after a second crash.

### Bounds

Orders, requests, users, codes and the like are finite sets of the instances.  What
would grow without end is bounded in a guard and named: `MaxRows` (rows inserted by
`MarkingAdmin` and `Identities`), `MaxLinks` and `MaxGiven` (mails sent, addresses
typed), `Window` (the thousand newest rows that `verifyEmail` searches, one here, so
that a link outside it happens), `MaxTexts` and `MaxEdits` (texts of reviews, contents
of the product, edits of the office), `MaxDeaths` and `MaxTroubles` (crashes).
`MaxQuantity` is 4 for the code's ten, with a variant that runs out before the limit and
one that does not, and additions of 1 and 3, so that limit and stock both bite.  In
`OrderLifecycle` a request may start again without end, yet the state space is finite:
the table has no cycle and a legal history at most seven entries.

Two of everything is where the races are: the properties speak of one order, one
code, one row or one pair, and two writers suffice to interleave on it.  Larger where
a case needs it: three orders for a conflict, a retry and a gap; three checkouts so
that two are of one customer; three categories for a cycle with something hanging on
it; three addresses to change one to a second and back while the third is another's;
three products for a model with two colours and one alone; five requests in
`fulfilment_sold` because a sale is two status changes from the start and a refund
five.  One crash is enough to run an import twice, and the second ends it without a
word.  Two files of two groups have groups with all their cells and groups without an
SKU, a name or a known category, each at both places.  The terms of `PromoRules` have
each of the conditions and limits, its two updates are the halves of a percentage over
100.  The proofs remove the bounds for every
safety property: their sets are of any size and their counters end anywhere.

### Fairness

* `Fulfilment`: weak fairness of `Proceed(o)` and `Serve(r)`; `Reviews` and
  `CategoryTree`: weak fairness of `Step(r)`.  A call that has begun goes on because
  the event loop and the database answer every await.  Nothing makes anybody begin a
  call, throw an error or stop.  `SKIP LOCKED` never waits, which is why no stronger
  fairness is needed.
* `ImportJob`: weak fairness of the worker.  `MailQueue`: weak fairness of sending and
  strong fairness of taking, since the one worker may be busy with another mail
  whenever this one waits, and BullMQ serves its list in order.  Crashes are bounded:
  a server that dies for ever sends nothing.
* `Reviews`: weak fairness of `Expire`, because every key is stored with a time to live.

### What the code does and its words do not say

Five runs end in a violation; `findings` quotes the lines.

* `CancelledIsFinal`: an `updateStatus` that read the row before a cancel writes
  over the cancellation; the codes are released by then.
* `UnmarkedStockCountsSales`: `reserveCodesForOrder` synchronises all variants of
  the order, so an unmarked variant is set to its number of codes, zero.
* `CancelRestoresMarkedStock`: `transitionCodes` clears `orderId` and then looks
  the variants up by it, so nothing is synchronised after a release.
* `CancelReleasesCodes`: a cancel between the insert and the reservation leaves
  codes reserved for a cancelled order.
* `LimitIsKept`: the limit of a code is compared before the order and counted after.

Seen while modelling and built into the modules as it is, without a run of its own:

* `removePromo` and `clearCart` set the code to `undefined`, so it stays on the cart
  (`Cart!RemovedPromoIsGone` states the opposite).  In the same way a category cannot be moved
  to the root, and one-time tokens are not cleared.
* Two unlinks at once can remove the last way to log in (`Identities!LastMethodStays`
  states the opposite; `EverybodyCanLogIn` has the exception), two moves at once can close a cycle of
  categories, and two updates of a promotion at once can make a percentage over 100.
* `create` passes items without categories to `validate`, so a code limited to
  categories gives a discount in the cart and none in the order, although
  `create-promotion.dto.ts:81` describes them as the categories the code is applied to;
  a code for free delivery changes nothing in `create`.
* `applyPromo` totals the prices stored with the items (`cart.service.ts:214`) and `create`
  the current ones (`orders.service.ts:103`), so after a change of a price the two
  discounts differ although neither the cart nor the promotion has changed.
* `replaceVariants` removes the marking codes of a product's variants with the rows.
  An edit that dies half way, or whose list is refused, can leave a product without
  variants.
* `updateStatus` of a code by the office leaves its `orderId`.
* `register` stores the user before it queues the mail, and answers with an error when
  the queue fails; addresses typed by the office are not put into lower case.
* An import row stays "pending" when the queue refuses the job or the database the update
  to "processing", and "processing" when the process dies a second time or the update to
  "failed" is refused; groups without a SKU are created again by a rerun, and a row that
  says completed is taken up again when the process dies before the queue learns of it.
* A user with reviews cannot be deleted; `findAll` of products does not ask `isVisible`.
* An addition to the wishlist may be lost to another one.

## 4. What is proved

Every safety property that a run checks, invariant, action property or refinement, is
a theorem: for any sets of orders, requests, customers, variants, codes, users,
addresses, groups, events and so on.  A module of proofs EXTENDS its component or
composition.  An invariant a run checks is seldom inductive; each proof names what has
to be known besides it, and that is the part worth reading.  `theorems` of
`PROJECT.json` lists the results.

`OrderLifecycleProofs`:

* `TypeCorrect`, `HistoriesStayLegal`, `StatusStaysWithHistory`, `NumbersStayDense`.
* `HistoryIsLegal` is not inductive: a history is written from the snapshot of a
  request.  `RowInv` adds `WritesAreLegal`: every snapshot is itself a legal
  history, and the entry to come is a legal step from its end.  That is why a lost
  update may shorten a history but not corrupt it.
* `NumbersHaveNoGap` is not inductive either: a number comes from a draft.
  `NumberInv` adds `DraftsFollow`: a draft is 1 or follows the number of a placed
  order.  An order stays placed because a write never carries "absent", which is
  where the two invariants need each other.
* `StatusesFollowTheTable`: where requests take turns the row implements
  `OrderStatusMachine`.  `TurnsInv` says that what the one request has checked still
  is so when it writes; `create` calls may race beside it, since they touch rows that
  are not placed yet.

`FulfilmentProofs`:

* `LivesStayLegal` transfers the theorems above to the whole.  Every write to the row is
  by definition an action of `OrderLifecycle`, so that it implements that module is a
  lemma of the shape of the definitions (`RowIsALifecycle`) and not a result.
* `CallsAreTyped`: type correctness, non-negative stock included.  `JobsKnow` says
  that a request knows its order and its target where it uses them.
* `AttachedCodesStayHeld` and `SoldCodesStaySold`, from `HandInv`: what a
  reservation has locked is in stock until it commits and locked by nobody else
  (`LocksHold`), a code is in stock exactly when it has no order
  (`StockHasNoOrder`), the codes a checkout holds between commit and save are its
  own unless a cancel has released them (`ReservedCodesAreHeld`), and a request
  moves codes once (`MovesOnce`, `WritesBeforeMoving`).
* `CodesStayWithOrders` and `MarkedStockStaysCovered`, from `SupplyInv`.  What a
  reservation locks of a variant stays within the lines it has read, because its loop
  visits a variant once (`RunFits`); a code with an order is one that order's call has
  locked and committed (`CodesAreKnown`), and a cancel or a status change gives none to
  another order.  The stock of a marked variant is written only by a count of its codes;
  the count can become too high only by a commit, whose call then owes the variant a
  synchronisation and owed nothing before.

`SessionsProofs`:

* `TypesHold`, and `RowsAreTyped` for the row with it: a deletion closes every session.
* `OfficeTokensAreForStaff` from `StaffIsNoticed`: a call that may open
  the panel has met a role of the staff before it goes on to the tokens.
* `RevocationsHold` from `FreshInv`: as long as no older call has written, what a
  younger call has read is fresh (`YoungCallsAreFresh`).
* `StepsRefineSessions`: requests that take turns implement `LoginSessions`.  The
  invariant `OneCallKnows` says that at most one call is busy and that what it has read
  still is in the row, so its write is the one abstract step and all others stutter.

`IdentitiesProofs`: `AccountsOfProvidersStay` from `RowInv`: the id of a row that a
call has read stands for one user for ever (`IdsStandForOne`), so a row that is saved
again belongs to the user it had.  `EverybodyKeepsAWayIn` from `LogInInv`: while unlinks
of a user run one at a time (`UnlinksAreAlone`), one that has come to its deletion
leaves a password or another link (`UnlinksSpareOne`), and no other call takes it.
`TypesHold`: two users never share an e-mail, and a link names a user who exists, because
the foreign key removes the links with the user.

`AccountsProofs`, about the composition:

* `EverybodyKeepsALogin` and `NoIdentityMoves` carry `IdentitiesProofs` over; the
  theorems of `SessionsProofs` hold of the composition because its sessions are sessions
  (`SessionsRun`).
* `OfficeWorkStaysInTheOffice`: every route of the office is `Guarded`, which is proved
  controller by controller from the table of routes, and a token of another role is
  refused by the role of now.
* `AddressesAreOwn` and `VerifiedAddressesAreProved` from `MailsInv`.  A token in a row
  was mailed by a link of its kind to that user (`RowsKnow`), a request carries such a
  link and the address of it (`CallsKnow`), a user is created once, by a registration whose
  confirmation goes to the address typed then or by a provider (`Registered`), and no two
  rows share an address, so a link finds the row of its own user.
* `AddressesHaveOneDefault` from `BookInv`: not only the list in the row but every list
  a call is about to write has one default at most and no id twice; the id of a new
  address is in none of them.

`MarkingAdminProofs`: `StockFollowsCodes`.  The stock may be wrong for a while; the
invariant `ARecountIsDue` says that then some call is still before its recount, or codes
are `uncounted`.  `CodesStayTyped` needs `Numbered`: a number of a row belongs to
one code, be it in the table or in a call whose `save` will bring a removed row back.

`JobsProofs`:

* `AnImportTellsAll` from `ImportInv`: what the processor has counted is the number of
  groups with that fate in this run (`FatesAreOfTheRun`), or in the run before until the
  row is marked again; a product is created with a SKU only while nobody bears it, and a
  group without one is created at most once in a run (`ShopIsTyped`).
* `CountersKeepTheirOrder` from `CountersInv`: in the middle of an event the wider
  counter is ahead by one (`CountersAreOrdered`), so a retry that starts over at any
  place keeps the order; without troubles the page views are the events
  (`CountersAreOfTheEvents`) and, on a server whose day is that of UTC, the unique
  visitors are the pairs of day and session that came (`VisitorsAreUnique`).

`ShopProofs`:

* `EverythingKeepsItsType`, the type invariants of all the components, is more than
  types: no line of a cart passes the limit or the stock (`CartsFit`), no list names a
  product twice (`ListsWereChecked`), ratings stay within the stars
  (`SumsAreBounded`).
* `UsesStayBacked` from `CoverInv`: not only the counters in the row but also those a
  call has read are compared with the orders whose count has been written (`Through`): a
  reading never holds more uses than that, and the order of the call that writes is not
  among them yet.  `TheCountersAgree` from `AgreeInv`: counters are lost in pairs.
* `TheStockIsRecounted` carries `MarkingAdminProofs` over.
* `FiltersAgree`: no invariant, only algebra: a count and the list it predicts filter
  the same pairs of product and size, the one after and the other before they are
  grouped.
* `ShownTextsAreApproved` from `ReviewsInv`: an approval is known with the text it was
  given to (`ApprovalsAreKnown`), and with one request at a time the rating is old only
  while that request counts (`RatingIsDue`).
* `NoCategoryIsLost` from `TreeInv`.  The walk of a move keeps a line of ancestors of the
  new parent that is closed under parents and without the moved category
  (`WalkIsSound`, `MoveIsSound`).  A set that is attached in the moved tree is then all
  of it: otherwise what it lacks would, with that line, be lacking in the tree before.
* `TheCopyIsCurrent` from `CatalogInv`: a copy is fresh, or a deletion of it is due
  (`ADeleteIsDue`), or an edit broke off and left it; a product has the list last given to
  it, or is about to get it (`AListIsDue`), or the edit that gave it is lost.
* `MergesKeepTheLines` and `AcceptedAdditionsStay` from `CartInv`: a line that a merge
  has read is `Safe` in the guest cart until that is emptied and, once merged, `Safe` in
  the cart of the user; what an addition is about to save is more than it adds
  (`AdditionKept`), and a row's id names the call that inserted it (`RowsAreNamed`).
* `ThePromiseIsKept` from `RulesInv`: as long as nothing has changed, the discount kept
  in the cart is that of the promotion as it is at the prices stored with the items
  (`ThePromiseStands`), and with one update at a time a percentage stays within 100
  (`PercentagesHold`), so a discount is never over the sum it is taken of, at any prices.

Assumed: `OwnerAssumption` and `FulfilmentAssumption` only say what kind of thing the
constants are, that there are finitely many codes, and that the mark "none" for a
missing order is no order.  The theorems of the other modules state what they need,
collected for the shop in `ShopConstants` (with `CartConstants`, `ReviewsConstants`,
`RulesConstants`): each order has a buyer, amounts and stocks are natural numbers,
quantities are within the limit of a row, ratings are stars, what is summed or counted is
finite, and a mark for "nothing" is not one of the things.  The instance that is
model-checked satisfies all of them.

Sums and cardinalities are folds over sets.  The library's induction theorems take an
operator, which the provers here cannot instantiate, so the lemmas about sums (a sum
exists, taking one element out, adding one to one, bounds) go by the least
counterexample: `SomethingIsLeast` follows from the well-founded order of the natural
numbers.

What proving has changed.  `MergeLosesNothing`, `AdditionsAreKept` and
`CheckoutKeepsThePromise` were false as first stated, on instances a little larger than
those checked then: two merges of one guest cart with an addition between their
readings, two additions that read one row, a promotion limited to products and
categories.  They now name these cases.  The run reaches the last two; the first needs
three requests and is out of the run's bounds, not of the proof's.

Only model-checked is liveness: `PlacedOrdersAreFinished`, `CancelTakesEffect`,
`MarkedStockSettles`, `QueuedImportsEnd`, `MailsEnd`, `HiddenTextsVanish` and
`RequestsEnd` need fairness and ENABLED, which are beyond the prover.

## 5. Not modelled

* Progressive delay: no code runs it (the lines of `app.module.ts` that would apply the
  middleware are commented out).
* Settings, pages, upload, health: rows written by single statements, files, or
  nothing; they interact with nothing.  Their routes are in `Routes`.
* Database, configuration and bootstrap: schema, seeds, import scripts of the seeds and
  wiring.  The unique indexes and foreign keys are guards of the modules.
* Of orders the administrator's note, the address, prices beside the discount, lists
  and statistics; the mails of `create`, `updateStatus` and `cancel`, whose senders
  catch their errors and change no modelled state.
* Of products search, related products and sold counts; of users names, phone, avatar
  and lists; of reviews the answer's text, the helpful counter and the office's list;
  of analytics the sums by source and device, the daily job, which no code queues, and
  the dashboards; of OAuth the exchange with the providers and the signed state and
  handoff tokens, which keep nothing on the server.
* What the models hold still: in `Cart` the stock is constant, so `TypesOK` says nothing of
  a line that the stock has fallen under since (`buildCartResponse` marks it,
  `CheckItem` of `Fulfilment` refuses it); in `ImportJob` a product keeps its name; in
  `PromoRules` the terms of a promotion stay, all but type and value; in `DailyCounters`
  every event has a session.  `Routes` of `Access` tells a manager from an administrator,
  `OfficeWorkIsForTheOffice` does not: it is about staff against everybody else.  In
  `fulfilment_progress` calls meet errors but no restart: after a restart nothing makes up
  for a missed synchronisation (`unsynced` in `MarkedStockIsNotOverstated`).
* Order numbers as strings: past 999999 the greatest string is no longer the greatest
  number, which no small instance reaches.
* Rendering, formatting, parsing of files and of DataMatrix codes, S3 and SMTP.

What could follow: the cart and the checkout of one customer in one composed module, an
abstract specification of the cart and of the stock of codes for them to implement, and
the counters of a promotion together with the promise of its discount.
