# Verification of the multi-vendor e-commerce API

TLA+ specifications of the parts of this NestJS/Prisma/PostgreSQL program whose
correctness depends on how concurrent requests interleave, the TLC
configurations that check them on small instances, and TLAPS proofs of their
main properties for every size. Paths below are relative to the repository.

## The system

One Node.js process (or several, behind one database) serves HTTP requests.
All shared state is in PostgreSQL and, for image files, on the disk; a request
is an async function whose every `await` lets others run. `prisma.$transaction`
opens an interactive transaction at PostgreSQL's default level, READ COMMITTED.
Nothing is queued and nothing runs in the background; a payment gateway
delivers webhooks from outside.

| Component | State | Operations that change it | Interacts with | What makes it correct | Status |
|---|---|---|---|---|---|
| Cart, `src/cart` | `carts`, `cart_items` | addItem, updateItemQuantity, removeItem, clearCart | catalog (reads), checkout (converts the cart) | one ACTIVE cart per customer, one row per variant | modelled |
| Checkout, `checkout.service.ts` | `carts`, `inventories`, `inventory_transactions`, the order tables | checkout | cart, catalog, inventory | one order per cart; all of an order's stock is reserved or none; one currency | modelled |
| Inventory, `inventory.service.ts` | `inventories`, `inventory_transactions` | restock, adjust | checkout (reserves) | 0 <= reserved <= onHand; the ledger explains the counters | modelled |
| Fulfilment, `vendor-orders.service.ts` | `vendor_orders`, `master_orders`, both histories | updateStatus | checkout (creates) | only allowed transitions; no master status at its end too early | modelled |
| Payments, `payments.service.ts` | `payments`, `payment_attempts`, `refunds`, `master_orders.payment_status` | createForUser, retry, createRefund | orders, webhooks | attempts are numbered without gaps; payment, order and attempts agree | modelled |
| Webhooks, `webhooks.service.ts` | `payment_webhook_events` and the above | processEvent | payments, the gateway | a report takes effect once, whatever is repeated, late or contradictory | modelled |
| Sessions, `auth.service.ts` | `refresh_tokens` | login, refresh, logout | guards, account status | one live token per session; a dead session stays dead | modelled |
| Onboarding, `auth.service.ts`, `src/vendors`, `src/shops` | `users`, `vendors`, `shops` | register, createForUser, verify, activate, shop create and update | guards | one of each; ACTIVE only if VERIFIED; decisions stand | modelled |
| Guards and ownership, `src/auth/guards`, `src/auth/authorization` | none | none (queries) | all controllers | who is let in was entitled while being let in | modelled |
| Categories | `categories` | create, update | products | no cycle | modelled |
| Products and variants | `products`, `product_variants`, `inventories` | create, update of both | cart and checkout (read) | unique slugs and SKUs, a default variant, an inventory row each | modelled |
| Product images, storage | `product_images`, files | upload, remove, stream | products | no row without its file, no file forgotten without a reason | modelled |
| Order views | none | none | orders | only the customer or an administrator sees an order | who may see: modelled |
| Exception filter, HTTP shell | none | none | all | errors become the documented statuses | the statuses: modelled |
| Redis, health, configuration | none that requests depend on | none | none | none | not modelled: I/O |
| Wallet, commission, promotion, review, notification, audit | tables only | none | none | none | not modelled: there is no code |

What is hard: reads outside a transaction that the transaction then relies on;
conditional UPDATEs that re-evaluate their WHERE after waiting for a row, and
UPDATEs of many rows that only look again at the rows of their snapshot;
transactions that lock rows in no fixed order; a unique index as the last guard
in a transaction that goes on after its violation; recomputation of a derived
column by concurrent siblings (write skew); a walk over a tree that others
change; a file and a row that share no transaction; events that come twice,
late or contradict each other; failures and lost answers at any `await`.
`PROJECT.json` lists each of these at its line under `hazards`, with the
properties that watch it.

## Modules

| Module | Models |
|---|---|
| `Tables` | rows, tables, requests and Init shared by the purchase modules; how a request ends |
| `Inventory` | `InventoryService`: Restock, Adjust |
| `Cart` | `CartService`: AddItem (ReadVariant, CheckCurrency, FindCart, CreateCart, UpsertItem), ChangeItem (FindItem, UpdateItemQuantity, RemoveItem, FindCartToClear, ClearCart) |
| `Checkout` | `CheckoutService`: LoadCart, LoadLines, ConvertCart, ReserveStock, PlaceOrder, NumberCollides; PostgreSQL's DeadlockVictim |
| `Purchase` | the three together, with UpdateVariant (catalog) and Interrupt (failures); Spec, FairSpec |
| `StockBook` | abstract specification: atomic purchases and stock movements |
| `PurchaseProperties` | what `Purchase` promises, and its refinement of `StockBook` |
| `OrderStatus` | status sets, allowed transitions, `deriveMasterOrderStatus` |
| `Fulfilment` | `VendorOrdersService.updateStatus`, statement by statement, and its properties |
| `Payments` | `PaymentsService`: CreatePayment (CountPayments, InsertPayment), RetryPayment (FindFailedPayment, RecheckPayment, InsertAttempt), CreateRefund (CheckRefund, InsertRefund) |
| `Webhooks` | `WebhooksService.processEvent`: ReceiveEvent, FindReference, SettleAttempt, SettleRefund, MarkDuplicateRefund |
| `RefundBook` | abstract specification: a refund is granted once, then paid or denied once |
| `Settlement` | payments and webhooks together, with failures; their properties and the refinement of `RefundBook` |
| `Sessions` | `AuthService.login`, `refresh`, `logout` on the token table, with expiry and changes of account status |
| `Onboarding` | `register`, `VendorsService`, `ShopsService`, and the operator who restricts vendors and shops |
| `Routes` | the table of all routes: their checks in order, roles, permissions, and the documented rule of each |
| `Access` | the checks themselves, one query at a time, while the data change or a query fails |
| `Categories` | `CategoriesService`: Create, Update with the walk of `assertNoCycle`, one query per turn |
| `Catalog` | `ProductsService` and `ProductVariantsService`: CreateProduct, UpdateProduct, CreateVariant (FindProduct, CountVariants, InsertVariant, InsertInventory), UpdateVariant |
| `ProductImages` | `ProductImagesService` and `LocalFileStorageService`: upload, removal and stream with partial files and lost answers |
| `MC...` | small instances for TLC: constants, symmetry, workloads |
| `Sums` | facts about sums over finite sets, for the proofs that need them |
| `...Proofs` | the proofs: `OrderProofs` of `Purchase` and `Fulfilment`, `AuthProofs` of `Sessions` and `Access`, the others of the module they name |

`Fulfilment` and `Access` name their `Init`, `Next`, `Spec`, `TypeOK` and variables
after themselves because each shares a proof module with another specification,
and a module cannot extend two that use one name.

Composition: `Purchase` composes cart, checkout and inventory with the catalog
as environment; `Settlement` composes payments with the gateway's webhooks;
`Onboarding` chains registration, vendor and shop, since each reads what the one
before has inserted; `Access` puts all guards in front of every route. `Access`
stands alone from the others because the guards' queries are not in the
transaction of the handler they protect: what they find may be stale by then,
and every other module is checked for all requests that get that far.

### How requests and transactions are modelled

* A request has a `pc` and the values it has read. Each database statement (or
  group of statements that no other request can separate) is an action, so
  requests interleave exactly at the `await`s that matter. A request usually
  runs once, and the rows it inserts are named after it, which replaces UUIDs,
  random tokens and file names; in `Fulfilment` and for moves in `Categories` a
  slot is reused, so runs are unbounded.
* READ COMMITTED: table variables hold committed rows. What a transaction has
  written stays with its request (`taken`, `current`, `from`/`to`, `derived`,
  `draft`, or a place such as "claimed") and is published by the action that
  commits. A written row is locked; a writer that meets it waits, and its WHERE
  is evaluated on the row that is committed then. A read never waits.
  Transactions that nothing can disturb between their first lock and their
  commit are one action.
* An UPDATE of many rows (`RevokeFamily` in `Sessions`) finds its rows in one
  action and locks and checks them in another: rows inserted in between are not
  among them.
* Failure: `Interrupt` ends a started request anywhere without committing: a
  dead process, a lost connection, Prisma's transaction limit, a collision of
  random payment or refund numbers. Two order numbers that collide are an
  outcome of checkout with its own answer (`NumberCollides`). A commit whose
  answer is lost is its own outcome where the handler reacts to it
  (`PlaceOrder`, the image INSERT). A client's retry is another request; the
  gateway's is another delivery of the same event.
* A cycle of checkouts that wait for each other's stock rows is found by
  PostgreSQL; `DeadlockVictim` rolls one of them back. The next line to reserve
  is chosen before its row is waited for, in any order, since the items array
  comes from a query without ORDER BY.
* `LoadCart` reads the cart and its items in one action although Prisma sends
  two queries. Only the items matter later, and `ConvertCart` refuses the cart
  if it was converted.
* After a violated unique index PostgreSQL fails every further statement of the
  transaction, so `CreateCart` answers 5xx there.
* `Access` gives one account and one resource to one request: no request reads
  another's progress, so they do not interact. The account's roles, permissions,
  status and vendor profile, and the existence and visibility of the resource,
  change under it. Where a missing resource is refused differs by route: the
  views of an order or a payment refuse it with a 403 before the ADMIN role is
  asked, the stream of an image with a 404 before the caller is looked at; the
  ownership guards let an ADMIN pass first, and the handler then does not find it.
* History variables are never read by an action's guard: `overlapped`
  (`Categories`: two moves have run at once; `Catalog` and `Settlement`: the
  products two new variants of which, and the payments two refunds of which,
  have), `contested` (`Settlement`: the attempts that two deliveries have found
  INITIATED at once), `overtaken` and `misled` (`Fulfilment`: the open
  transactions whose derivation a sibling's commit has overtaken, and whether the last commit was
  of one of them), `ever`, `always` and `failed` (`Access`). They say under
  which circumstances a weaker promise is made.
* Left out: prices, totals, snapshots, names, addresses, notes, timestamps,
  passwords and hashes, the signing of access tokens, order numbers (apart from
  their collision), carts' `ABANDONED` and `EXPIRED` statuses and
  `COMPLETED`/return statuses and `deletedAt` (no code assigns them).
  `catalog[v].available` stands for variant, product and vendor status and
  deletion together. `orders[r].cart` and a token's `parent` are not columns;
  they are kept to state properties.

## Runs

| Run | Shows | Instance |
|---|---|---|
| `contention` | stock and order safety under contention, the refinement of `StockBook`, and that started requests end | 2 customers whose carts hold the same 2 variants of 2 vendors, 2 checkouts, 1 stock request, quantities and stock up to 2 |
| `cart` | cart and currency safety | 1 customer, 1 variant that changes between 2 currencies, 2 adds, 1 change, 2 checkouts |
| `fulfilment` | histories, final statuses, when the master follows, and that started changes end | 2 vendor orders, 2 slots, 2 attempts |
| `settlement` | sums, the bound of refunds, single settlement, attempt numbers, statuses, handled events, the refinement of `RefundBook` | 1 payment request, 2 retries, 2 refunds, 3 deliveries, 3 event ids, an order of 2 units |
| `sessions` | chains of tokens under concurrent rotation, reuse and logout | 2 users, 2 logins, 3 refreshes, 1 logout |
| `onboarding` | uniqueness, decisions, vendor lifecycle | 2 users, up to 3 of each request, 4 reviews, 2 activations |
| `access` | admission on every route | every distinct pair of checks and documented rule, 2 changes, 3 grants |
| `categories` | no cycle without overlapping moves, just refusals, walks end | every forest of 2 categories, 1 creation, 2 administrators |
| `catalog` | unique names, default variants, inventory rows | 2 products, 1 product update, 3 variants, 1 variant update, 2 slugs, 3 SKUs |
| `images` | rows and files | 2 uploads, 3 removals, 2 streams |
| `fulfilment_derived`, `over_refund` | documented claims that the code does not keep, below | the smallest that show them |

Why these bounds are enough to be interesting: two checkouts with two common
lines are the least that deadlock and that fail after a first reservation;
stock of `MaxInt` 2 (also the int4 limit of the model) reaches overflow, sold
out and just enough; one stock request can be a restock, or an adjustment up
or down, at any moment. Two adds and one currency change reach every race of
cart creation. Two slots on two vendor orders compete for one vendor order or
update siblings, again and again, and `MaxAttempts` 2 exhausts the retry.
Three deliveries of three events give one reference two contradictory reports
while another is repeated or dies; two retries race for one attempt number
while a late or contradictory event of the first attempt arrives; two refunds
are pending at once. Three refreshes make a rotation, a rotation of its result
and a reuse race with a logout. Three new variants of a product have one that
fails while another has counted. Three removals and two uploads race for one
image with a second one to confuse it with. `Access` is exhaustive in accounts
and in whether the resource exists, and two changes are enough to lose one
condition and gain another between two queries.

`MCOnboarding` chooses at the start of a behaviour which requests may be sent
(`workload`): two of each by one user, one of each by two users, or the decisions
of several administrators about one vendor. Requests of different workloads
meet only through rows that are checked in each. `MaxQuantity`, `MaxInt`,
`MaxAttempts`, `Total` and `MaxChanges` are the only other bounds, apart from the
sizes of the sets.

Symmetry permutes requests, rows and slots that a module never tells apart; the
runs with liveness use none. `CHECK_DEADLOCK FALSE` is where all requests have
run or all orders are at their end, and the system may really stop.

### Fairness

`Purchase` and `Categories`: weak fairness of each request's own steps once it
has started. Node resumes a promise that is settled and PostgreSQL executes a
statement that does not wait. No customer has to send a request and no failure
has to happen. Weak fairness is enough in `Purchase` as a lock there is taken
once per request and requests are finitely many, and in `Categories` as nothing
waits. `Fulfilment`: weak fairness of a slot's steps and strong fairness of the
two statements that wait for a row. Its subscript `progress` leaves out
the history variables. A row can be taken again and again by new
requests, but PostgreSQL serves the waiters of a row in order. What starts a
request, and `Interrupt`, are never fair. `RequestsFinish` and `TransitionsFinish` are not
trivial: checkouts deadlock without the detector, a status change retries
while others overtake it, and the walk to the root could go round a cycle that
two moves close in front of it.

### Documents and code

Two runs show a documented claim violated:

1. `fulfilment_derived`: overlapping updates of sibling vendor orders can leave
   a master status that does not follow from them, against
   `docs/database/order.md:248`; the bounded retry does not see the case, as the
   conditional write succeeds or is skipped. What holds in spite of it is
   `EndIsTrue` and `EndIsFinal`: the customer is never told FULFILLED or CANCELLED
   wrongly; and `MasterFollows`: the master status follows from the vendor orders
   except after the commit of a transaction that another has overtaken, until the
   next one that is not. The master order may miss its end when two last deliveries overlap.
2. `over_refund`: refunds that are pending are not counted against
   `paidAmount - refundedAmount`, so two of them can exceed what was paid, against
   `docs/database/payment-refund.md:848`. What holds is that `refundedAmount` is
   their sum (`RefundedIsSum`), and that two refunds of the payment must have been
   open at once, from check to settling event (`OverRefundNeedsRace`).

Reading the code for the models showed more of the same kind. They have no run
of their own; the models allow each of these behaviours, and the checked
properties say what remains true in spite of it. Where the claim has a name in a
module it is stated there after the checked properties.

| Where | Claim | What the code does | Checked instead |
|---|---|---|---|
| `cart.service.ts:106` | `cart.md:645`: a converted cart is immutable (`ConvertedCartImmutable`) | an add that has found the ACTIVE cart writes its item after a checkout has converted it | `OneOrderPerCart`, `OrdersMatchStock` |
| `cart.service.ts:90` | `cart.md:147`: items are in the cart's currency (`CartInOneCurrency`) | two first adds pass the check while there is no cart | `OrderOfOneCustomerAndCurrency`: checkout refuses the mixed cart |
| `cart.service.ts:208` | comment at 181-185: the loser of the creation race uses the winner's cart (`LoserGetsWinnersCart`) | the recovery runs in an aborted transaction and the loser gets a 500 | `CartsUnique` |
| `payments.service.ts:100` | comment at 61: a second payment is rejected (`OnePaymentPerOrder`) | two requests count together before either inserts, and no index forbids it | `StatusesFollow` for the order's only payment |
| `webhooks.service.ts:157` | comment at 151: an attempt is never settled again under another event id (`EveryAttemptSettledOnce`) | the attempt is read before the transaction and updated by id | `SettledOnce`, `StatusesFollow`: refunds always, attempts unless two deliveries found one INITIATED at once |
| `webhooks.service.ts:85` | `payment-refund.md:670`, `673`: retry safety, failure recovery (`ReceivedIsHandled`) | the event row is committed before the event is handled, and a redelivery is a duplicate | `ReceivedIsCarried`: only a delivery that died leaves an event behind |
| `auth.service.ts:228` | `architecture.md:767`: reuse ends the whole family immediately (`ReuseEndsSession`) | a token that a rotation inserts after the UPDATE's snapshot survives | `OneLiveToken`, `SessionIsChain`, `DeadSessionStaysDead` |
| `auth.service.ts:319` | comment at 290: logout revokes every active token of the family (`LogoutEndsSession`) | the same race with a rotation | the same |
| `auth.service.ts:252` | comment at 250: a blocked account gets no new refresh token (`BlockedGetsNoToken`) | the status is read before the token is inserted and may change in between | `SessionIsChain`; the token's next use reads the status again |
| `product-images.service.ts:155` | `API.md:68`: missing and foreign resources are both a 403 (`ExistenceHidden`) | the stream answers 404 for a missing product and 403 for a foreign one that is not ACTIVE | `RefusalTellsWhy`: what each status can be relied on for |
| `orders.service.ts:66`, `payments.service.ts:219` | `API.md:71`: an ADMIN is told 404 for a missing resource (`MissingToldToAdmin`) | the missing order or payment is a 403 before the ADMIN role is asked | `EntitledIsAdmitted`: nobody entitled to one that exists is refused |
| `shops.service.ts:166` | `update-shop.dto.ts:67`: SUSPENDED is administrator-controlled (`SuspensionStays`) | the owner of a suspended shop sets it ACTIVE | `OneOfEach`, `DecisionsStand` |
| `categories.service.ts:84` | `catalog.md:176`, `1634`: no cycles (`Forest`) | two moves that overlap both pass the walk | `CycleNeedsRace`, and that walks end on a cycle |
| `product-variants.service.ts:58` | `catalog.md:1653`: at most one default variant (`OneDefault` without `overlapped`) | two first variants both count none | `Defaults` |
| `product-images.service.ts:123` | `catalog.md:1881`: a row without a file is the worse failure | an INSERT whose answer is lost is taken for a failed one, and its file is deleted | `RowHasFile`: only then |

## Proofs

Each proof follows the same argument: an inductive invariant, one lemma per
action (or per kind of step), then the theorems by PTL. Every theorem holds for
any numbers of users, requests and rows, and rests only on the named
assumptions of the modules: kinds of requests are disjoint, owners are
functions, `None` is no row, bounds are positive, stored items form well-formed
carts. TLC evaluates them in every run.

| Specification | In | Inductive invariant | Proved of its `Spec` |
|---|---|---|---|
| `Purchase` | `OrderProofs` | `PurchaseInv`, `CartsInv`, `LinesSound`, `OrdersAddUp` | `TypeOK`, `StockHolds` (`StockSound` and `HeldStockStays`), `LedgerBalances`, `OrdersMatchStock`, `OneOrderPerCart`, `CartsUnique`, `OrderOfOneCustomerAndCurrency`, `ImplementsStockBook` |
| `Fulfilment` | `OrderProofs` | `FulfilmentInv`, `FollowInv` | `HistoriesTrue` (`HistoryTrue` and `MasterHistoryTrue`), `EndIsTrue`, `EndIsFinal`, `MasterFollows` |
| `Settlement` | `SettlementProofs` | `SettlementInv`, `ReportsSound`, `RefundsAddUp`, `RefundsFit` | `RefundedIsSum`, `OverRefundNeedsRace`, `SettledOnce`, `AttemptsNumbered`, `StatusesFollow`, `ReceivedIsCarried`, `ImplementsRefundBook` |
| `Sessions` | `AuthProofs` | `SessionInv`, `SessionsApart` | `OneLiveToken`, `SessionIsChain`, `DeadSessionStaysDead`, `SessionsIndependent` |
| `Access` | `AuthProofs` | `AccessInv` | `AccessTypeOK`, `AdmittedWasEntitled`, `EntitledIsAdmitted`, `RefusalTellsWhy` |
| `Onboarding` | `OnboardingProofs` | `OnboardingInv` | `OneOfEach`, `DecisionsStand`, `VendorLifecycle` |
| `Categories` | `CategoryProofs` | `CategoriesInv` | `CycleNeedsRace`, `RefusedIsCircular` |
| `Catalog` | `CatalogProofs` | `CatalogInv` | `NamesUnique`, `StockedVariants`, `Defaults` |
| `ProductImages` | `ImageProofs` | `ImagesInv` | `RowHasFile`, `OrphansExplained`, `RemovedOnce`, `StreamsWhole` |

Why each needs strengthening:

* Purchase. `StockSound` is not inductive: `PlaceOrder` adds quantities checked
  several steps earlier. `HeldStockStays` supplies what is missing: what an open
  checkout has taken fits into the committed counters and nobody else takes of
  the same variant, since the row lock excludes other writers.
* Carts. Relative to `PurchaseInv`, `CartsInv` adds that a request inserts its
  rows last (`RowsSound`: a new cart is nobody's yet, neither a checkout's nor an
  item's) and that an open checkout holds its cart alone, still ACTIVE for all
  others, with a customer and a currency it has checked (`CheckoutsSound`, by the
  row lock of the converted cart). `LinesSound` carries that the lines are not
  empty from the first read to the order. The three give the refinement of
  `StockBook`: the commit of a checkout is a purchase of units that are there,
  from a cart not spent before, and every other step moves stock or stutters.
* Fulfilment. `HistoryTrue` needs `TransitionsSound`: the vendor order of an open
  transaction still has the status that was read, because the conditional
  UPDATE checked it and its row is locked; `MasterWriteSound` is the same for the
  master row. `EndIsTrue` needs `DerivedEndSound`: an end that has been derived is
  not overtaken, for a vendor order at its end never leaves it. `MasterFollows`
  needs `FollowInv`: what a transaction has seen and derived that no sibling's
  commit has overtaken is still so, since its own row is locked and the others
  have not changed; its commit then makes the master follow.
* Settlement. `DeliveriesSound` says that a delivery's event is its own and
  not handled yet, which makes the conditional update of a refund happen once;
  `RowsSound` that references lead to rows and that a payment's numbers are
  `1..k`; `RetriesSound` that a retry which has its number follows attempts
  that have failed. `ReportsSound` says of an attempt that is not contested
  that a delivery about to settle it finds it INITIATED and is alone; so a
  late or contradictory event of it, under any id, moves nothing. The
  refinement of `RefundBook` uses only that a settled refund's payment exists.
* Sessions. A rotation that has claimed a token holds it live and alone
  (`RequestsSound`), by the row lock of the claim; so replacing it keeps one live
  token, and a revocation cannot have ended the session in between. For
  `SessionsIndependent`, `SessionsApart` says that the tokens a revocation has
  found are of the session presented to it, and that a session has one user.
* Onboarding. What a request has read stays true where it matters
  (`RequestsSound`): rows never disappear, and a review only writes along an
  allowed transition from the status its WHERE compares.
* Categories. While moves do not overlap, the walk's `visited` is a path of
  parents from the wanted parent to `current`, past the category that is moved
  (`Climbed`). At the root the path is closed under `parent`, and the move cannot
  close a cycle through it. A forest is stated without recursion: every
  non-empty set of categories has a member whose parent is outside of it.
* Catalog. `SkusSound` is what waiting for an uncommitted SKU gives: a draft's SKU
  is nobody else's. `DefaultsSound` carries the count over the rest of the
  transaction: a variant that is not the first keeps finding a default, and one
  that is the first and alone finds no other variant.
* Images. `UploadsSound` and `ReadersSound` say that whoever has read an image has
  read a published one, whose file is never partial again; `RemovalsSound` that
  at most one removal takes a row, by the count of its DELETE.

* Sums. The library's induction over finite sets cannot be instantiated by these
  provers, so `Sums` proves what the sums need by a smallest counterexample: a
  set of subsets of a finite set has a member that includes no other
  (`Smallest`), and two functions that add up the same way agree there if they
  agree below (`SumsAgree`). From it come the three facts that the proofs cite:
  the empty sum is 0, one more member adds its value, and a change outside of
  the set changes nothing.
* Stock and orders. `OrdersAddUp` says that only finitely many orders have been
  placed and that `reserved` is the sum of what they bought; by the steps of
  `StockBook` an order adds to both sides exactly what its checkout has taken.
* Refunds. `RefundsAddUp` says the same of `refundedAmount` and the refunds that
  have SUCCEEDED, by the steps of `RefundBook`: nothing else touches either side.
  `RefundsFit` makes the bound inductive: the one open refund of a payment,
  checked or PENDING, still fits into what was paid and not given back. What was
  paid never shrinks, and paying that refund leaves none open.
* Access. The proof starts from the table: `EveryCaseServed` says of each route
  that its checks together amount to its documented rule (`Serves`), and
  `RuleIsChecks` that an account meets the rule exactly when it meets every
  check. `AccessInv` then carries through the request that each check passed was
  met by facts that have held during it (`PassedWereMet`), that the answers of
  the parallel queries lie between what has always held and what has ever held
  (`AnswersAreFacts`), and that a refusal comes from a check that what has always
  held does not meet (`RefusalIsDeserved`). A route added to `Routes` with a
  check missing fails `EveryRouteServed`, not only a run.

Only model-checked: liveness (`RequestsFinish` of `Purchase` and `Categories`,
`TransitionsFinish`), which is out of these provers' reach. The two documented
claims that runs refute are not theorems of the code. Every other property of a
run is a theorem; type correctness is part of each inductive invariant.

## Not modelled

* Redis, health check, environment validation, Swagger, seeds and Postman
  scripts: no request's outcome depends on them.
* Wallet, commission, promotion, review, notification and audit have tables and
  no code.
* Order views, lists and look-ups only read: who may read is in `Access`, the
  formatting is not modelled. DTO validation is a refusal without effect and
  left out; the inputs of the models are those that pass it.
* Of the exception filter its statuses are in the answers; how it is installed
  and what it logs is not.
* Money arithmetic (Decimal) is exact and in whole units here; prices and
  totals are left out.

## State of the plan

Done: purchase, fulfilment, settlement, sessions, onboarding, access,
categories, catalog and images, each with proofs of all its safety properties.
New code for wallets, promotions or a release of reservations would come next:
nothing in `src/` gives reserved stock back today.
