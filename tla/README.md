# A verification project for the commerce core

TLA+ modules for the parts of this platform where stock, money and the catalogue
change hands, TLC runs that check them on small instances, and TLAPS proofs of
what matters most for every size. Line numbers refer to the files under `src/`.

    tlc -config Checkout_orders.cfg MCCheckout     # one run
    tlapm Checkout_proofs.tla                       # the proofs

## 1. The system

A multi-tenant shop platform: `apps/storefront` (buyers), `apps/console`
(merchants) and `apps/worker` (background jobs) around `packages/core`, which
holds the logic, on Postgres (`packages/db`), Redis queues and vendor adapters
(`packages/integrations`). The processes share nothing but the database, the
queues and the vendors: every operation of the core is one or several Postgres
transactions at READ COMMITTED (`withTenant`), with vendor calls and enqueues
between them, never inside. That is where the hard behaviour is: any other
request, webhook or job may run between two transactions, and a process may die
there.

| Component | State | Operations | Hard behaviour | What makes it correct |
|---|---|---|---|---|
| Inventory (`core/inventory/server.ts`) | `stock_movements` (ledger), `stock_levels` (projection), `stock_reservations` (holds) | recordMovement, holdStock, releaseStock, consumeStockWithin, restockWithin, sweep-reservations | row locks taken one by one, reads made before them, `now()` fixed at the transaction's start, rows that do not exist yet and cannot be locked | projection = sum of ledger; a keyed adjustment counts once; an unexpired hold is never taken away; nobody waits in a circle |
| Checkout (`core/checkout/server.ts`) | `orders`, `carts.status`, `payments`, `refunds`, the hold of each order | startCheckout, replay, confirmCodOrder, startGatewayPayment, webhook handlers, expireCheckout, cancelOrder | four to six transactions a request, a vendor call in the middle, redelivered webhooks, a rollback followed by a compensating transaction | a cart is claimed once; captured money is counted once and owed back if the order is given up; stock adds up; every pending order ends |
| Order lifecycle (`core/orders`) | `orders.status` | transitionOrder, manualTransition | edges from several drivers | only the table's edges |
| Payments ledger (`core/payments`) | `payments`, `refunds`, `payment_accounts` | insertPayment, markPaymentCaptured/Failed, createRefundIntent, gateway account switching | idempotence across redelivery | one payments row per gateway order, one refund per payment |
| Refund worker (`worker/jobs/gateway-refund.ts`) | `refunds` | claim, vendor call, record | death between call and record; webhook before the record | sent at most once |
| Webhook route (`storefront .../webhooks/payments`) | `webhook_events` | store evidence, process, acknowledge | redelivery on 5xx | acknowledged only after processing |
| Sweeps and delayed jobs (`worker/jobs`) | none of their own | sweep-checkouts, order-events, sweep-reservations | the delayed job may never have been enqueued | see checkout, inventory |
| Promotions (`core/promotions`) | `promotions`, `coupon_redemptions` | quote, claimRedemption, edit, archive | concurrent last use, limits lowered while orders are pending | limits never exceeded; a coupon promised at checkout is kept |
| Customers, invoices, counters | rows of their own | upsert, first-order mark; allocate a number | rows locked across tables; gap-free numbers across rollbacks | no circle of waits, no hole in the numbers |
| Cart (`core/cart`) | `carts`, `cart_lines`, the cookie | put a line, coupon, snapshot at checkout | two tabs and a checkout edit one cart | the order is the cart it converted |
| Tax, advance split, promotions' arithmetic | none | pure functions inside order creation and invoicing | rounding, boundaries | parts sum to the whole |
| Logistics (`core/logistics`) | the shipment's status | weigh, quote, choose, track | events out of order; ties; slabs | a choice does not depend on the order of the quotes; tracking never goes back |
| Catalog (`core/catalog`) | products, categories, `url_slugs`, the storefront's cache | save, slug allocation, purge | rival slugs, saves over stale reads, lost purges | every URL ever served still leads |
| Variants (`writes.ts`, `bulk.ts`) | `product_variants` | save, import | rows matched by id or by SKU; an import over what was read | a variant keeps its identity |
| Product form (`console/.../ProductForm.tsx`) | what the browser keeps between saves | edit, rebuild the matrix, save | the form is never told the ids of what it saved | rows keep their variants |
| CSV (`csv.ts`, `bulk.ts`) | the merchant's file | export, import | blanks, missing columns, sorted and filtered rows | what was exported imports as a no-op |
| Variant picker (`storefront/.../VariantPicker.tsx`) | the selection | open, click | combinations that do not exist | shows something on sale; a way to every variant |
| Media | `media`, jobs | upload, enqueue, process | duplicate uploads, retries, deaths between row and job | a pending image is worked on; a finished one stays |
| Checkout pages (`storefront/.../checkout`) | the form's key, what was shown | price the page, click, retry | lost answers, one key for all clicks of a page, edits between page and click | one order a key and a cart; what was shown is charged |
| Gateway accounts (`core/payments/server.ts`, `console/.../settings/payments`) | `payment_accounts`, `payment_webhook_events` | save and enable, mint, receive, refund | the enabled account changes while payments are on the way | a capture is booked if the account that took it is still enabled; evidence first |
| Promotion builder (`console/.../promotions`) | the texts of a form, `audit_log` | open, edit, save, archive | two tabs, a stale form, roundings | the audit trail replays to the rows |
| Listings (`catalog/queries.ts`, `console-queries.ts`, sitemap) | nothing of their own | turn pages, export, crawl | each page is a statement of its own | nobody is told less, or other, than the catalog has |
| Identity | OTPs, sessions, counters | request/verify, rotate, limit | attempt counting | |
| Tenancy, crypto | tenant scope, envelopes | resolve host, seal | | |

How they meet: checkout calls promotions, customers, inventory and invoices
inside its own transactions, the gateway between them; the webhook route calls
checkout; the worker's jobs call checkout (`expireCheckout`), inventory's tables
and the gateway; the console calls recordMovement, cancelOrder and
manualTransition. `PROJECT.json` lists every component with its status, and
under `hazards` each place where this code is hard to test.

## 2. The modules

| Module | Models | Kind |
|---|---|---|
| `StockPromise` | what inventory promises a buyer: `onHand` and `promised` per reference, granted whole, never above the shelf, ended only by its owner or by time | abstract specification |
| `Inventory` | `inventory/server.ts` and `sweep-reservations.ts` at the level of row locks; implements `StockPromise` | detailed specification |
| `OrderLifecycle` | the order states and the two transition tables, as data | operators |
| `Checkout` | `checkout/server.ts`, with the parts of `orders/server.ts`, `payments/server.ts`, the webhook route and the checkout sweep it runs with; built on `StockPromise` and `OrderLifecycle` | composition |
| `Settlement` | the same transactions of an order, one row lock at a time: cart, coupon, customer, counter, invoice series | detailed specification |
| `Pricing` | promotions' arithmetic, tax, shipping fee, advance split and invoice, as the steps of one order | functions in a small state machine |
| `Logistics` | chargeable weight, carrier selection, status translation and regression, as the steps of one parcel | functions in a small state machine |
| `Quote` | the cart and checkout pages' prices and the order the click makes, over `Pricing` | composition |
| `CheckoutForm` | `CheckoutForm.tsx`, `api/checkout`, and what startCheckout and replayCheckout do with a key | specification |
| `GatewayAccounts` | `payment_accounts` and its readers: payment start, webhook route, refund worker, test event | detailed specification |
| `PromotionForm` | the promotion builder, its routes, `promotions/server.ts`'s writes and audit | specification |
| `Listings` | category pages, console list, export pages, sitemap chunks | specification |
| `RefundWorker` | `worker/jobs/gateway-refund.ts`, the queue around it and `refund.processed` | detailed specification of Checkout's `RefundProcessed` |
| `Cart` | `cart/server.ts`, the cart routes, and checkout's lock, snapshot and conversion | detailed specification |
| `Catalog` | saves of products and categories with their slugs, the storefront's cache and its purge | detailed specification |
| `Options` | `catalog/options.ts`: the option matrix | operators |
| `Variants` | the variant set under concurrent saves and imports | specification |
| `ProductForm` | the console's form over `Variants` and `Options` | composition |
| `Spreadsheet` | the CSV format, the merge and the import, over `Options` | specification |
| `Picker` | the option chips of a product page, over `Options` | specification |
| `Media` | one image: uploads, jobs, retries | specification |
| `MCInventory`, `MCCheckout`, `MCOrders`, `MCRefundWorker`, `MCPricing`, `MCCatalog`, `MCShop`, `MCCheckoutForm` | small instances, the calls and orders in them | for TLC |
| `Checkout_proofs`, `RefundWorker_proofs`, `Cart_proofs`, `Media_proofs`, `Catalog_proofs` | the theorems | for TLAPS |

`Inventory` and `Checkout` meet in `StockPromise`: Inventory is shown to
implement it, Checkout uses its actions (`Grant`, `Sell`, `Release`, `Restock`,
`Lapse`) where the code calls inventory. So Checkout needs no row locks, holds'
clocks or ledger of its own.

### Inventory

One connection (`Procs`) is one transaction. `Begin` is `withTenant` with all
the reads the call makes before it locks: which lines are tracked, whether the
idempotency key is known, whether the variant has moved before. They are kept in
`tx[p]` together with the transaction's `now()`, and are as stale as the
interleaving makes them when they are used. `LockLevel` is one
`SELECT ... FOR UPDATE` of `lockLevels` (for an adjustment, the row lock of its
`UPDATE`), in variant-id order; a variant without a level row is not locked.
`HoldStock` and `MoveStock` are the writes and the commit, in one step, since
the rows they touch are locked; where they write a row they could not lock they
wait for its holder. `InsertCollides` is the unique violation of two first
inserts, `Rollback` a lost connection or Postgres ending a deadlock.

| Variable | Code |
|---|---|
| `ledger[v]` | `stock_movements` rows of the variant, in commit order |
| `levels`, `onHand` | which `stock_levels` rows exist, and their `on_hand` |
| `reservation[r][v]` | the `stock_reservations` row with quantity and `expires_at` |
| `lock[v]` | the row lock of `stock_levels` |
| `tx[p]` | the open transaction; after a keyed call, the caller's answer |
| `catalog[v]` | `tracks_inventory`, `deleted_at` |

### Checkout

One action is one transaction or the one vendor call. `request[s]` says between
which two transactions the thread `s` is; it carries the order (and the minted
reference), which is what the code keeps in local variables. An order is an
idempotency key (`orders_tenant_idem_key`), so "the same key again" is `Replay`.

| Action | Code |
|---|---|
| `Start` | TX-A, `createOrderTx`: locks the cart, inserts the pending order, converts the cart |
| `Hold`, `HoldRefused` | TX-B, `holdStock` in `startCheckout` and again in `replayCheckout` |
| `Extend`, `ExtendTooLate` | the replay's second look at the status under the order's lock |
| `ConfirmCod`, `ConfirmCodFails`, `ConfirmCodTooLate` | `confirmCodOrder`; `reconfirm` is the same call in a replay |
| `CancelPending` | TX-C, `cancelPendingOrder` |
| `StoredRef`, `Mint`, `StoreRef` | `startGatewayPayment`: look, vendor call, TX-D (first writer wins) |
| `CaptureReplayed`, `CaptureMismatch`, `LateCapture`, `CaptureConfirms`, `CaptureOversold` | the branches of TX-2 in `processCaptured` |
| `OversoldCancel` | TX-3; between the two, `hook[h]` holds the gateway order |
| `PaymentFailed`, `RefundProcessed` | the other two webhook events |
| `ExpireCheckout` | `expireCheckout`, called by the delayed job and by `sweep-checkouts` |
| `ReleaseHold` | the fail-soft `releaseStock` after commit: it may happen late or not at all |
| `CancelOrder`, `ManualTransition` | the console |
| `Crash`, `HookCrash` | the process dies (or a statement fails with 5xx) between two transactions |
| `TimeOut`, `HoldLapses` | `expires_at` passes; the hold's own TTL passes. The two are independent: 25 and 15 minutes, extended by a replay in different transactions |
| `Mint`, `Pay`, `Ack` | the gateway: external, from how the code uses it |

Abstracted: a price is a number fixed per order (`Total`, `Advance`), computed
in `Pricing`; the coupon claim is a refusal that may come for orders in
`Coupons`, and claimed in `Settlement`, where the invoice's number is too; the
timeline, the notifications and the fingerprint check are left out, since no
property here tells them apart (the fingerprint is in `CheckoutForm`); the refund worker is in `RefundWorker`, here one action.
A failed statement inside `consumeStockWithin` is reported by the code as a
shortage (`inventory/server.ts:1008`), hence `DatabaseErrors`. One tenant: no
handler relates two. Catalog edits are in Inventory only.

### RefundWorker

One `run[w]` is one execution of `processGatewayRefund`. It reads the intent
(`Take`, `TakeSettled`), may fail locally, claims the row, calls the gateway and
records the reference, each in a transaction or call of its own. The queue is
external and modelled from `defaultJobOptions` and the worker's registration:
`job[r]` is the job `refund-<id>`, or the run that has it. `Stall` takes it from
a run that may still be going on, so two runs of one refund overlap; such a run
no longer has a say in how the job ends. A stall counts as an attempt, which
bounds the behaviours more than the library does but leaves every order of
steps within the attempts. `CallFails` covers a call the gateway acted on and
one it did not.

### Settlement

`Checkout` has each transaction as one action, so it cannot say whether two of
them wait for each other, nor what they read under which lock. Here `tx[p]` is a
transaction with the rows it has so far; `Plan(kind, o)` is the order in which
the code takes them. `Acquire` is one lock with what is computed under it (the
number from `UPDATE ... RETURNING`, the coupon's slots), `Refuse` the finding
that ends it, `Rollback` a failure anywhere, `KeyTaken` the unique violation of
the idempotency key, `Commit*` the rest. `Lapse` is `expires_at` passing: from
then on the order's claim on the coupon is not counted, though the order may
still be extended (`replayCheckout`) or paid.

### Pricing and Logistics

The functions are operators named as in the code (`Discount`, `LineDiscounts`,
`TaxedLine`, `AdvanceOf`; `ApplySlab`, `SelectCarrier`, `TranslateStatus`,
`IsStatusRegression`), in integers of paise and grams as the code has them. They
are used by the steps of one order (`StartCheckout` reads settings and seller,
`CreateOrder` prices, `ReadSeller` and `ConfirmOrder` invoice, `EditSeller` comes
in between) and of one parcel (`Weigh`, `Quote`, `Choose`, `Track`).

### Quote

`page` is the rendering, one step a statement (`OpenPage`, `ReadLines`,
`PreviewCoupon`, `ShowPage`), `placing` the click (`Click`, `SnapshotLines`,
`PlaceOrder`). Both price with `Pricing`'s operators, each from its own reads, as
the code has two callers of `evaluatePromotion` and two of the shipping fee. What
may change in between: prices, visibility, the coupon's row, the settings, and
the cart from another tab.

### CheckoutForm, GatewayAccounts, PromotionForm

`tab[t]` is a mount of the checkout form with its key, `post[p]` a request on its
way through the fast path, TX-A and its losers, the hold, the replay. `AnswerLost`
leaves the request running while the buyer retypes and clicks again. What stock
and gateway say is left open here.

In `GatewayAccounts` a key stands for an account at a gateway with its secrets.
A save is three statements (`SaveBegin`, `DisableOthers`, `Upsert`) and a commit,
with the row locks and the partial unique index between them; `ReadAccount`,
`CreateGatewayOrder` and `StoreReference` are the payment start, `RefusedDelivery`,
`RecordEvent` and `BookCapture` the webhook, `RefundJob` the worker. A gateway
gives up after `MaxTries` refused deliveries.

`PromotionForm` has the conversions as operators (`ToEditorState`, `ToPayload`,
`FormIsFine`, `Validated`), amounts as digits where the text matters, times in
half minutes since the input shows minutes, and the routes as actions that
replace the row and append to `trail`.

### Listings

`walk` is somebody turning pages (`ReadRooms`, `CountRows`, `ReadRows` are the
queries of one page), `export` the keyset loop of `exportCatalogCsv`, `crawl` a
crawler reading `/sitemap.xml` and its chunks. `good` and `room` are the rows;
every edit is an action between two statements.

### Cart, Media

`Cart` is one buyer's browser: `cookie` is the cart it has, `request[t]` the
request of each tab and how far its transaction has come. `LoadActiveCart` is
the row lock every edit begins with; `Snapshot` and `Convert` are what checkout
does under it. `Media` is one file, found by the checksum of its bytes: `row` is
`media.status`, `upload[c]` where each console's request is between its
statements, `jobState[j]` where a job is between its own.

### Catalog

A save is `Begin` (everything it reads), `Write` (its entity's row lock, and the
free slug), `Commit` and `Purge` or `PurgeLost`. `url` is `url_slugs`. A render is
`Miss`, `ReadCanonical` for a historical slug (a statement of its own), and
`StoreEntry`, so a commit and its purge can come in between. `late` marks what a
commit overtook.

### Options, Variants, ProductForm, Spreadsheet, Picker

`Options` is the matrix: a selection is a function from axis names to values,
which is what `optionKey`'s sorting and escaping makes of it. An option value is
the sequence of its parts between commas, since the form joins and splits at
commas and the file does not. `Variants` has `writeVariants` (soft-delete all,
revive by id or SKU, insert the rest) under rows that name, swap or omit
variants. `ProductForm` is the browser: `form` keeps the texts and ids it was
given when it opened, and a save calls `WriteVariants`. `Spreadsheet` is a file
of cells: `Blank`, `Unreadable` and `Absent` are what a cell or a column may be,
`Draft` what the parser makes of a handle's rows, `MergeProduct` the file over
the stored product, `Accepted` the all-or-nothing verdict. `Picker` is
`VariantPicker.tsx`: `OpensOn`, `ChipEnabled`, `Click`.

### The MC modules

An instance that is small by itself shares a run with others: `MCPricing`,
`MCCatalog` and `MCShop` extend several components that share no state, and a
variable `part`, chosen at the beginning, says which of them the behaviour is
about. (In `MCInventory` it is `stocked`, in `MCOrders`, which puts two instances of
`MCCheckout` into one run, `pair`.) The others stay at their first state. So nothing interleaves that does
not in the code, and each property is about one part.

## 3. The runs

| Run | Instance | Shows |
|---|---|---|
| `inventory` | *holds*: two variants, two buyers, a merchant, two connections, four calls, two clock ticks, the tracking of variant 1 may change. *keys*: three connections, one key, variants never stocked | no circle of waiting transactions; every step is one of `StockPromise` (refinement); `onHand` is the ledger's sum; a keyed adjustment is recorded exactly once |
| `checkout` | one unit of stock, two gateway ids, two webhook threads, failing statements, a replay, a crash; two attempts: prepaid and part-advance from two carts, or prepaid and COD with a coupon from one | carts claimed once, references and payments point at each other, handed-out references are stored, stock and money add up |
| `checkout_live` | two prepaid carts, one of them free, one gateway id | every pending order ends; paid money lands |
| `checkout_refunded` (violation) | as *prepaid and part-advance* | see section 6 |
| `pricing` | *orders*: three attempts of two customers on two carts, a coupon of two uses and one per customer, two connections, a rollback, a replay. *prices*: carts of one to three lines, nine coupons, four settings (one asks for no advance at all), three sellers, one edit. *quotes*: two variants of two prices, one coupon code with its possible rows, two edits anywhere between the page's first statement and the order. *parcels*: four parcels, four lists of quotes, five rule sets, every status. *gateways*: two rows, three accounts of two providers, two of the staff, two payment starts of one order, three saves | no circle of waits across tables, coupon limits and gap-free numbers; amounts add up and are fair, an advance is collectable unless the rate gives none; what is charged is what was shown; the carrier chosen is settled, events only advance; payments meet the account they belong to |
| `advance_zero` (violation) | as *prices* | see section 6 |
| `catalog` | *pages*: two products and two categories with rival slugs, two consoles, one render, four saves, two cached keys. *sheet*: two handles, three catalogs to begin with, two edits, at most two axes of two values and three variants, one value with a comma, one SKU and one barcode in scientific notation. *picker*: every page of two axes and three variants with prices 1..3. *checkout*: two tabs, two threads, two mounts, three requests | URLs still lead, the cache is stale only where it must be; an export re-imports; the picker never gets stuck on nothing; one order for all clicks |
| `picker_stuck` (violation) | as *picker* | see section 6 |
| `shop` | *variants*: two products, two writers, five rows, four writes. *form*: one product of two rows, five keystrokes, two axes, three SKUs. *media*: two consoles, three jobs of two attempts. *cart*: two carts, two variants, two tabs, a cap of one line. *refunds*: two refunds, two overlapping job runs, three attempts. *lists*, *download*, *crawl*: four products, three categories, two to a page, two edits. *promotions*: two tabs, two promotions, two edits, three audit entries | variants keep their identity; images end; the order is the cart; refunds are sent at most once; listings, export and sitemap leave nothing out; the audit trail tells the edits |
| `form_ids` (violation) | as *form* | see section 6 |
| `refund_early` (violation) | one refund | `refund.processed` before the recorded reference |
| `form_retry` (violation) | as *checkout* | see section 6 |

Bounds and why they are enough. Two orders on one unit of stock is the smallest
race in which somebody loses; every property relates at most two orders, one
gateway reference or one variant (the proofs of section 5 confirm this for the
invariants they cover: nothing depends on the sizes). Two threads suffice for
two transactions of the same order to be interleaved, a third connection is
there where the hazard needs one (*keys*). Two gateway ids make a
second mint possible. `MaxReplays = 1` and `MaxCrashes = 1` bound how often, not
where: the replay and the death may come between any two transactions.
`MaxClock = 2` with a TTL of one tick lets a hold be granted, lapse, be granted
again and be collected. `MaxCalls` bounds calls made, and covers hold, hold,
sale, restock. In *orders* the third attempt is what finds a coupon of two uses
taken, and shares the customer of one and the cart of none. In *quotes* two
edits are one in the page's rendering and one in the checkout's, or an edit and
its opposite. In *pages* (of `catalog`) one
title's second choice is the other's first, so that two saves race for one slug,
a third choice exists, and a slug can be left and come back to; four saves are
two creates and two renames. Of the cached keys one is stored or being
read at a time, since no step relates two. In *sheet* two edits make every pair of faults
(a column dropped and a row dropped, a cell and a pasted row), between imports
and console saves. In *form* five keystrokes are an axis, a SKU and a save, and
a second SKU and save. In *variants* four writes are two inserts of a product
and a save that races an import. In *cart* a cap of one makes the second line
the one too many; one of its two carts gets a coupon. In the listings four products are two full pages, and two
edits are one that moves a row across the page's end and one that takes it back.
In *checkout* (of `catalog`) three requests are a lost one, a retry and a rival
tab's. In *gateways* three saves enable an account, another, and the first again,
and a second gateway order is made before the last of them or not at all
(`OneMinted`); three accounts are two of one provider, so that a row can change
its keys, and one of the mock's, which mints one order for one receipt. In
*promotions*, once two saves are in the trail, one tab is away or one field at
most was typed (`OneAtWork`): two saves over one stale form are the race, and the
third entry shows that the trail goes on from them. In *prices* the fourth store
asks for an advance of nothing. In *sheet* the console types a SKU and a barcode
that read as scientific notation and the file brings an option value with a
comma, so that both exceptions of section 4 happen. `CHECK_DEADLOCK FALSE`: the shop
may come to rest, and the instances use up their calls, orders and crashes.

Fairness (`checkout_live` only). `TimeOut`: time passes. `ExpireCheckout`: the
sweep is a repeatable job and calls `expireCheckout` for every expired pending
order, so nothing is asked of the delayed job. `DeliverCapture`: the gateway
redelivers until it is acknowledged, and the route acknowledges only after
processing. `OversoldCancel`: a delivery that is not killed goes on. No fairness
on buyers, requests, merchants, releases or refunds. Symmetry is used for safety
only.

## 4. What the properties say

- `KeepsPromises` (Inventory): under stale `now()`s, sweeps, adjustments and
  re-holds, no unexpired hold is taken from a buyer and no unit is promised twice.
- `NoWaitCycle`: the sorted row locks are a deadlock discipline where the rows exist.
- `Reconciled`, `KeyedOnce`: ledger and projection, double clicks and retries.
- `CartsClaimedOnce`: a cart has one pending or sold order, although expiry,
  cancel and oversold cancel hand it back concurrently.
- `ShownRefsAreStored`: a buyer never holds a gateway order the webhook would not find.
- `CapturedMoneyIsOwedBack`: whichever of capture, expiry, cancel and stock
  failure came first, captured money of an order given up has a refund row.
- `MoneyCounted`: amount_paid counts each capture once, whatever was delivered
  twice or cut short between TX-2 and TX-3; paid orders are sold only against a capture.
- `MoneyTrail`: the inductive core of the money properties, checked so that the
  proof rests on something TLC has seen.
- `StockAccounted`: opening stock = shelf + lines of the sold orders.
- `PendingEnds`, `PaidMoneyLands`: liveness.
- `SentAtMostOnce`, `PendingWasNeverSent`, `DoneMeansCarried` (RefundWorker):
  the claim is taken before the call and never given back, and a failure before
  it is thrown, not swallowed.
- `NoWaitCycle` (Settlement): creation, confirmation and giving up lock carts,
  orders, promotions, customers and counters in orders that fit each other.
- `CouponsAreKept`: redemptions fill 0, 1, ... without holes and within both
  limits, whoever rolls back (`SlotsFillTheWindow`), and an order is told at
  confirmation that its coupon is used up only if its claim, or a rival's that was
  confirmed all the same, had lapsed, or the merchant lowered the limit
  (`PromisesAreKept`).
- `NumbersGapFree`: order and invoice numbers are 1..n whatever was rolled back.
- `BooksAgree`, `DiscountIsFair`, `AdvanceCollectable`: the order is the sum of its
  lines to the paisa and tax is rounded to the nearest, the discount is
  proportional and its gifts are the cheapest, and what is asked online is an
  amount the gateway takes, or all there is. An advance falls short of that only by
  being nothing, where the rate rounds to nothing of the total and the store has no
  minimum; that it does so then is the finding of `advance_zero`.
- `ChargedAsShown` (Quote): two pieces of code price a cart; if nothing was edited
  from the page's first read to the order's last, they agree, line by line and in
  total, and the click is not refused for a coupon the page took off, but for a
  customer who had ordered before. With an edit in between they may differ, see
  section 6.
- `QuoteIsSettled`: what is billed is the smallest slab that fits, and the carrier
  chosen does not depend on the order the quotes came in. `EventsOnlyAdvance`:
  tracking events in any order never take a shipment back.
- `EveryUrlStillLeads`: over at most one redirect, under two saves racing for a
  slug. `StaleOnlyIfOvertaken`: the cache serves what the database says unless a
  commit overtook the read or a purge was lost. `SerialSavesLoseNothing`: cycles
  of categories and lost publication dates need overlapping saves.
- `ReimportIsANoOp`: an export imported unchanged changes nothing, and is accepted
  exactly if no SKU or barcode in it reads as scientific notation, which the
  importer refuses and the console does not. `ImportDoesWhatItSays`: what sorting
  the file or leaving out rows and columns leaves alone. `ConsoleCanSaveIt`: no
  import, or sequence of imports, passes a cap of the form, and the form can save
  what is stored as it is unless an option value has a comma, where it would split.
- `ShowsSomethingOnSale`: no sequence of clicks leaves the picker on nothing.
- `VariantsKeepTheirIds` (Variants), `VariantKeepsSkuOrOptions` (ProductForm):
  stock, order lines and carts point at variant ids; a save, an import, or a
  rebuilt matrix must not swap them, and an import drops only what it did not name.
- `PendingHasAJob`, `ReadyImageStays` (Media): no image waits for nobody; late
  failures do not take a finished one back.
- `OrderIsTheCart`: no edit slips in between snapshot and conversion.
- `ListingsTell`: the export has every product that was there when it began, and
  none twice, whatever is saved meanwhile (`ExportIsWhole`); whoever turns pages to
  the end of an unedited listing has seen each product once (`PagesShowAll`); a
  product page opens on the price of the card that led to it unless what had it is
  sold out (`CardPriceHolds`); the sitemap's chunks are the sitemap (`SitemapIsWhole`).
- `ClicksOrderOnce`: one order of a cart stands however often and from however many
  tabs the buyer clicks, and a tab is told of success only for what it asked.
- `PaymentsMeetTheirAccount`: an acknowledged capture is on the order it paid;
  keys, captures and refunds go astray only if the settings were saved in between.
- `TrailTellsTheEdits`: each audit entry starts where the one before ended, and a
  save changes only what was typed.

## 5. What is proved

`Checkout_proofs` proves, for any sets of orders, carts, variants, gateway
references, threads and any bounds, that `Spec` implies `[]TypeOK`,
`[]MoneyTrail`, `[]CartsClaimedOnce`, `[]ShownRefsAreStored`,
`[]CapturedMoneyIsOwedBack` and `[]MoneyCounted`. The assumptions are those of
`Checkout` on its constants: `AttemptsAreWellFormed` (what `computeAdvanceSplit`
guarantees of total and advance), `StockIsNatural`, `BoundsAreNaturals`,
`NullsAreFresh`.

The argument is one inductive invariant,
`Books == TypeOK /\ MoneyTrail /\ CartsClaimedOnce /\ ShownRefsAreStored /\ MoneyBooks`
(`MoneyBooks` is the last two properties). None of the money properties is
inductive alone, for two reasons the code shares. A webhook finds its order only
through `orders.gateway_order_ref`, so "one capture per order" needs that
reference, payments row and minted order point at each other
(`RefsPointBothWays`). And a request acts on what an earlier transaction read,
so one that is about to store a reference must still be entitled to it
(`RequestsKeepTheirOrder`): the reference was minted for its own order, and the
order goes through the gateway. `CaptureEndsPending` is the rest: the capture
and the move out of `pending_payment` are in the same transaction, except in
TX-3, which is both as well. The proof has a lemma per named part and, in it, a
step per action.

`RefundWorker_proofs` proves the three properties of the refund worker and its
type invariant, for any number of refunds, runs and attempts (`AttemptsAreNatural`,
`NullIsFresh`, `WorkersAreNoStates`). The inductive invariant is `Claims`: besides
the properties themselves, one run at most is beyond the claim of a refund
(`ClaimedOnce`) and one that has not called yet finds nothing sent
(`CallsAreFirst`). Without it a second run could still be on its way to the
gateway when the first has been there.

`Cart_proofs` proves `CartSpec => []OrderIsTheCart` for any carts, variants,
quantities, tabs and cap (`CartAssumption`). The invariant is `Register`: the
types, that a request names the cart it was asked of (`RequestsName`), that one
request at most is inside a cart's lock (`LocksAreExclusive`), that what a
checkout has read is still what the cart holds (`ReadsHold`), that an active
cart fits the cap (`Fits`), and that a converted one is its order (`Faithful`).
The property alone is not inductive: the conversion writes what an earlier
statement read.

`Media_proofs` proves `PendingHasAJob` and `ReadyImageStays` for any number of
consoles, jobs and attempts (`MediaAssumption`), from `Care`: a pending row is
pursued by someone (`Pursued`), and a ready one that nobody contested is not
being worked on (`Undisturbed`).

`Catalog_proofs` proves `EveryUrlStillLeads` for any products, categories, slugs
and racing saves (`CatalogAssumption`), from `Pages`: a slug a save has written
was free or its own (`SlugsFound`), a slug's entity never changes (`NamesStay`),
and a named entity has exactly one canonical slug (`OneCanonical`). The lemmas
`CanonicalMoves` (what `SetCanonicalSlug` does to the canonical slugs) and
`SlugLeads` (from the named parts to the property) carry the argument.

Only model-checked. `StockAccounted`, `KeepsPromises`, `BooksAgree`,
`DiscountIsFair`, `ChargedAsShown`: they are about sums over sets or sequences, and what a fold
computes for every input needs an induction the installed provers cannot be
given. `PendingEnds`, `PaidMoneyLands`: liveness. `Settlement`, `Inventory`,
`Variants`, `Spreadsheet`, `ProductForm`, `Picker`, `Listings`, `CheckoutForm`,
`GatewayAccounts`, `PromotionForm`: not attempted yet.

## 6. Where code and comments disagree

Each is a run that must find the violation; the comment is quoted in `PROJECT.json`.

- `checkout_refunded`: two deliveries of one capture. One finds the stock gone
  (or a statement failing) and rolls TX-2 back; the other confirms the order;
  TX-3 of the first then creates the refund of a confirmed order.
- `refund_early`: `refund.processed` finds its row by a reference the worker
  records after the call; one that comes in between is acknowledged and lost.
- `picker_stuck`: a chip is disabled unless a variant has its value together with
  the selected values of all other axes, so of two variants on sale that differ
  in two axes one cannot be reached.
- `form_ids`: the form is not told the ids of rows it inserted; a row saved once,
  its SKU corrected and saved again, becomes another variant.
- `advance_zero`: the gateway's minimum is given only to a positive advance, so a
  store with a rate of zero (or a small total at a small rate) and no minimum takes
  an order, holds its stock and converts its cart, and then asks the gateway for
  nothing.
- `form_retry`: the checkout page has one key for all its clicks. When the stock
  hold fails the order is cancelled so that the buyer's retry makes a fresh one,
  but the retry carries the old key and is answered with the cancelled order.

Three more disagree with a comment and have no run of their own; the property
that would show them names the case as its exception, so that a change in the code
on either side of it is noticed. A SKU or barcode typed in the console that reads
as scientific notation makes its own export unreadable (`csv.ts:1128-1162`), while
"a file exported and re-imported unchanged is a no-op" (`csv.ts:22-23`,
`ReimportIsANoOp`). An option value with a comma that a file brought in is split by
the form (`product-form-state.ts:179`, `:226-228`), whose save is then refused: a
product "the merchant can then never save from the console again", which the
importer's caps are there to prevent (`csv.ts:86-90`; `bulk.ts:311-315` repeats it;
`ConsoleCanSaveIt`). A card advertises the cheapest active price even if that
variant is sold out, while the product page opens on the cheapest in stock: "the
PDP headline and the listing card must agree" (`queries.ts:207-209`,
`VariantPicker.tsx:46-47`; `CardPriceHolds`).

Other behaviour met while modelling, which no comment contradicts: two
adjustments may both write `opening_balance`, since the reason comes from an
unlocked read; `lockLevels` cannot lock a level row that is not there yet, and
one written later, out of order, can close a circle that Postgres ends
(`inventory/server.ts:757`); a replay may be told there is no stock just after
its own confirmation sold it; `payment_status` stays `pending` when an order
expires between TX-2 and TX-3, although the refund row is made; a restock asks
whether the variant is tracked now; a replay that dies before releasing leaves
its hold to the TTL; a capture of another amount is acknowledged
(`checkout/server.ts:1824`, by design). In the CSV path: a tracked variant whose
low-stock cell a merchant leaves blank gets the default on save, so that file
changes the product at every import; a handle that another page's slug already has is stored
under a suffixed one. In the form, removing every option and rebuilding replaces
all rows by one blank one, since the product over no axes is the empty selection
(`product-form-state.ts:251`).

At the checkout page: the click posts no expected total, so a price, fee or coupon
edited between page and click changes what is charged without a word, and a line
whose product was hidden is dropped in silence; a coupon the page shows as not
applying is posted all the same and refuses the click; usage limits are not
previewed. The idempotency fingerprint has the lines, the coupon, pincode, state, mode and
phone, but neither name nor e-mail nor the rest of the address: a retry after
correcting those keeps the old ones (`checkout/index.ts:97`). With gateway accounts: refunds are sent
through the account enabled now, not the one that captured; a replay hands out the
stored reference with the key of the account enabled now; a capture of an account
switched off meanwhile is refused until the gateway gives up. In the promotion
builder a window is kept to the minute, and a form opened before an edit or an
archiving overwrites it. In the listings: a listing's total counts products that have no active variant and so no
card; a product without options shows no picker, and so no price, on its page; a
visible category under a hidden one is in no navigation, since the home page lists
those whose own parent is null; a chunked sitemap leaves out the home page, and its
order has no tie-break between rows written at one instant.

## 7. Not modelled, and the plan

Left out for good: read-only queries, rendering, CSS and pages, vendor
adapters' wire formats, envelope encryption (no protocol state), generated
migrations except for the constraints the modules use.

Not modelled, but could be: identity (OTP attempts, session rotation, rate
limits), tenancy (one tenant is modelled, since no handler relates two): no handler of an
order, the stock or the catalogue depends on more than who is asking. The console's
pages that only show, the deletion of categories and tags, category membership and
the gallery of a product, and the adapters' own retries.

Left to prove: `Settlement`'s `NumbersGapFree` and `CouponsAreKept` from an
invariant on who holds which row; lock ownership and `NoWaitCycle` for
`Inventory` where every row exists; each step of `Inventory` maps to a step of
`StockPromise` given the sum lemmas as hypotheses; `AdvanceCollectable`.
