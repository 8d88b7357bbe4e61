# Shelfio: verification project

Shelfio is a store-operations system: an Express/Prisma/PostgreSQL backend
(`src/backend/src`), a React frontend (`src/frontend`) and the firmware of
electronic shelf labels (`src/backend/ESL_firmware`). This directory holds TLA+
models of the parts of the backend whose correctness depends on interleavings,
failures and restarts, the TLC runs that check them, and TLAPS proofs.

## 1. How the system executes, and what follows from it

* One Node.js process serves all HTTP requests and runs seven timers
  (`src/backend/src/jobs`). JavaScript code between two `await`s is atomic;
  **every `await` is a point where another request or timer may run**.
* `repositories/postgresRepository.js` offers `getAll`, `findById`, `create`
  and `updateById`. `updateById` is `findFirst` followed by `update` of *every*
  column, without a transaction and without a version check
  (`updateByRepositoryId`, lines 608-618). Whoever writes, writes everything it
  read: a column changed in between is lost.
* A few operations use `prisma.$transaction` with `SELECT ... FOR UPDATE`; most
  handlers are sequences of independent writes, and a restart or an error
  between two of them leaves the first ones in place. Nothing resumes an
  interrupted handler.
* Purchase orders have an in-memory lock per order (`withOrderUpdateLock`).

The models therefore share one shape. A handler is a sequence of actions, one
per database step that another process could observe or disturb. A record of
the request (`call`) keeps what the handler has read and will write back. A
`Crash` action drops all these records and keeps the tables. Synchronous code
between two awaits is one action.

## 2. Inventory

Column *status*: **M** modelled, **P** partly, **-** not modelled.

| component | state | operations | interacts with | hard behaviour | what makes it correct | status |
|---|---|---|---|---|---|---|
| Mobile order hand-off (`mobileOrderService`) | `mobile_orders`, their items, `customer.activeCart`, `customer_orders` | create from cart, confirm hand-off, look up, pull to POS, complete from POS, expire | customers, POS | two writers of the cart; retries of the clean-up; stale status writes; timeouts | cart cleaned once per hand-off, completion flags true, completed orders not reopened | M |
| Purchase orders (`procurementService`, `purchaseOrderLifecycle`) | `purchase_orders`, items, deterministic timeline | status requests, automatic progression, goods receipt, manual stock entry, archive, cancel | warehouse, stock, scheduler, notifications | lock of requests that the scheduler does not take; multi-step booking with failures | stock entered once per line, closed entry fully stocked, contract between statuses kept | P |
| Suggestions, supplier products (`procurementService`) | `purchase_suggestions`, `supplier_products` | generate, edit, reject, approve (tx), order with a suggestion | purchase orders | whole-row writes of an old reading; one check outside the transaction; order numbers drawn twice | one order per suggestion, one active suggestion per product, decisions stay | P |
| POS (`posService`) | `sales`, returns, `stocks`, `movements`, gift card and discount usage in settings | complete sale, process return, receipt | stock, mobile orders, settings | check before decrement, many writes, sale stored last | stock sold at most once, returns bounded by what was sold | P |
| Stock (`stockService`, `stockRepository`) | `stocks`, `stock_batches`, `movements` | movement, transfer, cancel, dispose expired | POS, warehouse, sections | read-then-write quantities; batches and row written apart | quantities equal the sum of the movements, batches within the row, a cancellation takes back | P |
| Warehouse (`warehouseService`) | locations, warehouse movements | receipts, transfers, counts | procurement, stock | location and stock written one after the other, whole rows from an old reading, part of a pallet left on a free location | the locations of a product add up to its depot quantity | M |
| Access requests and temporary grants (`accessRequestService`, `grantService`, `permissionService`, `grantExpiryJob`) | `access_requests`, `temporary_permission_grants` | request, approve, reject, extend, revoke, expire | auth, user service | stale whole-row writes by approve, extend and the expiry job | permission only while approved, unexpired and unrevoked | M |
| Sections and transfer requests (`sectionService`, `transferRequestAutomationJob`) | sections, `transfer_requests`, audits | create, status update, bulk, automation scan | stock | concurrent status updates, stock moved before the row is written | completed requests have moved their stock, once; closed ones stay closed | P |
| Price actions (`analysis/pricingAnalysisService`, `temporaryPriceActionJob`) | `temporary_price_actions`, product prices | change, apply, skip, expire, rollback | products, ESL | rows read outside the transaction that writes them | log and price agree, a temporary price ends, and once | P |
| Daily closing (`dailyClosingService`, `dailyClosingJob`) | `daily_store_closings` | close day, ensure recent | sales | job, backfill and manual closing race; late sales; timers | no closing loses sales, every day closes | P |
| ESL labels (`eslService`, firmware) | `esl_devices`, pending assignments | assign, send, clear, heartbeat, bridge sync, poll, confirm | products, bridge, devices over HTTP/BLE | whole-row writes at two backends; confirmations of an older assignment; lost answers | shown as up to date means drawn; the label follows production | P |
| Customers (`customerService`, `customerAuthService`) | customers, carts, password-reset tokens | register, cart, place order, gift cards, reset password | mobile orders, POS | whole-row writes; token used twice | cart and gift cards not lost, a token works once | P (cart, inside MobileOrder) |
| Proximity (`proximityService`, `proximity/notificationRuleEngine`) | events, notification log | ingest event, evaluate rules | customers, notifications | cool-downs under concurrent events | at most one notification per cool-down | - |
| Notifications, tasks, support | notifications, tasks, tickets | create, update, read, archive | all | duplicate suppression by read-then-create | no duplicate active notification | - |
| Expired batches (`expiredBatchNotificationService`, job) | notifications, batches | scan, notify | stock | rescans | one notification per batch and day | - |
| Catalog import (`catalogImportService`) | `catalog_imports`, `supplier_catalog_versions`, `supplier_products` | preview, edit and decide on rows, commit, activate a version | supplier products, purchasing | imports, versions and links written one after the other from one reading; decisions after a commit | one version active, its links in effect, an import committed once | P |
| Products, categories, suppliers, layouts | products, categories, suppliers, layouts | CRUD | stock, ESL | edits that write what they read (price: `TemporaryPrices`) | - | - |
| License, SSO, exports (`ssoProvisioningService`, `licenseService`, `licenseControlExportService`, `exportCleanupJob`) | tenants, licences, set-up tokens, export jobs | provision, exchange code, export, clean up | control server | replay and retry | a code or token works once | - |
| Settings, campaigns, gift cards (`settingsService`, `campaign*`) | settings documents | read, update | POS | read-modify-write of one document | usage counters not lost | P (gift card, inside PosStock) |
| Auth, users, permissions, middlewares | users, login activity | log in, CRUD, check permission | all | mostly stateless per request | - | - |
| Reports, analysis, forecasts, maps | none of their own | read-only computations | all | none | - | - |
| Repositories (`postgresRepository`) | - | row access | all | read-then-write | a writer loses nothing it did not change | P (as the steps of every handler) |
| Frontend | UI state | screens | backend API | - | - | - |

## 3. Hazards and the properties that watch them

`PROJECT.json` lists each hazard at its line. In short:

* **Stale whole-row writes.** A hand-off writes a status chosen from an old
  reading (`ReopenedOnlyByStaleCall`), the order scheduler an order it read
  before a cancellation (`CancelledIsFinal`), an administrator a decided request
  (`DecidedOnceUnlessRaced`), the expiry job a grant that was prolonged meanwhile
  (`AccessEndsOnPurpose`, `RevocationHolds`), a till a stock row that another till
  changed (`BooksBalance`), everyone the one settings document (`UsesAreSales`),
  generation a suggestion that was decided (`SuggestionsStayDecided`), a heartbeat
  a device whose assignment changed (`AssignmentChangedOnPurpose`), a product edit
  or the price job a price set in between (`PriceFollowsLog`, `EndsOnce`), a
  movement a location of the depot (`DepotMatchesLocations`), a decision an import
  that has been committed since (`CatalogueInEffect`).
* **Check, then act.** Two tills and the last piece (`BooksBalance`), two returns
  of one receipt (`ReturnsWithinSaleUnlessRaced`), two requests for one
  permission (`GrantsFollowDecisions`), two employees at one transfer request
  (`TransfersMatch`, `TransfersStayClosed`), two orders from one suggestion
  (`SuggestionsMatchOrders`), two cancellations of one movement (`MovementsAddUp`).
* **Several writes, one of which fails or never happens.** Lines booked in
  warehouse and stock before the order is stored (`StockAppliedOnce`,
  `BookedMeansStocked`, `ImplementsStockEntry`), stock and movements before the
  sale (`DocumentsBooked`, `StockFollowsDocuments`), an approval before its
  grant (`GrantsFollowDecisions`), item rows deleted and re-created
  (`FullMeansReturned`), a stock row before its batches and its movement (`BatchesWithinRow`,
  `MovementsAddUp`), a clean-up retried three times
  (`CleanedMeansTaken`, `NothingWaits`), a location before its stock
  (`DepotMatchesLocations`), the versions of a catalogue, its links and the import
  (`CatalogueInEffect`).
* **Order of events.** A confirmation after a newer assignment
  (`ConfirmedMeansDrawn`), the bridge's look before a write that undoes what it
  saw (`KnownMeansInstalledUnlessRaced`, `LabelFollows`), a closing stored over one
  that counted more, a sale stored after its day was closed (`ClosingsOrderly`).
* **Sequences of legal calls.** Hand-off, then sale (`LaterItemsIntact`);
  two sales that draw one number (`StockFollowsDocuments`); a rollback that revives
  a temporary price whose end is past (`TemporaryPriceEnds`); a cancelled first
  receipt whose batches stay (`BatchesWithinRow`); the cancellation of a movement
  of a product without batches (`CancelRestores`, `CancelRestoresCovered`), or of one
  after which a sale came that began before it (`CancelRestoresCovered`); part of
  a pallet taken and another received (`DepotMatchesLocations`); an earlier
  catalogue activated again, which keeps the prices (`CatalogueInEffect`).
* **Progress.** The lock of an order (`LockIsReleased`), the automatic stretch
  (`LeavesAutomaticStretch`), the clean-up after a sale, grants and temporary
  prices that are over, days without closing (`NothingWaits`), a scan that one
  row ends (`ScanClosesWhatIsDue`), the label (`LabelFollows`).

Where the code may lose an update, the property names the exception in its
formula, recorded by a history variable (`strayed`, `raced`, `lost`, `torn`,
`stale`, `mixed`, `drift`, ...), and says that nothing *else* goes wrong:
`ReturnsWithinSaleUnlessRaced` counts what the returns of a receipt put back into stock,
whether or not they were stored, and states that it exceeds the sale only by what
returns left unrecorded, or when two of them ran at the same time. Section 8 lists what these
exceptions stand for.

## 4. Plan

Order of work, most important behaviour first. Items 1 to 12 are done, with their proofs.

1. `MobileOrder`: cart, order, till; two writers of one cart. Proofs: types,
   clean-up invariant, history, reopening.
2. `PurchaseOrder` with the abstract `StockEntry`: lock, scheduler, booking,
   restarts. Refinement checked by TLC and proved.
3. `PosStock`: sales, returns, transfers, gift card. Proofs: types, documents
   are booked, stock and movements balance, uses of the card, returns and marks.
4. `AccessGrants`: requests, grants, expiry job. Proofs: types, requests and
   grants agree, decisions stay, revocations hold, access ends on purpose.
5. `StockMovements`: goods in and out, adjustment, batches, cancellation. Proofs:
   types, batches within the row, movements explain the row, cancelling.
6. `TransferRequests`. Proofs: types, completed requests, closed requests.
7. `PurchaseSuggestions`. Proofs: types, one order, one active suggestion, decisions.
8. `TemporaryPrices`. Proofs: the log tells the price, temporary prices end, once.
9. `EslLabels`: two backends, bridge and label. Proofs: types, confirmed labels are
   drawn, what the bridge knows is installed, assignments change on purpose.
10. `DailyClosing`. Proofs: types, closings are orderly.
11. `WarehouseLocations`: locations of the depot and the stock. Proofs: types, the
    locations add up to the depot.
12. `CatalogVersions`: imports, versions and links of a supplier's catalogue. Proof:
    one version per import, one active version, its links in effect.
13. Left: token flows (SSO set-up, password reset), export jobs, orders placed
    without a till, the proximity rules with their cool-downs.
14. No safety property of a run is left unproved; a new one gets its theorem in the
    module of its composition.

Each component is one module parameterised by constants. Modules named `MC*`
instantiate one or several components; the `.cfg` files of its runs belong to
them, and theorems are in `_proofs` modules. Operators whose names extend the name
of the operator below them (`WithinSaleWhileLeft`, `MayStartAlways`, ...) are
plausible wrong versions of it; they are used by no specification and document
which change of the code each property would notice (`mutants` in
`PROJECT.json`).

## 5. The modules

### 5.1 MobileOrder

| variable | code |
|---|---|
| `order`, `items` | rows of `mobile_orders` (status and the payload flags) and `mobile_order_items` |
| `timedOut` | `expiresAt` has passed |
| `locked` | rows held by `SELECT ... FOR UPDATE` of the hand-off transaction |
| `cart` | `customer.activeCart`, a JSON column of the customer row |
| `history` | status of the `customer_orders` row of the order |
| `call` | requests: what each has read (`row`, `cart`) and its clean-up attempt |

`CreateRead/CreateInsert` are `createFromCustomerCart`; `HandoffRead`,
`HandoffStatus`, `HandoffBegin`, `HandoffCommit` the four parts of
`confirmCustomerHandoff` (read, status update outside the transaction, row lock,
commit); `LookupRead`, `PullRead`, `PullWrite`, `PullReject` the two till
operations; `CompleteRead`, `CompleteMark`, `CleanRead`, `CleanWrite`,
`CleanFail`, `CompleteFinish`, `CompleteHistory` are `completeFromPos` with
`retryCartCleanup`; `Expire` is the update a late request makes before it fails.
`EditCart`, `CustomerRead`, `CustomerWrite` are the customer service as the
other writer of the row. `Crash` ends all requests and rolls open transactions
back.

`ReopenedOnlyByStaleCall` names the request: the step that takes an order out of
"completed" is one of a request that is at work on this order (`Acts`), and this
request had read another status, or it is a late one that marks a timed-out order
expired. A free slot excuses nothing.

### 5.2 StockEntry and PurchaseOrder

`StockEntry` says in fifty lines what a goods receipt promises: five phases of
an order, a set of stocked lines, and that an entry is declared complete only
with all lines stocked. `PurchaseOrder` implements it:
`PhaseOf(row[o])` and `moved` are the refinement mapping, `ImplementsStockEntry`
the property. `StockEntry` allows `Revive` (a cancelled order written back) and
stocking of a returned order, since the code does both; `CancelledIsFinal` is the
stricter contract, and the run `PurchaseOrderRevived` shows it violated.

| variable | code |
|---|---|
| `row` | `purchase_orders` row: status, received, booked, entry mode |
| `roll`, `due` | the deterministic timeline of the order and how far its planned times have passed |
| `queue` | `withOrderUpdateLock`: the promise chain per order |
| `call` | status requests, with the row read under the lock and the line being booked |
| `scan` | a tick of the scheduler: the orders of its `getAll` and those still to do |
| `warehouse`, `moved`, `applied` | warehouse movement, stock movement and stock addition per line |
| `torn` | history: additions whose record a retry will not find |

`Request`, `Start`, the booking steps `Find`, `Receive`, `ReceiveLog`,
`ReceiveRefused`, `ReceiveFail`, `Check`, `Apply`, `Log`, and `Store` are
`updateOrderStatus` and `bookPurchaseOrderStockEntry`; `ScanStart`, `ScanOrder`,
`ScanFail` the scheduler; `Tick` the passing of a planned time; `Abort`, `Crash`
errors and restarts. `Contract` is the table of
`domain/purchaseOrderLifecycle.js`.

### 5.3 PosStock

| variable | code |
|---|---|
| `stock` | `stocks` rows, depot and shelf quantity |
| `doc` | `sales` rows: sales and returns, with `items` the lines that have a `sale_items` row and `coverage` the `returnStatus` |
| `booked`, `net` | the movements: products per reference, and their sum per product |
| `used` | `usedCount` of a gift card in the settings document |
| `call` | requests with their lines, the stock row read, the use and the coverage computed |

A sale is `SaleRequest`, `CheckLine` per line, `CheckCard`, then per line
`ReadStock`, `WriteStock`, `LogStock`, then `StoreDoc`, `StoreItem` per line,
`ReadCard`, `WriteCard`. A return is admitted by `ReturnRequest`, books like a
sale, and marks its receipt by `MarkRead`, `MarkWrite`, `MarkDelete`, `MarkItem`:
`updateById` of a row with nested rows reads it, updates it, deletes the nested
rows and creates them one by one. A reader meanwhile sees the rows that are
there (`Read`); what counts against a new return are the item rows of earlier ones
(`Returned`, and `Exhausted` for the products that the sale shows). History: `back` is
what the returns of a sale have put into the stock rows, from the write of the row on
and whether or not the return is ever stored; `lost` is the part of it that a return
which stopped, or whose number was taken, left without an item row (`Broken`,
`Unrecorded`): no later return knows of it, so it can be made again. Reference numbers are drawn from 900 a day: `Numbers` lets a
request draw one that a document or a running request of its kind has, and
`StoreDoc` is then refused by the unique index. `TransferRequest` is
`transferStock`; `SettingsRequest` any other writer of the settings document.

Products have no batches, `returnWarehouse` is the shelf, and the call of the
mobile order module at the end of a sale is the subject of `MobileOrder`.

### 5.4 AccessGrants

| variable | code |
|---|---|
| `request`, `grant` | `access_requests` and `temporary_permission_grants` of one permission and store |
| `enabled` | `users.isActive` |
| `clock` | the time grants are compared with |
| `call` | handlers and runs of the expiry job, with the rows they read |
| `granted`, `lost`, `raced` | history: approvals that stored a grant, that stopped before, users with a row written from an outdated reading |

`CreateRequest`, `InsertRequest` are `createRequest`; `Review` and `Decide`
`approveRequest` and `rejectRequest`; `ReadGrantsApprove`, `InsertGrant`,
`UpdateGrant` `createGrant`; `ExtendRequest`, `ReadGrantsExtend`, `UpdateGrant`
`extendRequestDuration`; `RevokeGrant`, `UpdateGrant` `revokeGrant`; `ScanBegin`,
`ScanUsers`, `ScanExpire`, `ScanRevoke` `expireTemporaryGrants`, of which several
runs may overlap as the timer does not wait for the last one. `ScanRevoke` ends
the scan: `revokedBy: 'system'` violates a foreign key.
`bulkAction` calls approve or reject in a loop and needs no action of its own.

### 5.5 StockMovements

One product with a row of quantities per location and rows of batches.

| variable | code |
|---|---|
| `stock`, `batch` | the `stocks` row and its `stock_batches` rows, by id |
| `log` | `stock_movements` in the order they were created: effect, `createdAt`, `previousBatches`, which movement it cancels |
| `call` | handlers: the row and batches they are going to write, the batches still to create, and the movement |
| `clock` | the time, counted by what it dates |
| `opening`, `missed`, `drift` | history: the first quantity, what handlers that stopped wrote and never logged, and what happened that loosens the books |

Every write is an action of its own. A handler reads in its first step: `GoodsIn`,
`GoodsOut`, `Adjust` are `createMovement` by type (a receipt with a batch number is
a `GoodsIn`), `TransferStock` `transferStock`, `CancelMovement` `cancelMovement`,
`UpsertBatch` `upsertBatch`, `Till` a sale or return of `PosStock` up to its line, and
`TillRow` the reading of its row. `upsert` then reads the row again; a handler that
gives it no batches (the till, a product without batches) writes back the ones it finds
there (`Fetch`). `WriteRow` is `stock.update`, `DeleteBatches` and `CreateBatch`
`syncStockBatches`, which deletes all rows and creates those given one after the
other, and does neither when there is nothing to write; `LogMovement` is
`movementRepo.create`, `MarkCancelled` the mark on a cancelled movement. `Stop` ends a
handler between any two of these, by an error or a restart; it also is the refusal
of a batch whose id another handler has created meanwhile (`Collides`).
`DisposeBatch` is one transaction of `disposeExpiredBatches`.

`at` is `createdAt`: a movement is dated when its handler comes to it, a cancellation
when it starts to write, a sale when it begins, which may be long before its
movement. `IsLatest` compares these dates, as `cancelMovement` does, not the order in
which the movements were created; cancelling past a movement that was created later but
dated before is recorded (`backdated`).

A handler is `old` once another has written between its reading and its own write, or
was half-way through the batches when it read. A write or log entry by an old handler,
like a cancellation that overlaps another write or a till's row that would become
negative, is recorded as `raced`. The other flags: `loose`, the row of a product with
batches was written without new batches (the till, a stop right after the row);
`kept`, batches were to be emptied and stayed; `uncovered`, the row was set to the sum of
batches that did not make it up; `edited`, a batch edit changed the row; `unmarked`, a
cancellation stopped before its mark. Each property names the flags it needs and no
others: `BatchesWithinRow` holds although handlers stop half-way through the batches,
`LogExplainsRow` although they stop before the log.

### 5.6 TransferRequests

| variable | code |
|---|---|
| `request` | `transfer_requests`: status, and whether the row names a stock transfer |
| `depot`, `shelf` | the stock of the product; `transferStock` is one step here |
| `call` | a request or a bulk: rows read at its start, requests still to serve |
| `moved`, `raced`, `torn` | history: transfers per request, and the two ways to lose count |

`UpdateStatus` is `updateTransferRequestStatus`, `BulkUpdate` with `BulkItem`
`bulkUpdateTransferRequests`, which uses one reading for all its rows;
`TransferStock` and `PutRequest` are what both do then. `Allowed` is
`canTransitionTransferStatus`. The automation scan creates no request in the
present code: it calls `resolveTransferTargetDescriptor`
(`sectionService.js:990`), which is not defined, as soon as a product is due.

### 5.7 PurchaseSuggestions

`row` are the suggestions of one product, `orders` the purchase orders by number
with the suggestion each came from. `Generate`, `Persist`, `ExpireDuplicate` are
`generateSuggestions` and `persistGeneratedSuggestion`; `Update`, `WriteUpdate`
`updateSuggestion`; `Reject`, `WriteReject` `rejectSuggestion`; `Approve`,
`Recheck`, `DrawNumber`, `CreateOrder` `approveSuggestionPostgres`; `Compose`
`createOrderFromSupplierProductPostgres`, which joins it after its one check.
`CreateOrder` is one transaction, refused by the unique order number. Which of the
three active statuses a generated suggestion gets depends on sales and stock and
is left open. `stale` and `crowded` record writes of an outdated reading and
generations that overlap.

### 5.8 EslLabels

| variable | code |
|---|---|
| `row` | the device row at each backend, production and store |
| `price` | prices in production; the store keeps a catalogue of its own |
| `call` | handlers at either backend, with the whole row they are going to write |
| `bridge` | `eslBridgeAgent.js`: its round and the hash it takes for done |
| `label` | the firmware: its loop, the last answer, the picture on the display |
| `asks`, `drawn`, `stale`, `local` | history |

An assignment hash is modelled by what is hashed. `SendToDevice` covers sending
and clearing, `Touch` the four operations that write other columns of the row,
`ReadAssignment`, `SendSync`, `Reread`, `Check` the bridge's round with its two
verifications (`BridgeAfter`), `Poll`, `LabelAfter`, `Confirm` the label. `Lose`
loses or delays an answer; `Restart` restarts the bridge or the label, which keep
what they know in memory.

### 5.9 TemporaryPrices

`price` is the sale price of one product, `log` its price events; an event of kind
"temporary" carries its action. `ReadChange`/`WriteChange` are the bulk update and
the approval of a recommendation, `ReadEdit`/`WriteEdit`/`LogEdit` the edit of a
product, `ReadApply`/`WriteApply`/`RefuseApply` `applyTemporaryPriceAction`,
`ReadExpire`/`WriteExpire` the job, `ReadRollback`/`WriteRollback` the rollback.
Reading is outside the transaction that writes, in the code and in the model.
`mixed` and `revived` are the history of overlapping handlers and of rollbacks
that restore a temporary price after its end.

### 5.10 DailyClosing

`open` and `sold` count the sales of each day that are under way and stored,
`closing` what its row says, `due` and `running` are the job's timer and flag.
`LookPrevious`, `LookRecent`, `ReadSales`, `SaveClosing`, `Schedule` are
`runDailyClosingJob` with `closePreviousBusinessDate`, `ensureRecentClosings`,
`closeBusinessDate` and `scheduleNextRun`; the backfill at start-up and a closing by
hand use the same steps. `Midnight` is the clock; `TimerEarly` a timer that fires
before it (clocks that are set, days of 25 hours).

### 5.11 WarehouseLocations

| variable | code |
|---|---|
| `place` | `warehouse_locations`: whether a pallet counts, of which product, how much |
| `depot` | `warehouseQuantity` of the `stocks` rows |
| `recorded` | `warehouse_movements` rows |
| `call` | handlers: the location read and the row to be written, the stock change and the stock read |
| `elsewhere`, `strayed` | history: what other services did to the depot, products whose books may differ |

`Receive`, `Take` and `Count` are `createMovement` up to its checks for the six
types of movement, `PutLocation`, `ReadStock`, `WriteStock`, `RecordMovement` its
database calls after them, `UpdateLocation` the actions clear, reserve and block
of `updateLocation`. `ChangeElsewhere` stands for `stockService`, which changes the
depot quantity without the locations. Storage types, layouts and the expiry of a
pallet are left out.

### 5.12 CatalogVersions

| variable | code |
|---|---|
| `import` | `catalog_imports` of one supplier: status, the products its rows would apply, the decision on a row about a new product |
| `version` | `supplier_catalog_versions`: import, active, the links of `supplierProductSnapshot` |
| `link` | `supplier_products`: product, active, the import its price is from |
| `Inactive` (constant) | per import, the products whose row of the file says that they are not active |
| `call` | handlers with the rows they read, and their own writes on top |
| `astray`, `mixed`, `touched`, `back` | history: versions, imports and links that were written from an outdated reading or by a handler that stopped; versions activated again |

A commit is `CommitImport`, `ReadCatalog`, `ApplyLine` per row, `ArchiveVersion` per
version that was active, `CreateVersion`, `FinalizeImport`; an activation is
`ActivateVersion`, `SwitchVersion` per version, `SwitchLink` per link, `Activated`.
`UpdateImportRow`/`PutRow` edit an import, `Decide`, `MatchLink`, `PutDecision`,
`ReadVersions`, `RewriteVersion` are the decisions of the approval queue with
`persistApprovalImportRow`, which write the import and its versions whole also
after a commit. `EditLink` is `updateSupplierProduct`. Rows that would block or be
skipped by a commit are not in `lines`. A row that the file lists as not active
(`normalizeImportRow`) switches its link off (`LinkBy`) and still puts it into the
version: after the commit the product cannot be ordered, after the version was
activated again it can, since `activateVersion` switches every link of the version
on. `ActiveInEffect` says both. Draft products, links deleted by hand and
their re-creation by an activation are left out.

### 5.13 Instances that hold several components

`MCWarehouse`, `MCStore`, `MCTillCatalog` and `MCProgress` instantiate several components in one
module. `part` says which component runs in a behaviour and never changes; the
variables of the others keep their values (0 where the module has an instance of
its own). The components do not meet in the code on anything these models hold
apart: where one disturbs another, the disturbance is in the module itself (`Till`
in `StockMovements`, `CustomerWrite` in `MobileOrder`, `SettingsRequest` in
`PosStock`, `ChangePrice` in `EslLabels`, `StoreSale` in `DailyClosing`). The
reachable states are therefore the union of those of the components, and a
property of one is guarded by `part`.

## 6. Runs, bounds, and why they are enough

Every cfg states its bounds. `CHECK_DEADLOCK FALSE` is set since a behaviour may
end because all requests the bound admits were served.

| run | instance | shows |
|---|---|---|
| `Warehouse` | `MobileOrder`: 1 order, 1 product up to 2, 2 requests at a time, 4 in all, 3 failing writes, crashes. `StockMovements`: 2 batches, one expired, quantities of 1, 3 movements, batch edits or disposals, 2 handlers, 1 stop. `TransferRequests`: 2 requests, depot of 2, 2 handlers, 4 in all, 1 stop. `PurchaseSuggestions`: 2 rows, 2 handlers, 6 requests, 1 failure. `WarehouseLocations`: 2 locations, 2 products, quantities up to 2, 2 handlers, 3 handlers and changes elsewhere, 1 stop | thirteen properties hold |
| `MobileOrderLaterItems` | 1 request at a time | violated: the sale cleans again after the hand-off |
| `PurchaseOrder` | 1 order of 2 lines, 2 requests at a time, 6 in all, 2 tick slots, 1 error, crashes | types, `StockAppliedOnce`, `BookedMeansStocked`, `ImplementsStockEntry` hold |
| `PurchaseOrderLive` | 1 line, 3 requests, 1 error, no crash | `LeavesAutomaticStretch`, `LockIsReleased` hold |
| `PurchaseOrderRevived` | 1 request, 1 tick | violated: a cancelled order is written back |
| `PosStock` | `PosStock`: 1 product, quantities up to 2, all kinds of request, 2 at a time, 3 in all, 1 stop. `CatalogVersions`: 2 products, one of which every file lists as not active, 2 imports, 2 handlers, 3 handlers and edits in all, 1 stop | `BooksBalance`, `ReturnsWithinSaleUnlessRaced`, `UsesAreSales`, `CatalogueInEffect` hold |
| `Store` | `PosStock`: 2 products, sales and returns, 2 at a time, 3 in all. `EslLabels`: 1 product, 2 handlers, 2 events, 1 row written from an old reading. `TemporaryPrices`: 2 prices, 2 handlers, 3 events in the log, 1 failure. `DailyClosing`: 2 days, 1 sale a day, 2 closings by hand, early timers or restarts, 1 error | ten properties hold |
| `PosStockNumber` | 1 request at a time, 2 sales | violated: the second draws the number of the first |
| `AccessGrants` | 1 user, 2 requests, 3 grants, clock 0-2, durations 1-2, 2 handlers or scans at a time, 5 handlers in all, 1 stop, 1 toggle | five properties hold |
| `AccessGrantsDisabled` | 2 users, 1 handler at a time | violated: one row ends every scan |
| `CancelRestores` | `StockMovements` with 1 handler at a time, which never stops | violated: a product without batches loses its stock |
| `Progress` | `MobileOrder` without failures and crashes, `AccessGrants` with 1 request and 2 grants, `EslLabels` with 1 handler at a time, `TemporaryPrices` with 2 handlers and 1 failure, `DailyClosing` with 3 days, 1 event, 1 error | `NothingWaits` and `LabelFollows` hold |

Why this is enough. Two requests at a time give every race between a reading and
a write, since a handler only compares its reading with one later state; the
conflicts in the code involve one row and two writers. Orders, products, devices and
users do not interact with each other except through rows that are modelled as
shared (the cart, the settings document, the scan of all grants), so one of each
suffices, and two where lines (`Store`, `PurchaseOrder`), a bulk over several
requests, duplicates, pallets of different products (`Warehouse`), versions and
links of a catalogue (`PosStock`) or a scan over several users
(`AccessGrantsDisabled`) matter. The number of requests admits the longest sequences
that change what a later one does: create, hand-off, pull, complete; submit,
approve, receive in two modes, complete, cancel; sale and two returns; ask, approve,
prolong, revoke, ask again; receive a pallet, take part of it, receive on the
rest; preview, commit, commit again or activate; goods in, cancel, goods out from
batches that stayed; approve, start, complete, archive a transfer; a temporary price, a change, the end
of the former and the rollback of the latter. Failures are bounded by the three
attempts of the clean-up, by one error or stop elsewhere: a second one finds the
same states as the first. `Operations` limits in the `PosStock` runs the kinds of
request to those the question is about. Initial stock is chosen freely up to the
bound of the cfg; where the depot starts empty it is filled by transfers.

The movements of the `Warehouse` run start with an empty row (`MaxOpening` is 0): it is
filled by goods in, with a batch or without, and by returns at the till, which give the
same rows as an opening quantity; `CancelRestores` opens with up to 1. `Orderly` in
`MCWarehouse` admits no new request once a handler is old (but for a sale that has not
yet read its row) or `raced` is recorded; the
handlers under way go on to their end, in every order, and may stop. What is cut off
are requests that come after a handler was overtaken. The properties of this part say
nothing once it has written or logged after that (`raced`), and the theorems of section 7, which are about the
module without this bound as well (`StockMovements_proofs`), do not need it. One stop
is enough for every pair of a broken handler and one that builds on what it left. Model
values that stand for requests, suggestions, locations and products are shared between the
components, which never run in the same behaviour.

Every action of every module happens in some run, apart from two alternatives
inside an action: a job of `DailyClosing` that is refused because another still
runs (its timer is set only after it) and the 404 of `Reread` in `EslLabels`, for a
device deleted between the two readings of one bridge call while only one more
event is left.

**Fairness.** Safety runs assume none. In the `FairSpec` of each module awaited
database calls return, that is, the next step of a started handler is weakly
fair; requests, customer edits, time-outs, errors and restarts are never forced.
`PurchaseOrder` adds that `setInterval` keeps starting ticks, that a tick proceeds,
and that planned times pass; `AccessGrants` the timer (`ScanBegin`); `DailyClosing`
that a timer that is set fires, not that days pass. `setInterval` in one process and
awaited calls that settle justify exactly this; a process that is never restarted
is a separate assumption, stated by the constants where it is needed. Strong
fairness appears where the model lets several actors share the few slots of
`Calls`, which the server does not: the rounds of bridge and label, which are
repeated by their own timers, and the start of the price job find a slot free
infinitely often, and take one in the end. `MCProgress` merges the conditions of
the five components: as one of them runs in a behaviour, a condition on a
disjunction over components is the condition of that component. It excludes disabled
users since a scan that meets one never gets past it (`AccessGrantsDisabled`), and
`EslLabels` with two handlers at once, where the label may stay behind
(section 8). `NothingWaits` excepts days on which the timer could not be set.

## 7. Proofs

All theorems hold for every value of the constants that the named assumptions
admit: `MobileOrderAssumption`, `PosStockAssumption`, `PurchaseOrderAssumption`,
`AccessGrantsAssumption`, `WarehouseAssumption`, `StoreAssumption`,
`LabelAssumption` and `CatalogAssumption` (bounds are naturals; the sets of requests, products, users,
grants, handlers, batches and locations that are counted or summed over are finite,
at least one order; `None` and `NoHash` are outside the sets whose members they
stand in for). `StockMovements_proofs` states its own as `Given`, and
`Warehouse_proofs` shows that `WarehouseAssumption` gives them.
So they cover any number of orders, lines, handlers and restarts, where a run has
one or two. None of the safety properties is inductive; what each invariant adds
is the argument why the code is right.

The modules follow the runs: `Warehouse_proofs` EXTENDS `MCWarehouse` and proves, part by
part, an invariant of the composition (`PartsInv`) and from it each property of the
`Warehouse` run; `Store_proofs` does the same for `MCStore` with the tills, which the
`PosStock` run shares, and `TillCatalog_proofs` proves what that run checks of the
catalogue. `StockMovements_proofs` and `TemporaryPrices_proofs` are instantiated by the
compositions, and their lemmas cited through the instance.

* `Sums_proofs`. `SumFunction` of the community modules is a fold over a CHOOSE, and no
  induction theorem can be instantiated here, so its recursion is solved by hand: a
  smallest subset for which a fact fails exists by well-foundedness of the strict
  subsets of a finite set (`SmallestSubset`), and removing an element gives a smaller
  one. From it: sums exist and are integers, a sum changes by what one entry changes
  (`SumUpdate`), grows by a new entry, and is monotone. Every proof below that adds up over
  documents, batches, movements, locations or handlers cites these.

* `Warehouse_proofs!TypeCorrect`. `TypeOK` (in `WarehouseTypes`) is inductive by
  itself.
* `Warehouse_proofs!CleanupSafe`: `HandoffCleansOnce`, `CleanedMeansTaken` and
  `HistoryNotDangling`, with the last two also as `CleanedSafe` and `HistorySafe`.
  `IInv` adds that a handler in the locked part is alone on its order and has the
  row it read (`Exclusive`), what each stage of a handler has already done
  (`CallInv`), the balance of hand-off clean-ups, marks and the flag (`CountInv`),
  and that an order that does not exist has no history (`Blank`). The row lock is
  what makes `CountInv` inductive.
* `Warehouse_proofs!ReopenSafe`, an action property, from the same invariant: each step that
  writes an order is followed to the one request that takes it.
* `PurchaseOrder_proofs`. `IInv` has three parts. `OrderInv`: a request that is
  inside is the head of the queue of its order (`Lock`); every stored row has one
  of the shapes the contract and the booking produce (`RowShape`); what a request
  has read under the lock is still the row, unless a tick wrote over an order that
  was still in its automatic stretch, and then nothing is received (`Reads`); the
  orders a tick has yet to progress are in that stretch, and only one tick runs
  (`Scans`). `BookingFits`: what each stage of a booking has done to the lines
  before and at the one in hand. `StockFits`: a line is added to stock once, and
  once more per torn booking; never without a warehouse movement or a holder; and
  a booked row has moved all its lines.
  `TypeCorrect`, `StockSafe` (`StockAppliedOnce`) and `BookedSafe`
  (`BookedMeansStocked`) follow from it, and `Implements`
  (`ImplementsStockEntry`): initial states map to initial states, the write of a
  tick to `Close`, `Revive` or a stutter, the stock movement of a line to `Stock`,
  the final write of a request to `Receive`, `Enter`, `Close`, `Return`, `Revive`
  or a stutter, every other step to a stutter. The steps `Enter` and `Close`
  need `StockFits`: a closed order has all lines stocked.
* `Store_proofs!TypeCorrect`. `TypeOK` (in `StoreTypes`) needs `StageFits`: at a stage that
  writes stock a product is in hand, only sales and returns are stored, a stage
  that marks a receipt has one, and the use a request has read is within the
  limit. It contains that no quantity becomes negative.
* `Store_proofs!DocumentsAreBooked`. `Progress` says that a request that works
  on its lines has a movement for each line it has done, and one that stores its
  document for all of them. Movements are never taken back, so other requests,
  even one with the same number, cannot disturb this.
* `Store_proofs`, the other properties of the tills. A list (`Turn`) says what each step does to
  the one request that takes it and to the tables; every part of `TillInv` is proved from
  this list. `StockIsBooked` (`BooksBalance`) needs what each stage of a request carries
  (`Shapes`): the product and quantity in hand, and that a transfer took no more than
  it read. `UsesAreOfSales` needs `Owners` (a stored document that is being worked on has
  one request, and its contents) and `UsesSettled`: each use counted, or about to be, is
  of another sale with the card whose request is done with its document.
  `ReturnsStayWithinSale` and `MarkedFullIsReturned` need `ItemsOpen` (the items a return
  has yet to store are not in its document), `Accounted` (what the returns of a
  sale have put back is what their item rows say, what the one in progress has not yet
  stored, and what is `lost`), `ReturnsFit` (a sale whose returns come one at a time has room
  for what the one in progress will still add) and `MarksCover` (a mark that is
  about to be written is right once the items are stored).
* `Store_proofs`, the label. Hashes of production have an order, by request and then by price
  (`Before`). As long as nobody wrote from an outdated reading and the store assigned
  nothing itself (`Calm`), requests, what the store has installed, what handlers will
  install and what the bridge holds come in this order (`RequestsInOrder`,
  `InstalledInOrder`, `BridgeInOrder`); so a late handler cannot put an older
  assignment over a newer one, which is `KnownIsInstalled`. `DrawnFits`: only what
  the label has drawn is called rendered anywhere (`ConfirmedIsDrawn`). `WritersFit`: a
  handler whose reading is not outdated writes the row as it is but for its purpose
  (`AssignmentsChangeOnPurpose`).
* `Store_proofs`, the closings. `ClosingInv`: no closing counts more sales than there are, a run has
  read at least what it found closed and what was stored when it began (`HasRead`), and
  a run over the window goes through its days in order and has left, in every day it
  has passed, a closing with the sales of its start (`Behind`). `ClosingsAreOrderly`
  follows for the step that ends it.
* `AccessGrants_proofs`. `TypeCorrect` needs that rows and handlers have a user
  and that a handler's request exists (`Owned`, `Fits`). `DecidedOnce`
  (`DecidedOnceUnlessRaced`) follows from it. `GrantsFollow`
  (`GrantsFollowDecisions`) adds that a handler about to store a grant has already
  stored the approval (`StoringApproved`), that a grant recorded as stored
  exists (`GrantedExist`), and the agreement itself (`Agree`). `RevocationsHold`
  (`RevocationHolds`) and `EndsOnPurpose` (`AccessEndsOnPurpose`) compare maxima over the
  grants of a user before and after a step; `OwnInv` adds that grants keep their users
  and what a handler knows of the grant it will write (`Knows`).
* `StockMovements_proofs`. `IInv` is about handlers that write the row, the batches and the
  log in separate steps and may stop between them. `Plans`: as long as nobody wrote from
  an old reading, what a handler is going to write is the stored row and batches with its
  effect, and a cancellation's movement is still the latest. `FreshOne`: of the
  handlers that have begun to write, one at most has seen no other write since. `Halfway`:
  the batches stored are some of those the handler at them is to write, and these fit in the
  row. `Took` and `LastTook`: the batches a movement keeps make up the row without its
  effect, without what is still to be logged, and without what was missed since. `Entries`:
  a cancellation is created and dated after what it cancels. `OnceEach`: nobody cancels
  what another does, or did. The arithmetic is that taking from the batches in order takes
  what was asked or all there is (`TakenTotal`), proved from partial sums over the
  batches, and that the sums over the log and over the handlers between row and log
  change together. `BatchesStayWithinRow`, `MovementsExplainRow` and `CancelTakesBack` are
  the results; `Warehouse_proofs` states them for the run, as `BatchesStayWithinRow`,
  `MovementsExplainTheRow`, `CancelTakesBackCovered`.
* `Warehouse_proofs`, the locations. `DepotIsInItsLocations` (`DepotMatchesLocations`). `LFits` says
  that a handler between its two writes owes the stock exactly what it moved at the
  location (`delta`), which makes the sum over locations and the sum over handlers
  change together.
* `Warehouse_proofs`, transfers. `TransferTypeCorrect`, `CompletedTransfersMatch`
  (`TransfersMatch`: completed means moved, moved once unless raced or torn) and
  `ClosedTransfersStay` (`TransfersStayClosed`). `TransferIInv` adds that a handler that has moved
  the stock is closing a request that was started, and that a row that names a stock
  transfer is completed or archived.
* `Warehouse_proofs`, the suggestions. `SuggestionsAreOrderedOnce`
  (`SuggestionsMatchOrders`) and `DecidedSuggestionsStay` (`SuggestionsStayDecided`) for the
  composition; `SuggestionsTypeCorrect`, `SuggestionsOrderedOnce`, `OneSuggestionActive`
  and `SuggestionDecisionsStay` say the same of the component by itself. Every step is
  quiet or writes one row (`PEffects`). `PInv` adds that a request works on a row it read
  as pending or active (`PFits`); that what it read of the rows it may write is what they
  are, unless another request wrote them since (`PFresh`), also for the rows a generation
  has still to expire after it wrote one itself; and that a generation that runs alone
  knows of every active suggestion (`PSingle`).
* `TemporaryPrices_proofs`: `LogTellsThePrice` (`PriceFollowsLog`),
  `TemporaryPricesHaveAnEnd` (`TemporaryPriceEnds`) and `ActionsEndOnce`
  (`EndsOnce`), in `Store_proofs` as `PriceIsInTheLog`, `TemporaryPricesEnd` and
  `TemporaryPricesEndOnce` of the composition. `Effects` reduces every step to one that
  keeps the price or to a write by one handler, after which the readings of the
  others are outdated. `IInv` adds that a reading which is not outdated is the price in
  force, and an action found due still runs (`ReadsHold`); that an edit about to log
  its event is the link missing at the end of the log (`Linked`); that taking a price
  back gives the temporary price before it its value again (`Restores`); and that no
  temporary price is set on top of another (`Lasts`).

* `TillCatalog_proofs`: `CatalogueStaysInEffect` (`CatalogueInEffect`), the three
  promises of `CatalogVersions`. `CatalogInv` has five parts beside the types.
  `HandlersFit`: what a handler read is what the tables hold but for the fields that
  other handlers may change (of a version only whether it is active, of a link never its
  product), the links a commit has written are active and of its import, and an
  activation has switched the versions and links it no longer has to do. `ImportsFit`: an
  import that nobody mixed up has one commit at work, and one version at most, which is
  there before the import says committed. `OneActive`: while nobody is half-way through
  the versions, one of them is active. `OrphansOff`: a link in no version is not active,
  except for a commit that is about to store its version; without it an activation of an
  old version would leave the links of a failed commit orderable. `LinksInEffect`: every
  link of the active version is in effect, or an undisturbed activation has it on its
  list. One lemma per action says that it keeps all of them
  (`...Keeps`); `CatalogStays` is what steps that leave versions and links alone share,
  `LinkPut` and `VersionPut` what writing a link and a version does.

**Only model-checked.** Liveness and everything under fairness
(`LeavesAutomaticStretch`, `LockIsReleased`, `NothingWaits`, `LabelFollows`), and with it
every ENABLED, out of the prover's reach; and the five properties that the code violates
(section 8). Every other property of a run is a theorem.

## 8. What the violations say

1. `LaterItemsIntact`: the sale of a handed-off order subtracts its items a second
   time; what the customer has put in the cart since is lost.
2. `CancelledIsFinal`: the scheduler revives an order cancelled after its `getAll`.
3. `StockFollowsDocuments`: two sales with one number; the second is not stored
   but its stock is gone.
4. `ScanClosesWhatIsDue`: the grant of a disabled user ends every scan.
5. `CancelRestores`: cancelling a movement of a product without batches sets its
   stock to zero.

The exceptions in the properties that hold are the other places where the code
admits what its own messages exclude. They are behaviours of the models, without
a run of their own:

* two tills sell one piece, the stock is clamped at zero, and a write over another
  leaves stock and movements apart (`strayed` in `BooksBalance`);
* two returns at once return a line twice (`raced` in `ReturnsWithinSaleUnlessRaced`), or
  leave a receipt without item rows, so that a later return compares with less than was
  sold (`partial`, only in `FullMeansReturned`); a return that stops, or finds its number
  taken, after it has put goods back leaves no item row of them, and they can be
  returned a second time (`lost`);
* two sales at once pay with the last use of a gift card: `UsesAreSales` bounds the
  uses by the sales, never the sales by the uses;
* two administrators decide on one request, and the second decision overwrites the
  first (`raced` in `DecidedOnceUnlessRaced`);
* two writes of one stock row at once, a till that writes back the batches it found,
  a handler that stops after the row or half-way through the batches, batches kept
  because the list to write is empty, a row larger than its batches, batches edited
  by hand, a movement cancelled past one dated before it, a cancellation without its mark
  (`drift` with `raced`, `loose`, `kept`, `uncovered`, `edited`, `backdated`, `unmarked` in
  `StockMovements`): each loosens one of row, batches and movements from the others;
  what was written and never logged is `missed`;
* two employees complete one transfer request (`raced` in `TransferRequests`), or its
  row is not written after the stock has moved, and it is served again (`torn`);
* a suggestion is written from a reading older than a decision (`stale` in
  `PurchaseSuggestions`), and two generations at once leave two active ones
  (`crowded`);
* two changes of a price at once, or an edit whose log is missing (`mixed` in
  `TemporaryPrices`), and a rollback that restores a temporary price which has ended,
  so that nothing takes it back (`revived`);
* a row of a device written from an old reading (`stale` in `EslLabels`), and the
  store's own staff who assign beside production (`local`);
* a closing stored over one of the same day that knew more sales (`raced` in
  `DailyClosing`); a timer that skips a day, or a run that ends by an error (`mishap`),
  and a timer that could not be set, so that no day is closed until a restart (`lost`);
* locations and stock of a product part (`strayed` in `WarehouseLocations`): the rest
  of a pallet is written over by the next receipt, more is taken than is there,
  another product is counted or a location cleared without a change of its stock,
  two movements write one location or one stock row, or one ends between the two;
* two commits or activations at once, or one that ends half-way, leave two active
  versions or none (`astray` in `CatalogVersions`); an import that is decided on or
  edited while it is committed is staging again, and is committed twice (`mixed`);
  links edited by hand or by a decision are not those of the version (`touched`), and
  a version activated again has the prices of later ones (`back`);
* a completion request books an order that was cancelled in the manual entry before
  the contract refuses it (`Stock` of `StockEntry` in phase "returned").

## 9. Not modelled

The components with status **-** in section 2, with the reasons in
`PROJECT.json`. Reports, analysis, layouts, catalogue views, controllers and the
frontend keep no state that two actors contend for. Set-up codes, licences and
exports are one half of protocols whose other half, the control server, is not in
this repository. The proximity rules, notifications and password-reset tokens
(`customerAuthService.js:195`) read, compare and write single rows; what can go wrong
is a duplicate, and the steps are those of `CreateRequest` and `InsertRequest` in
`AccessGrants`.

Left out inside components that are modelled:

* throughout: audit and activity rows, notifications, mails, tenant filtering (every
  table is that of one tenant), names and other data no property distinguishes, and
  the JSON file repository (`fileRepository.js`), a development alternative to
  PostgreSQL, with the separate paths that suggestions and prices take on it;
* purchase orders: an order and its items created one after the other
  (`procurementService.js:4811`), and booking before the contract is checked
  (`procurementService.js:5358`), which is in the model but has no property of its own
  beyond the note in section 8; suppliers' prices and submission;
* permissions: the combination of role, grants and revocations
  (`permissionService.js:129`), a computation over the rows of `AccessGrants`;
* customers: orders placed without a till (`customerService.js:574`), which can be
  placed twice;
* transfer requests: the automation scan, which creates none
  (`sectionService.js:990`);
* daily closings: snapshots taken by hand, rows of their own;
* labels: pairing, schedules of a device and the contents of campaigns;
* catalogue: draft products, deletion of links by hand and links created again by an
  activation, parsing and classification of rows.
