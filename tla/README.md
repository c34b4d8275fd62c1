# FuchsPOS in TLA+

FuchsPOS is a point-of-sale system: a React/Zustand terminal (`frontend/`) and a
NestJS backend (`backend/`) over PostgreSQL, Redis and a WebSocket gateway. This
directory holds TLA+ models of it, the TLC configurations that check them on
small instances, and TLAPS proofs of the properties that matter most for
instances of any size. Paths below are relative to the repository's root.

## 1. The system

Both sides run JavaScript: one thing at a time, and nothing interleaves except at
an `await`. What is hard in this code is what happens between two awaits of one
activation while others run: several requests in the backend, several timers and
event handlers in the browser. On the server a single Prisma call is atomic,
and only `$transaction` groups several. Every model here splits a handler exactly
at those awaits that another activator can see.

| Component | State | Operations | What is hard | What makes it correct | Modules |
| --- | --- | --- | --- | --- | --- |
| Offline payment queue (`frontend/src/store/posStore.ts`, `offlineStorage.ts`) | cart and the server's copy of it, `paymentState`, `queuedPayments` in memory, the same records in IndexedDB, open transactions | pay, queue, sync, retry, remove, initialise | overlapping sync runs, lost answers, page reloads, patches that land late | what is shown as queued is persisted; nothing leaves unsold; memory and IndexedDB agree; second sales have known causes only; the queue drains | `PaymentQueue`, `PaymentLife` |
| POS cart synchronisation (`posStore.ts` `persistCart`, `pos.service.ts` `syncCart`) | cart in memory, IndexedDB, Redis | add, remove, clear, persist, restore | writes that overtake each other | after a start the till shows the cart its cashier left, as far as the server's copy, the only one that is read, has it; goods that were paid come back only for known causes | `TillBoard`, `PaymentQueue` |
| Terminal lists: preorders, cash events (`posStore.ts`) | merged lists, the tenant of the till | load, merge events | an event between request and answer, events of another tenant | the board shows its tenant's notes, and all that were made known to it | `TillBoard` |
| Tables, checks and courses (`posStore.ts`, `pos.service.ts`) | tables, checks, courses, a copy in every till | open, split, merge, serve | whole documents sent from stale copies | splitting and merging keep every item; what was served stays served | `TableDesk` |
| Realtime client and gateway (`frontend/src/realtime/`, `backend/src/realtime/`) | sockets, reconnect timer, buffers of metrics, errors and events | connect, reconnect, close, broadcast, replay | events of a replaced socket; a second socket | one live socket, and it is the client's; the page catches up with the gateway | `RealtimeLink` |
| Sale pipeline (`backend/src/pos/pos.service.ts`, `hardware/`, `mailer/`) | sale rows, latest sale, cached cart | `processPayment`, `refundPayment`, `simulatePayment`, cash adjustments | a step fails after the sale is stored; two refunds at once | a sale is signed before it is booked, refunded once, and a confirmed request has booked | `SalePipeline`, `SaleLedger` |
| Fiscalisation (`backend/src/fiscal/`) | TSS transactions, default register | start, update, finish, choice of the register | a transaction started and never finished | no sale without a finished transaction; the register last made the default signs | `SalePipeline`, `TenantConfig` |
| Cash closing (`cash-closing.service.ts`) | closings | X and Z closing | sales that commit while a closing is computed; two closings at once; the first sale; what was booked before the first day | each booking is in exactly one Z closing; their cash is what is in the drawer | `CashClosing` |
| Preorders, Wolt synchronisation (`preorders.service.ts`, `wolt.service.ts`) | preorders, delivery documents, cash events, last-sync marker | Wolt upsert, transition, sale completion, interval sync | stale Wolt data, concurrent transitions, failed fetches, overlapping passes | one document and cash event per preorder; no change at Wolt is skipped for ever | `PreorderDesk` |
| Customer orders (`orders/`) | orders and their status | create, update status | check and write apart, fan-out that stops half-way | status moves along `ORDER_TRANSITIONS`; kitchen, driver and history follow | `OrderFulfilment` |
| Delivery slots (`delivery-slots/`) | slots; usage is an aggregate over orders | reserve | check before the order is stored | a slot is overbooked for known causes only | `OrderFulfilment` |
| Kitchen and dispatch (`kitchen/`, `dispatch/`) | tasks, driver assignments | create, follow status, staff edits | tasks created while the status moves on | work matches the order's status at rest | `OrderFulfilment` |
| Order engagement and tracking (`engagement/`, `routes/order/TrackingPage.tsx`) | status events, preferences, feedback, subscriptions; the page's snapshot | record, notify, ask for feedback; toggle, register, submit | find-then-create by several requests; read-then-write-all of preferences | the history is a path of the status graph; what the customer allows is what the server goes by | `OrderFulfilment`, `OrderTracking` |
| Inventory (`inventory/`) | products, batches, count sheets, adjustments, price history | receive, count, finalise, price, import, edit | two finalisations; goods received during a count; two price changes | stock is deliveries plus adjustments, counted stock is what was counted, prices follow their history | `Inventory` |
| Tenant configuration (`tenant-config/`) | registers, TSS, modules | create, change, delete; set modules | two registers made default together | the register last made the default signs | `TenantConfig`, `ControlCenter` |
| Access control (`access-control/`) | users, roles, permissions, audit log | create, change, assign, log | a change in three writes | the audit log tells who may do what | `AccessControl` |
| Administration and inventory pages (`frontend/src/routes/`) | lists, forms, loads and saves under way | load, filter, edit, save, switch tenant | answers that overtake each other; a tenant chosen meanwhile | a page at rest shows what the server has of the tenant chosen; a form sends what it shows | `AdminPages`, `InventoryForms`, `ControlCenter` |
| Report export (`reporting/`) | export jobs, files | enqueue, claim, generate, mail | crash while processing, mail failure after success, same fingerprint | every job ends; one job per fingerprint; one worker per job | `ReportExport`, `ReportJob` |
| Reporting queries, integrations and accounting, service worker, infrastructure | rows, or nothing | reads, CRUD, formatting | - | - | none, see section 7 |

How they interact: the terminal calls the backend over REST (`POST /pos/payments`,
`PUT /pos/cart`, ...) and hears of sales, preorders and cash events over the
WebSocket; the backend's services call each other in the same process and await
each step; Wolt, fiskaly, SMTP, printers and webhooks are outside. The only state
shared by concurrent activations is the database and Redis on the server, and the
Zustand store and IndexedDB in the browser.

## 2. The plan

Each item is a component module, or several that are composed, with an MC module, its
configurations and, where an invariant is within the prover's reach, a proof module.

1. `PaymentQueue`: money may be taken twice or lost. Shown to implement `PaymentLife`. Done; all
   but liveness proved, the refinement included.
2. `OrderFulfilment`: orders, slots, kitchen, dispatch and engagement in one module,
   because the hazards are in how their steps interleave. Done; all its properties proved.
3. `BackOffice` = `PreorderDesk` + `SalePipeline` + `CashClosing`: everything that books
   money, over one database and one clock, shown to implement `SaleLedger`. Done; the
   refinement and all its invariants proved.
4. `ReportExport`, shown to implement `ReportJob`. Done; all but liveness proved.
5. `Administration` = `Inventory` + `TenantConfig` + `AccessControl`, over `Overlap`. Done;
   every property proved.
6. `FrontEnd` = the pages of the browser, each with the server behind it. Done; all its
   invariants proved.

Left: an abstract specification for customer orders and for stock; the closing of
tables once a page calls it; the checkout of customer orders once backend and front end
agree on its routes.

## 3. The modules

The models that run many requests at once share a technique. A request is a place `at` in
its handler; what a property must except is not a state but a meeting, so `met[r]` records,
as a history, which requests `r` has overlapped with. Most properties are of the form "it
holds, or two requests *of this very kind about this very row* have overlapped, or one has
failed between *these two writes*". That is the strongest one can say of code without
transactions, and it fails as soon as a third cause is introduced: every property has a
mutant that shows this.

### `PaymentQueue` - the terminal's payments

One terminal, next to the backend's `POST /pos/payments`. An action is the code
between two awaits. The correspondence:

| Model | Code |
| --- | --- |
| `cart`, `paymentState`, `initialized`, `mem` | the fields of the Zustand store; `mem[p]` is the state of the record of payment `p` in `queuedPayments` |
| `store` | the records in IndexedDB's `payments` object store |
| `txq` | the readwrite transactions on that store: the browser runs transactions with overlapping scope in the order they were opened, so a sequence |
| `call[p]` | the activation of `processPayment` of one press of a pay button, with the cart it captured |
| `run[r]` | an activation of `syncQueuedPayments` (its snapshot and its place in it) or of `retryQueuedPayment` |
| `createdAt`, `clock` | the record's time stamp, by which a run orders its snapshot |
| `sales`, `orphans` | the sales the server has committed per payment; requests whose sender no longer waits |
| `cached`, `syncs`, `named` | `pos:cart:<terminal>` in Redis; the carts `persistCart` has sent and the server has not yet stored, in no order; the payments whose request carries the `terminalId` |
| `discarded`, `cutOff`, `contended`, `ambiguous`, `raced`, `revived`, `overtaken` | history variables that name the causes which properties except |

A record is `due` or in `backoff` (both `pending` in the code; the model abstracts
`retryCount` and `nextRetryAt` to whether the time has come), `failed`, or `conflict`.
`processPayment` is `ProcessPayment`, then one of `PaymentAccepted`,
`PaymentRejected` (an error response) and `PaymentUnanswered` (a network error:
the payment is queued), then `EnqueuePayment` and `ParkPayment` when its two
transactions commit. A sync run is `SyncQueuedPayments`, one POST per record
(`CommitRun` on the server), then `SyncAccepted`, `SyncRemove`, `SyncSettled`, or one
of `SyncConflict`, `SyncServerError`, `SyncRefused`, `SyncUnanswered` followed by
`SyncMarked`. `Initialize` is the end of `initialize`, where what it loaded replaces
the state of the page; `Reload` is a reload or crash of the page.

Every change of the cart may send it to the server (`SendCart`, which the network may also
lose), where it arrives in any order (`SyncCart`). The server drops its copy as the last step of
serving a payment that names the terminal, after print and mail (`DropCachedCart` with the
answer, `ClearCachedCart` if nobody reads it); between the sale and that step the page can be
loaded anew, and `Initialize` then puts the copy into the cart again: `revived` are the payments
whose goods came back so. That is legitimate only for a payment that was rejected.

`ListQueuedPayments` returns the empty queue: that is what the code does, see the
finding under `pq_lost_queue`.

The server is `CommitCall`, `CommitRun`, `CommitOrphan`. `POST /pos/payments` carries no
key that names the payment, so the backend here never answers 409
(`DetectsDuplicates = FALSE`); with TRUE the model has the server the terminal's
conflict branch was written for.

Left out on purpose: the cart in IndexedDB (written, but never read, see section 6), the expiry
of the server's copy other than as a start that finds none, the fallback to memory in an environment without
IndexedDB, failures of IndexedDB itself, the number of a retry. `initialize` runs once per
start of the page.

### `PaymentLife` - what the queue promises

The life of a payment as the cashier is told of it: new, open, paid, refused, queued, left.
`ImplementsPaymentLife` is the refinement; `Stage` reads the stage off the phase of
`processPayment` and the copy of the queue in memory, `sold` is what the server has booked,
`doubt` the payments with a lost answer or in the hands of two runs, `dropped` those that the
operator or a start of the page has dropped. The promise is that a payment moves along its
stages only; that it is paid, or settled out of the queue, only with a sale behind it, and
leaves the queue otherwise only by being dropped; that a sale is booked for a payment
that has one, or was refused, only if it is in doubt; and that only a payment which
is open, queued or has left the queue comes into doubt after it was started. `NoSilentLoss`,
`DuplicateSaleHasCause` and `NeverRequeued` are consequences.

### `MCPaymentQueue`

Extends `PaymentQueue` with the symmetry of scans, payments and runs. `pq_reload` has one scan:
what comes back, and the two payments that share it, need no second one. Safety runs use
it, the liveness run does not.

### `PaymentQueueProofs`

The theorems of section 5.

### `OrderFulfilment` - customer orders

`POST /orders`, `PATCH /orders/:id/status`, the customer's tracking page and the staff's
edits of tasks and assignments, for the orders of one delivery slot. No two Prisma calls
of these services share a transaction, so an action is one call with the code up to the
next, and requests interleave between them.

| Model | Code |
| --- | --- |
| `status`, `tasks`, `drive`, `events` | `customerOrder.status`; `fulfillmentTask.status`; `driverAssignment.status`; the `orderStatusEvent` rows in their order |
| `preference`, `feedback` | the orders with a `customerNotificationPreference` row; those with `feedbackRequestedAt` set |
| `create[o]` | the place of the request for `o` in `createOrder`: admitted, stored, tasks, assignment, planning, preference, event, answered |
| `inserts[o]` | the task inserts `Promise.all` has sent and the database has not yet executed |
| `update[u]` | a request in `updateStatus`: its place, its order and its target status |
| `visit` | customers' requests between looking for the preference and inserting it |
| `hasty`, `early`, `crossed`, `broken`, `edited` | history: orders admitted next to an unstored one; updated before they were placed; with two updates at once; with a request that failed; edited by the staff |

`createOrder` is `ReserveCapacity`, `RefuseStock` or `StoreOrder`, a `CreateTask` per task
type, `EnsureAssignment`, `PlanPreferred` if a driver is wished for, `FindPreference`,
`InsertPreference` and `RecordCreated`. `updateStatus` is `StartUpdate` (read and look up
`ORDER_TRANSITIONS`), `WriteStatus` (which does not look again), `KitchenFollows`,
`DispatchFollows`, `RecordStatus`, `Notify`, `NotifyInserting` and `RequestFeedback`. Before and
after each of these calls a request may fail (`CreateFails`, `UpdateFails`): an exception of
Prisma, mail, push or a webhook, or the end of the process. What is done stays done, and
inserts that were sent may still be executed.

`ReserveCapacity` reads the slot and the aggregate in one step: limits of a slot never
change, so only the aggregate matters. `Usage` is that aggregate, the count being a load of 1
per order. Loads are integers: `create-order.dto.ts:28-34,69-75` asks for numbers without a least
one, so an order may make room instead of taking it.

Abstracted: the items of an order to whether one needs the kitchen, with one task per type
for all of them, since every later write sets all tasks of the order alike; stock, which
`createOrder` only reads, to a refusal at any time; at most one visitor of an order looks
for its preference at a time. Left out: the flags of the preference, which decide about
messages only, and broadcasts, which change nothing.

### `MCOrderFulfilment`

Gives the loads and the capacity and the symmetry of updates and of orders with equal loads.
`of_lifecycle` has one order; in the other runs the slot has room for the number of orders but for
the storage load of only one of 2 units, and in `of_slot` a third order has a load of -1, which
makes room for both.

### `OrderFulfilmentProofs`

The theorems of section 5.

### `ReportJob`, `ReportExport` - the queue of report exports

`ReportJob` is what the queue promises: a report is requested, worked on by one worker,
and ends ready or failed; only a failed one is requested again, a ready one turns failed
if its announcement cannot be sent, and workers may die. `ReportExport` is the code:

| Model | Code |
| --- | --- |
| `status`, `address`, `created` | the row of a fingerprint: `status`, `notificationEmail`, its place by `createdAt` |
| `request[c]` | a request in `ensureExport` between `findUnique` and its write, with the address it will write |
| `pass[p]` | an activation of `processPendingExports`: the row it is at, the rows still to come, whom it writes to |
| `told` | the addresses that have received the announcement |
| `crossed`, `late`, `unsent`, `abandoned` | history: reports two requests were about to revive at once; given an address when READY; with a mail refused; whose worker died |

`ensureExport` is `Enqueue` (the look-up) and then `CreateExport`, `ReviveExport` or
`SetAddress`; the daily schedule is `ScheduleDailyExports`, whose fingerprints are always
new. A pass is `ProcessQueue` (the list), then for each row `Claim`, `GenerateExport` or
`GenerationFails`, a mail (`MailSent`, `MailRefused`, `MailHangs`, `MailUnreachable`) and
`MarkFailed` if something was thrown. `PassFails` and `Crash` are the faults.

The refinement maps the status to the job's state and the passes that generate, mail or
are about to mark a report to its workers. `ReviveExport` writes PENDING without looking
again, so of two requests that both found the report FAILED the second may take it back
from the pass that has claimed it: two passes then generate it. For such reports
(`crossed`) `ReportJob` promises nothing.

Left out: the data of a report, its rendering, the missing-table check, which changes
nothing, and downloads, which only read. The six exports of a day are independent requests
here, while the code awaits them one by one: the model allows more.

### `MCReportExport`

Gives the reports: one that users ask for and one of the daily schedule.

### `ReportExportProofs`

The theorems of section 5.

### `PreorderDesk`, `SalePipeline`, `CashClosing`, `BackOffice` - everything that books money

Each module extends the one before it; `BackOffice` puts the steps of all of them into one
next-state relation over one database and one clock in milliseconds. Each await of a handler
is a step and may fail; a crash of the server is every request failing.

| Model | Code |
| --- | --- |
| `wolt`, `changedAt`, `cursor`, `pass` | the orders at Wolt with the time of their last change; the last-sync marker in Redis; the activations of `syncOrders` with what they have fetched |
| `preorder`, `papers` | the preorder row of an order; its pickup receipts, each written with a `PREORDER_PICKED_UP` cash event |
| `at`, `no`, `stamp`, `status`, `target` | the await a request is at; the receipt number `R-<ms>` it has drawn; `createdAt` and status of its row; the sale a refund is for |
| `tss` | the fiskaly transaction of a request: started, updated, finished, and open for ever if a later call fails |
| `completed`, `latest` | the sales with a `SALE_COMPLETED` event; `pos:latest-sale` in Redis |
| `window`, `toSum`, `counted`, `summary` | a closing: from and to and whether it is the first, the queries it waits for (they run at once), the rows it has read, what it stored |
| `DayStart` | `setHours(0, 0, 0, 0)`: the midnight before a moment, from which the first Z closing counts as long as nothing is sold |
| `met`, `unseen`, `reopened`, `drawer` | history: who has overlapped; orders a pass has missed; orders Wolt took back after pickup; the cash that went through the drawer |

`processPayment` is `BeginPayment`, `CallTss` (three calls, each of which may also be `CallLost`:
served, but the answer does not arrive), `Insert`, `ReceiptNoFree`/`CommitSale`, `PrintReceipt`,
`SendReceiptEmail`, `FindPreorder`, `SaleCompleted`, `LinkPreorder`, `ReadPreorder`,
`TransitionStatus`, `CacheLatestSale`; `refundPayment` is `BeginRefund`, `CheckOriginal`, the TSS,
`CommitRefund` (the refund's row and the status of the sale, without looking again). `syncOrders`
is `BeginPass`, `Fetch` or `FetchFails`, an `UpsertFromWolt` per order and `SaveCursor`. A closing is
`BeginClosing`, `ResolveFromDate`, `SumUp` of sales and of adjustments, `StoreClosing`.

`SaleLedger` is what the pipeline promises its callers, in five variables; `ImplementsSaleLedger` is
the refinement. `MCBackOffice` gives the instance: a behaviour has one of its casts, two or three
actors that can disturb one another.

A simulated payment is a row like any other, as in the code, and Z closings add it up. What
`pos.controller.ts:85-87` promises instead ("without actual fiscalization or persistence") is not
so; that is why `drawer` does not contain it and `ClosingsMatchDrawer` names the sum of the
simulated rows as the difference (`Simulated`).

Left out: items, tax rates and the breakdown by them, the documents that are only read again,
`syncProducts` (upserts into a table nothing reads), the `READY` branch of `transitionStatus`
(nothing calls it), the order row and status history of Wolt (written, never read).

### `Overlap`, `Inventory`, `TenantConfig`, `AccessControl`, `Administration` - the shop

`Overlap` has what the three share: the place of each request, whom it has met, `Start`, `Goto` and
`Fail`. `Administration` composes them: every request of any of them may run next to any other.

- `Inventory`: `importGoodsReceipt` (supplier, find, EAN or creation, batch, line by line),
  `createInventoryCount`, `finalizeInventoryCount` (the sheet, then for each line the item, an
  adjustment, the stock, and at the end the status), `recordPriceChange` (history, then price),
  `importProducts`, `updateProduct`. A row of the catalog is named by the request and the line that
  created it (`Articles`), so is a batch (`Goods`). `Document` is what the parser makes of a payload:
  a delivery that cannot be read has no lines. `adjusted` is the sum of the adjustments of a
  batch; `bookers`, `last`, `told` and `edited` are history. `Timely` are the price changes recorded
  between their `effectiveFrom` and `effectiveTo`: all that is kept of these dates, as the code
  writes every price at once and never takes one back; what the DTO says of the dates
  (`record-price-change.dto.ts:73-89`) therefore holds for those changes only, and
  `PriceFollowsHistory` names the others as a cause.
- `TenantConfig`: `createTss`, `createCashRegister`, `updateCashRegister`, `deleteCashRegister`, `deleteTss`,
  and which register `fiscal-management.service.ts` signs with (`SigningRegister`). The database
  gives registers an order (`age`).
- `AccessControl`: `createRole`, `updateRolePermissions` (delete, write, log), `createUser`,
  `updateUserStatus`, `assignRole`. The audit log is kept by its newest entry about a role or user.

`MCAdministration` gives casts again: two deliveries of one article, a closing next to a delivery, two
closings of one sheet, two price changes and an edit, and so on for registers and roles.

### The front end: `FrontEnd` and its pages

`FrontEnd` composes the pages, each with the server behind it. They share no state, so a behaviour plays
one scene and leaves the others as they are; a request, its service at the server and the arrival
of its answer are three steps, and a request or its answer may be lost.

- `RealtimeLink`: `realtime.gateway.ts`, `RealtimeClient.ts` and `PosRealtimeProvider.tsx`. Sockets with their
  ready states at both ends, frames on the wire, the reconnect timer, the gateway's buffers and the
  lists of the page. A link may break, which both ends come to hear of, in any order (a link that is dead
  and never closes is not in the model: nothing in the code would notice), the server may restart, the
  operator may press reconnect, the page may unmount.
- `AdminPages`: users, roles, audit log, TSS and registers, products. Loads that are not aborted,
  changes that reload, what is disabled while a change is under way.
- `InventoryForms`: goods receipts from a file (read in the background) or from pasted lines, catalog
  lines that are pasted, put right and imported, count sheets. A sheet that was opened without
  lines leaves those of the sheet before in the form, as `InventoryCounts.tsx:183-192` does.
- `ControlCenter`: `TenantControlCenter.tsx`: choosing tenants while modules are loaded or saved; a
  panel per module.
- `TillBoard`: `posStore.ts` besides payments: `initialize` in its five phases, `persistCart`, the lists of
  preorders and cash events with the events of the link, the choice of the tenant. The cart written to
  IndexedDB is not state here: `loadCart` never returns it, so the server's copy is the only one that
  comes back. `lost` is the history of why that may not be the cart the cashier left.
- `TableDesk`: tables with checks and courses at the server, and the copies of several tills. How much
  there is of an article is a sum over the places (check and line) of a table's checks.
- `OrderTracking`: `TrackingPage.tsx` and the preference, push and feedback handlers of
  `order-engagement.service.ts`. A second press of the push button while the browser still asks
  for permission is left out, and so is the page's demo mode (`?demo=1`, `TrackingPage.tsx:96,122,147`),
  which shows fixed data and asks the server for nothing.

`FrontSpec` is the specification the theorems are about. `MCFrontEnd` gives the run's scenes and how much
may happen in each.

### `FrontEndProofs`, `TableDeskProofs`, `AdministrationProofs`, `BackOfficeProofs`, `SumTheorems`

The theorems of section 5. `SumTheorems` knows nothing of the system.

## 4. The runs

| Run | Instance | Question and answer |
| --- | --- | --- |
| `pq_overlap` | 2 scans, 2 payments, 2 runs, 2 faults, no 409 | Can overlapping runs and calls make memory and IndexedDB disagree at rest (`AgreementAtRest`), or sell a payment twice without a listed cause (`DuplicateSaleHasCause`)? No. |
| `pq_reload` | 1 scan, 2 payments, 1 run, 2 faults, 1 reload, 1 cart under way, 409 | Does what is shown as queued survive (`QueueIsPersisted`), can a payment leave unsold (`NoSilentLoss`), is a cart paid twice, also one that a reload brings back, without a listed cause (`CartPaidTwiceHasCause`), and does the queue implement `PaymentLife` (`ImplementsPaymentLife`), so that nothing that has ended begins again? Yes. |
| `pq_drain` | 1 scan, 2 payments, 1 run, 2 faults | Is every pending payment eventually sold, refused or removed (`QueueDrains`)? Yes, under the fairness below. |
| `pq_duplicate` | 1 payment, 2 runs, 1 fault | Is a payment sold at most once, as the type `PaymentConflict` and the 409 branch intend? No: lost answer, queued, sent again. |
| `pq_lost_queue` | 1 payment, 1 fault, 1 reload | Are stored payments in the queue once the page is up? No: `listQueuedPayments` yields the IndexedDB request, not its result, and falls back to `[]`. |
| `of_lifecycle` | 1 order with both tasks, 2 updates at a time, 5 in all, 1 failure or edit | Do tasks, driver and history follow the status (`WorkFollowsStatus`, `HistoryIsPath`), and does the status follow `ORDER_TRANSITIONS` (`StatusStepsAreAllowed`)? Yes, but for orders whose requests met or failed, each property naming the causes it excepts. |
| `of_slot` | 2 orders and one with a negative load, 2 updates | Is a slot exceeded only by orders admitted next to an unstored one, or revived by overlapping updates, or because a negative load has left (`OverbookingHasCause`)? Yes. |
| `of_overbooked` | 2 orders | Is the capacity of a slot never exceeded (`SlotNeverOverbooked`)? No: the check reserves nothing. |
| `re_jobs` | 2 reports, 2 requests, 4 in all, 2 passes, 2 addresses, 1 fault | Does the queue implement `ReportJob` (`ImplementsReportJob`), has a report one worker (`OneWorkerPerReport`), has a READY report been announced (`ReadyIsAnnounced`), and does every report that waits end (`WaitingEnds`)? Yes, each property naming the causes it excepts. |
| `bo_books` | 13 casts of 1 to 3 actors: payments of one order, refunds of one sale, a simulated payment, adjustments, X and Z closings, a reader of the latest sale, Wolt passes | Does the pipeline implement `SaleLedger` (`ImplementsSaleLedger`), is a sale refunded twice only by overlapping refunds (`RefundedTwiceOverlapped`), has a preorder two receipts (`TwoPapersHaveCause`), is a change at Wolt missed (`MissedOrderHasCause`), is a booking in no or two Z closings (`CountedOnce`), do the closings sum up to the drawer and what was simulated (`ClosingsMatchDrawer`), is the cached latest sale an older one (`LatestSaleHasCause`) without a listed cause? No. Is every request answered (`RequestsEnd`)? Yes, but for those that wait for the mail server. |
| `ad_shop` | 18 casts of 2 or 3 requests, and what was there before | Are quantities accounted for (`StockAccounted`), is what was counted in stock (`CountedStockHasCause`), do prices follow their history (`PriceFollowsHistory`), does the register last made the default sign (`SigningRegisterHasCause`), does the audit log tell who may do what (`AuditTellsAccess`)? Yes, but for the causes each property names. |
| `fe_pages` | 10 scenes, see below | Has the client one live socket (`OneLinkHasCause`) and does the page catch up (`PageCatchesUp`)? Do pages and forms show and send what they should (`PagesHaveCause`), are tenants kept apart in the control center (`TenantsKeptApart`), does the till keep its cart, board, tables and courses (`TillHasCause`), does the server go by the customer's consent (`ConsentKept`)? Yes, but for the causes each property names. |

Bounds of the payment runs. Two payments are needed for a record behind another one and for two
payments of one cart; two runs for overlap; a third adds no new pair. Two faults let
an answer be lost for the first POST and again for the one that follows, or for two
payments; one reload lets a request, a transaction and a queue be cut off, and the
page start again with what is left. `Scans` bounds how often goods are put into the
cart: two let two payments share some goods and differ in others. The server's copy of the cart
matters only where the page is loaded anew, so carts are sent in `pq_reload` only, one at a time
(`CartsInTransit`): one that left before the payment is enough to arrive after the copy was
dropped. `FaultBudget`, `ReloadBudget` and `CartsInTransit` appear in guards; there is no state
constraint.

Bounds of the order runs. Five updates are what an order needs from `SUBMITTED` to
`DELIVERED`, so the whole life is covered, and two at a time are enough for every overlap
of a pair. One mishap at any point, a failure or an edit by the staff, shows what it leaves
behind; tasks may be set to `DONE` and drives to `EN_ROUTE`, one value that differs from what
the status wants. Orders meet only in the slot, so one is enough for its life. For the slot two compete, and 2
updates let one be cancelled by one request, confirmed by another that read before, and so
revived, next to the second order; the third order's negative load admits both and then
leaves. Five statuses for two orders with failures would be far beyond the time a run may
take. `UpdateBudget` and `MishapBudget` are in guards. `of_slot` alone has a state constraint:
`SlotOnly` leaves out the customers' visits and the preferred drivers, which change neither
admission nor status; the theorem has no such restriction.

Bounds of the report run. Four requests are the creation of a report, two that revive it at
once and one that gives it another address or a daily export; two passes are one pair
that overlaps. Two reports fill the batch of two, so that a pass has rows still to come when
another takes or fails them; that a batch is cut off at `Batch` is in the model but does not
happen at this size (for any size of a batch the theorems hold). One fault, a crash or a
failed write, may strike anywhere; failures of generation and of mails are not bounded.

Bounds of the back office. Every property is about two rows or actors, or one and a pass or a
closing, and the casts pair each kind with each it can disturb (three for a payment, its
refund and a closing or a reader). `MaxNow = 3` gives every order of three times, two rows of
one millisecond included, with a midnight in the middle (`MCDayStart`), so that an adjustment may
be booked on the day before the first closing; `MaxWolt = 2` lets Wolt change an order after a pass has fetched it.
Outside its cast an actor never begins.

Bounds of the shop. The same: a cast has the two or three requests that write the same rows,
and what was `known` before. Two lines in a delivery and in a sheet show what a failure between
lines leaves behind. Of three price changes one is for dates that are not in force.

Bounds of the front end. The link has five sockets, so that one that died, one being replaced
and one being tried exist at once with room to spare, and buffers of two; `Budgets` bounds reports, errors,
events, breaks, restarts, reconnects and the unmounting in six mixes. A page has two tenants
and up to `MaxCalls = 4` requests: a load, the load that overtakes it, a change and its
reload. The control center is chosen three times (away, back, and once more), the cart is
edited three times, two tills take three turns at tables, the customer clicks four times.
Sheets, files and pasted lines are two each.

Deadlock is checked in the payment runs: the cart can always be cleared. It is not in the
others, where the requests are finite and the system stops once all are answered.

Fairness. Only `pq_drain`, `re_jobs`, `bo_books` and `fe_pages` need it, each for one property. In `PaymentQueue`, `FairSpec` asks weak fairness of each run's and each call's own steps (the
event loop and the server go on), of transactions that are open, and of the clock
passing a back-off. Strong fairness is asked of the start of a run: the interval
timer of 8 s (`posStore.ts:883-902`) fires for ever while the terminal is online and
finds the due records sooner or later, also if the operator's retries keep the one
modelled run busy again and again. Nothing is asked of the operator, of faults, or of
reloads, all of which may stop for ever, and faults and reloads are finite.

In `ReportExport`, `FairSpec` asks weak fairness of each pass's own steps, and strong fairness of
the start of a pass: the cron job fires every minute for ever (`report-export.service.ts:182`),
without regard to passes that still run. In the model the places for passes are few and
may all be taken at times, but not for ever, as every pass ends. A pass that waits for a
mail server without end has left its rows to the others and gives its place back.

In `BackOffice`, `Fairness` asks weak fairness of the requests together: every await but that of the
mail server ends, with an answer or an error, and a request has finitely many of them.
`sendMail` has no time limit here, so nothing is asked of a request that waits for it. Nothing
makes requests, closings or passes begin, or the clock go on.

In `FrontEnd`, `Progress` is one step of the link: sockets open, deliver in order, close, and a
scheduled attempt is made. Weak fairness of it is what the browser and the operating
system give; nobody is made to report, press, break, restart or unmount. `PageCatchesUp` asks
for the newest state only if the server stays up and the page open from some time on.

## 5. The proofs

All proofs rest on the named assumptions about constants only, which TLC evaluates in every run.

`PaymentQueueProofs` assumes `ConstantsAssumption` (`Runs` finite, `NoPayment` and `NoRun` are no
payment and no run, the budgets and bounds are naturals). `Payments` and `Scans` are arbitrary sets.

About the queue:

- `TypeCorrect`: `Spec => []TypeOK`.
- `QueueAlwaysPersisted`, `NothingLostSilently`: `QueueIsPersisted` and `NoSilentLoss`.
- `LeavesTheQueueForGood`: the action property `NeverRequeued`, which no run checks by itself:
  it follows from `ImplementsPaymentLife`.
- `QueuesAgreeAtRest`: `AgreementAtRest`. Given `QueueInv` it is inductive by itself: a step leaves a record
  and its transactions alone (`Quiet`), or leaves it gone from memory, with a transaction open,
  or the same in both places (`Settles`).

The others are not inductive. The invariant carried along is `TypeInv /\ QueueInv`. `TypeInv`
adds to `TypeOK` the shape of a run (`RunShape`: a run that is not idle has a current payment,
not in its own rest). `QueueInv` relates the four places where a payment can be:
`QueuePhase` and `HoldPhase` say in which phases of its call a payment can be queued
or held by a run, `TxPhase` and `OneTxPerCall` which transactions can be open for it,
`SoldPhase` that past the 200 there is a sale, `RestHeld` that what a run still has to do
was queued; with `QueueIsPersisted` and `NoSilentLoss` these are preserved by every action.
Most actions touch only a few of the variables: the lemma `QueueFrame` deals with those,
the remaining ones (`EnqueuePayment`, `ParkPayment`, `Reload`) have lemmas of their own.

About the sales, on top of these invariants:

- `DuplicatesHaveACause`: `Spec => []DuplicateSaleHasCause`.
- `CartsPaidTwiceHaveACause`: `Spec => []CartPaidTwiceHasCause`.

`OwnerInv`: a run that waits for a transaction waits for exactly one, of the kind its phase
asks for. `SaleInv`: for a payment that is neither ambiguous nor contended, at most one
of {its call, the runs, the queue} may still sell it, and sales plus orphaned requests
are 0, or 1 and then nobody may sell it any more. A second sale therefore needs an
answer that was lost (`ambiguous`) or two runs that held it together (`contended`).
`CartInv` follows the goods instead: a call that is over, and was not pressed into another's
flight, has nothing in common with the open cart (`CartCleared`), unless it was rejected, and
then nothing is sold for it (`RejectedUnsold`). The goods two calls share therefore stayed in
the cart because one of them was rejected (`SharedRejected`). A start of the page puts the server's
copy into the cart, so `CacheInv` says where the goods of a payment may still be found: once the
page has been told that a payment is sold, they are in no copy of the cart, at the server or on
its way (`ToldClean`), unless a cart overtook the clearing of the copy, the operator removed the
payment or a start cut it off; a payment that did not name the terminal was made of goods
that had not been sent (`UnnamedClean`, `FreshCart`). The steps are classified first
(`CartKeeps`, `CallKeeps`, `BooksKeep`), and the invariant is proved of the classes.

On all of them together rests

- `QueueKeepsItsPromises`: `Spec => ImplementsPaymentLife`. Every step of the terminal, the server or
  the network is a step of `PaymentLife`: a step that moves no payment along is its `Doubt`, of
  nobody as a rule (`LifeDoubts`, `LifeRests`); a commit of the server is its `Sell`, whose guard
  is what `SaleInv` and `RejectedUnsold` say (`LifeSells`); a run takes out what `SoldPhase` says
  is sold (`SettledInLife`); a removal or a start of the page is its `Drop` (`LifeDrops`). One
  fact more is needed: a call that has seen the answer 200 has a sale (`PaidSold`).

`OrderFulfilmentProofs` assumes `SlotAssumption` only: finitely many orders, loads that are
integers, capacities and budgets that are naturals (`create-delivery-slot.dto.ts` asks for
limits of at least 1), edits among the statuses of the schema. Every property the passing
order runs check is proved, with two lesser ones on the way:

- `TypeCorrect`: `Spec => []TypeOK`, with `BusyShape`: an update that is served has a stored order.
- `StatusSteps`: `StatusStepsAreAllowed`. `StatusInv` says that outside `crossed` an order has one
  update (`Alone`), and that what it is about to write is allowed, or what it wrote is the
  status still (`Linked`). Without `Linked` the look-up would say nothing of the write.
- `OverbookingExplained`: `OverbookingHasCause`. Not inductive, because storing an order raises the
  usage long after the check. `SlotInv` therefore counts an admitted order as well: of two that
  are admitted one found the other and is `hasty` (`OneHonest`), so that at most one is counted,
  and it was checked when nobody else was admitted. As its load may be negative and it may
  still be refused, the slot must have room both with it and without it. The exception is kept
  once it holds (`Gone`): a stored order that has left does not come back unless it is in `crossed`.
  Of `Usage` one fact is needed: without orders of which none has a negative load, no more is used
  (`UsageMonotone`), from `SumTheorems`.
- `FeedbackDeserved`: `FeedbackAfterDelivery`, from `Linked` and that nothing leaves `DELIVERED`.
- `TasksTogether`: `TasksMoveTogether`, from `InsertsAlone`: while an insert is under way there is no
  update of the order, or the order is in `early`.
- `HistoryFaithful`: `HistoryIsPath`. Status and event are written by different steps, so `HistoryOf`
  states what is owed: if an update is between the two, the status is an allowed step from
  the last event, otherwise it is the last event. `StageInv` says where the request that placed the
  order is when the status is what.
- `WorkInStep`: `WorkFollowsStatus`, which includes `TasksMoveTogether`, in the same way: `WorkOf` says what exists at each stage of
  `createOrder`, and that tasks or driver lag behind the status only while an update is on its
  way to the kitchen or to dispatch.

`ReportExportProofs` assumes `ExportAssumption`: finitely many reports, a batch of at least one.
All but the liveness property of `re_jobs` is proved:

- `TypeCorrect`: `Spec => []TypeOK`, with `Shape`: whoever does something does it for a report.
- `OneWorker`: `OneWorkerPerReport`, from `WorkOf`: a report that is not PROCESSING or READY has no
  worker, one being generated is PROCESSING, one being mailed is READY, and a request that is
  about to revive a report finds it FAILED and is alone, unless the report is in `crossed`.
- `Announced`: `ReadyIsAnnounced`, from `ToldOf`: until the mail has arrived some pass has it in
  hand for the very address in the row, or is about to mark the report as failed.
- `Implements`: `Spec => Job!Spec`. Every step of a request or a pass is a step of `ReportJob` or
  changes nothing there. `WorkOf` supplies the guards: who writes READY or FAILED is the
  one worker, and who writes PENDING finds the report failed with nobody at work.

The models of many requests have some fifty actions and as many variables, and an invariant about
a few variables would be proved fifty times. Instead these modules first classify the steps:
what any step of `Next` does to the variables that matter is one of a few *moves* (lemmas named
`...Moves`), and the invariants are proved of the moves. `met` needs one fact, `MetInv`: whoever
is under way has met whoever else is.

`SumTheorems` is about sums over finite sets of integers, as `MapThenSumSet` of the community modules
forms them: they exist, are integers, or naturals if all they add are, do not depend on the order, grow by what an element that
joins adds, and add up over parts (`SumOverParts`). Each is a fact about all subsets that would need
induction. The library's induction theorems cannot be used here, so a least subset for which the fact
would fail is taken instead (`LeastSubset`, from the well-foundedness of strict subsets), and an
element removed from it. A fold over a set is thereby within reach as long as it is a sum.

`BackOfficeProofs` assumes `DeskAssumption`, `PipelineAssumption`, `ClosingAssumption`, `CastAssumption`. For
the requests six variables matter, and the moves are the awaits of a request; the books, the cache
and the preorders have moves of their own (`BookStep`, `CacheStep`, `DeskStep`).

- `RefundsOverlapped`: `RefundedTwiceOverlapped`. `StageInv` ties the status of a row to the await its
  request is at; `TargetInv` says that a sale whose refund is booked is no longer SUCCESS; from
  these `ApartInv`: of two refunds of one sale that are past the check, or one past it and one
  booked, each has met the other. Without it nothing is known of a refund that has checked
  and waits for the TSS.
- `PipelineKeepsLedger`: `Spec => Ledger!Spec`. `SignedInv` says that a request past the TSS has a finished
  transaction, which is the guard of `Sell` and `Return` there; `StageInv` and `TargetInv` supply the
  others (a row is written once, a confirmed request has its row, the claimed sale is the target).
- `EverythingCountedOnce`: `CountedOnce`. `BookInv` follows a row from the stamp, which is drawn before the
  commit, to the closing that must have it. `LateInv`: a row stamped but not yet visible is not older
  than a stored closing it has not met. `FoundInv`: what is visible in the window of a closing is
  counted, has met it, or will be found by a query it still waits for. `BeforeInv`: what is older
  than the window is explained by a stored closing (`Traced`), or the closing is the first one, whose
  start, the first sale or midnight, leaves out what was before it. So once the closing is stored all up to
  its end is explained (`TracedInv`). `OrderInv` gives the other half: two Z closings that have not met
  have windows one after the other. The proof needs that a clock has a greatest stored end and a
  least first stamp (`MaxIs`, `MinIs`), shown by well-foundedness of strict subsets, not by induction.
- `LatestSaleExplained`: `LatestSaleHasCause`. `OverlapInv`: who has its time and is still under way has met every
  request with a later time, so whoever caches its sale overwrites only sales of requests it has met
  or that are older. `ReaderInv` says the same of a reader between its look-up and its write of the
  cache. `LatestInv` adds that a newer sale may still be on its way to the cache, which nobody is
  at rest.
- `TwoPapersExplained`: `TwoPapersHaveCause`. `PaperInv` says that an order with a receipt is picked up or was
  reopened, and that a payment which has read the order as not picked up has met, and was met by,
  every payment that has written a receipt since. `PayInv` says who gets that far: a payment that
  names a known order.
- `MissedOrdersExplained`: `MissedOrderHasCause`. `Holds` says of a pass between its fetch and its end that
  the last change of an order it has not missed is in its answer, has been stored, or is older
  than what the pass asked for; the last is the cursor of its time, behind which everything was
  shown (`Passed`).

- `BackOfficeTypeCorrect`: `TypeOK`. That the drawer is an integer is not a matter of types: it is a sum over
  what has been written, and defined because that is finite, as a step writes one row at most.
- `DrawerMatched`: `ClosingsMatchDrawer`. `DrawerInv` says that the drawer is the sum over all rows written
  but the simulated ones (`CashKept`) and a stored closing the sum over the rows it has counted (`SummariesKept`), which a row
  keeps when it turns from SUCCESS to REFUNDED. If each row is in one stored Z closing, these
  divide the rows, and `SumOverParts` gives the rest.

`AdministrationProofs` assumes `InventoryAssumption`, `ConfigAssumption`, `AccessAssumption`, `CastAssumption`. Every
property `ad_shop` checks is a theorem.

- `TypeHolds`: `Spec => []TypeOK`. The types of access control are no mere types: a role has only
  permissions with a row of their own. `Sure` says of a request between finding the rows and using
  them that what it is about to write is there, or is what it is about to create.

- `AuditHolds`: `AuditTellsAccess`. For a role or user about which no request has failed half-way and
  no two have overlapped (`Clean`), `Faithful` says what a request between its writes has made of
  it, and that with no entry owed it is what the log tells. As a request that begins makes
  more of them meet, `CleanBefore` is needed: what is clean now was clean before.
- `StockHolds`: `StockAccounted`. `StockInv` is the typing of the catalog with what each await has found
  (a line in the document, a row, a batch), because the actions index by it. `Accounted` says of a
  batch whose closings have not overlapped (`Straight`): its quantity is delivered plus adjusted, or
  the one closing between adjustment and write holds in `read` and `due` what will make it so;
  and whoever holds a quantity it has read holds the present one, or has met a closing that has
  adjusted since. `NotYet` says that a batch of a line still to come does not exist.
- `CountHolds`: `CountedStockHasCause`. `CountedRight` speaks of the closing that was the last to book a
  batch: as long as it has met none of the others (`Lonely`), what it has in hand or has written is
  what it counted, it has read the batch as it is when it counts it once more, and whoever has still
  to write the batch has met it. `HandInv` ties the difference in hand to what the closing has noted,
  and `Unbooked` says that no closing has booked a batch that is still to be delivered.
- `PriceHolds`: `PriceFollowsHistory`, for changes recorded while they are in force (`Timely`). `Priced` says that the newest entry's author has found the product,
  that whoever has still to write its price overlapped with the author, and so did whoever wrote
  after. It needs `Unlisted`: a line of a delivery that is still ahead is not in the catalog and
  nobody has found it, so that creating a product does not set a price that has a history.
- `SigningHolds`: `SigningRegisterHasCause`. As long as the register last made the default has not been
  removed or written during the removal of a TSS (`Undone`) and no two requests that make a
  register the default have met (`Rivals`), `Signs` says that it has the flag, that no TSS about to be
  deleted takes it along, and that no other register has the flag unless the request that set it
  has still to unset the others or has failed. `UnsetInv` says that whoever is about to unset flags
  does it for the register last chosen.

`FrontEndProofs` is about `FrontSpec`: every scene, started from any state the pages may start in,
with no bound on what happens. The specification of the run is one small instance of it. The
pages share no variables, so each has an inductive invariant of its own, and a step of one leaves the others
alone (`StepOfEach`). Assumed are the named assumptions of the pages: the values for "nothing" are
no tenant, item, cart or socket, a line that is pasted has the fields of a line, there is a socket, sockets and
queues are finitely many, and the gateway keeps one event at least.

- `FrontTypeCorrect`: `TypeOK`, the types of all pages, each part of the page's invariant.
- `OneLink`: `OneLinkHasCause`. `SocketInv`: unless a reconnect was asked for while an attempt was
  scheduled (`hasty`), a scheduled attempt excludes a socket, and every socket not closed at both ends is the
  one the client holds. `WireInv`: nothing is on its way on a closed socket, and no end on one the
  gateway still serves. `EventInv` follows an event over the wires to the list: it is on a wire once, and
  not on the wire of the live socket any more when it is in the list.
- `PagesShowServer`: `PagesHaveCause`. For the lists, `SoleInv` says what a page that is not mixed can be
  waiting for: one load and nothing else, or changes of different rows. Then an answer on its way is
  still what the server has (`GaveInv`), and each row is what the server has or one of the
  changes under way is about it (`ListInv`). For the forms, `FileInv` (the file being read is the file
  named), `RowInv` (each pasted line has a row, was reported, or its row was taken away) and `CountInv` (the lines in the closing form are the sheet's own unless
  that was opened without any).
- `TenantsStayApart`: `TenantsKeptApart`. `ControlInv` says what a page that is not loose can be waiting for: one
  load that nobody has aborted and no save, or one save and no load.
- `TillIsRight`: `TillHasCause`. The cart: unless it is `lost`, the one meant is the last whose write to
  IndexedDB is still open, or else on its way to the server alone, or else the server's copy (`CacheInv`), and
  in each later phase of `initialize` the one collected (`CartInv`). The notes: the last event about a
  note that is on its way tells what has become of it (`NewsInv`), so the till has the open ones but
  for those (`NoteInv`). The tables (`TableDeskProofs`): every copy of a table, at the server, in a till or
  in an update under way, has the amounts that were ordered (`GoodTables`), because what a till
  does to a copy keeps them; and unless a plan was sent from `behind`, a plan that is
  under way includes the one the server has (`PlanInv`).
- `SplitKeeps`, `MergeKeeps`: what `splitChecksForTable` and `mergeChecksForTable` return for any checks. Amounts are
  sums over places (check, line). A split matches the old places with the new ones, all but the line
  that was halved; a merge matches a new line with the places of its article, and needs that the
  first places of the articles can be counted through (`RankIs`).
- `ConsentIsKept`: `ConsentKept`. `GraspInv`: of requests that have not overlapped, what one has read is still
  what is stored, and the push registration carries what the customer asked for. `MeetInv` says
  that two under way at once have been noted, without which nothing could be said of their end.

Only model-checked: the liveness properties `QueueDrains`, `WaitingEnds`, `RequestsEnd` and `PageCatchesUp`. Fairness and
`ENABLED` are out of the prover's reach. Every invariant and every action property of the
passing runs, and all three refinements, are theorems.

## 6. What was found

Shown by a run that expects a violation:

- After a reload the offline queue is empty although IndexedDB holds the payments
  (`pq_lost_queue`; `offlineStorage.ts:289`). The same misuse of `runTransaction` is in
  all other readers of `offlineStorage.ts`: `loadCart` (line 154) "loads the persisted shopping cart"
  according to its comment, but what it returns has no `items`, and `posStore.ts:789` takes `[]`. The
  models of the till follow the code, so that only the server's copy of a cart comes back.
- The conflict handling of the terminal waits for a 409 that the backend never sends;
  a payment whose answer is lost is sold twice (`pq_duplicate`).
- `reserveCapacity` reserves nothing; orders admitted together overbook a slot
  (`of_overbooked`; `delivery-slots.service.ts:85`).

Reachable in the models, where a property names them as the causes it excepts, or where nothing in
the repository says otherwise:

- Two status updates of one order that overlap can take a step `ORDER_TRANSITIONS` forbids,
  bring a cancelled order back, and leave tasks, driver and history at odds (`crossed`).
- An export that is PROCESSING when the process ends stays so (`abandoned`); two requests that
  find a report FAILED can have it generated twice (`crossed`).
- A sale is refunded twice by two refunds that overlap; a partial refund marks the whole sale
  REFUNDED. A payment that fails after its row is written is answered with an error. A TSS
  transaction whose finish fails stays open. A mail server that does not answer holds the payment.
- The goods of a payment come back into the cart when the page is loaded anew while the server still
  serves it: its copy of the cart is dropped last, after print and mail (`pos.service.ts:231-233`). Paid
  again, they are sold twice, with no answer lost and no two payments at a time (`revived`). The same
  happens if a cart arrives at the server after the copy was dropped (`overtaken`).
- `POST /pos/payments/simulate` works "without actual fiscalization or persistence"
  (`pos.controller.ts:85-87`), its sale "temporarily cached in Redis" (`pos.service.ts:178-181`). The code
  stores it as a SUCCESS sale (`pos.service.ts:185-192`), and Z closings add it up as cash that never was in
  the drawer: `ClosingsMatchDrawer` holds only with `Simulated` on its right-hand side.
- The first Z closing starts at the time of the first sale and selects sales after it; if nothing is
  sold yet it starts at midnight, and what was put into the drawer before is in none; a sale
  stamped in the millisecond a closing ends, or committed while one is computed, is in none; two
  closings at once count the same sales. Two sales of one millisecond have one receipt number.
- A Wolt fetch that fails counts as "nothing new" and moves the marker on. An answer fetched before
  a pickup takes the preorder back, and it is handed over again. Orders Wolt rejects become ORDERED.
- `create-inventory-count.dto.ts` says the expected quantity is inferred from the current stock
  level if it is not given; `finalizeInventoryCount` then expects 0, and books the whole count as gain.
- `record-price-change.dto.ts:73-89` calls `effectiveFrom` and `effectiveTo` the dates from and until which
  the new price is effective. `recordPriceChange` stores them and sets the price at once, also for
  dates to come or past; nothing takes it back. `PriceFollowsHistory` needs that as a cause.
- The loads of an order may be negative; an order admitted because of one stays when that one leaves.
- Two registers made the default together leave none; a register taken into use while its TSS is
  deleted goes with it.
- `RealtimeClient.ts:101` says that `close` closes the connection permanently; after a reconnect that was
  asked for while an attempt was scheduled a socket is left that it does not know (`hasty`;
  `OneLinkHasCause` promises nothing after it, and covers the hazard but for that). The gateway replays
  errors newest first and the page prepends them, so the list comes out reversed; a second replay
  can push the newest out. The inventory page shows its own events twice.
- Answers of the control center for a tenant left meanwhile are shown for the next one; an aborted load
  clears the loading flag of its successor; after a load that failed the modules can be edited and saved.
- A count sheet opened without lines keeps the lines of the former sheet in the form that closes it
  (`InventoryCounts.tsx:183-192`), and the server books them on the new sheet.
- A goods receipt sent while a file is being read carries the former content under the new name. A
  catalog import goes out without the lines that could not be read, where a goods receipt refuses.
- The server's cart is the only one that is restored, and the cart is lost if the server has none; a scanned code that is no product stays in
  the cart, which then cannot be synchronised. Events that arrive during `initialize` are overwritten by
  its lists, and the lists are not loaded again after the link was lost. Events of other tenants
  are shown until the lists are loaded again.
- No till listens to `table.updated`, and a till sends its whole plan: a stale one takes back courses
  another has served. A table just opened can appear twice.
- A push registration writes the consent the page showed when the button was pressed, and every
  preference write sends all flags: of two that overlap one is lost.

The hazards of `PROJECT.json` name the line of each. Two have no property: that a settled
payment empties the cart being rung up, and that planning a driver resets an assignment under way.
Nothing in the repository says what should happen instead.

## 7. What is not modelled, and why

- Checkout of the customer front end (`routes/order`): it calls `GET /orders/products`, which this backend
  routes to `:id` and refuses, and `POST /orders/payment-intents`, which it does not have, and posts an order
  in fields the DTO does not know. A model against this backend would stop at the empty catalog. Its
  hazards, for when the two agree: a payment intent prepared for a cart that has changed since,
  the late answer for a former intent, a slot that belongs to the other fulfilment type.
- Reporting queries, integrations and accounting: reads, formatting (CSV, DATEV, PDF) and single-row
  records, without a protocol or state that two of them share.
- Closing a table: the handler exists, no page has a button for it. Storage locations and promotions:
  single-row records.
- The guard of access control compares a header with a secret; passwords are hashed: no state.
- The rate limiter in front of `POST /orders`: a count per minute and address; the model lets a
  request be refused at any time by way of stock.
- Rendering, printing, localisation, exports of files in the browser: no state beyond what is shown.
- Infrastructure (Prisma, Redis, health, mail templates, Docker) and the service worker (Workbox): I/O.
  Their failures are the failures of the awaits that call them.

Every component that is "partly" modelled lists what is left out in its note in `PROJECT.json`.
