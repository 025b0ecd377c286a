# Fantafestando: a TLA+ verification project

Fantafestando is the till, kitchen and back-office software of a village festival: one
Next.js process (plus, optionally, a separate public-menu surface) over MongoDB, thermal
printers on the network and SumUp card terminals. There are no transactions. Everything
that must be atomic is one `findOneAndUpdate` with a filter, everything longer is guarded by
a claim written in a document (a token, a date, sometimes an expiry), and every `await` is a
place where another request, the print poller or a crash gets in between. That is what the
modules here model; each action is what the code does between two awaits.

All paths below are relative to the repository's `src/`; `PROJECT.json` maps every definition
to the lines it stands for, and lists the hazards line by line.

## 1. Inventory

| Part | State it keeps | What is hard | What makes it correct | Modules |
|---|---|---|---|---|
| Kitchen print queue (`lib/print-queue.ts`, `lib/printer.ts`, scheduler, `hardware/actions.ts`) | `PrintJob`, three kinds of claim; the lease of a `Printer`; the poller's stage | several processes on one printer, leases that expire under a slow holder, a crash or a failed write between the socket and Mongo, a send that times out with its sheet on paper | one sender per printer, no extra copy without a fault, order of the backlog, every held ticket is settled | `PrintQueue` |
| Cash sessions and payments (`lib/cash-session-*.ts`, `pos/actions.ts`, `api/sumup/webhook`) | session status, transition, payment claim; order status, SumUp claim, `stockAdjustments` | a payment during a close, a transition that fails half way and is repeated, webhook against register, failed writes | closing summaries miss nothing, an order is paid once with the stock it says | `CashSession` |
| Storno (`admin/orders/actions.ts`) | `storno.status`, stock claim | a refund whose record fails, a transition of the whole session at the same time | one refund, one return | `CashSession` |
| Stock (`lib/stock-operations.ts`, `lib/inventory.ts`, `lib/cash-session-stock.ts`) | `stockQuantity`, `isSoldOut`, idempotency keys | single-document steps interleave, quantities become unlimited or documents disappear meanwhile | units are conserved, flags follow the stock | `StockOperations` |
| Stock push (`lib/pos-stock-realtime.ts`, `api/pos/stock-stream`, `hooks/use-pos-stock-realtime.ts`) | listeners per event; the client's fetch and timers | an invalidation during a fetch, a lost stream | a register ends with the latest stock | `StockRealtime` |
| Numbered dishes, console and monitor (`lib/pizza-ticket.ts`, `lib/order-code.ts`, `api/pizza-console/*`) | `OrderCounter`, `dishTickets[]`, screens | numbers handed out while carts change, an event reset under running requests, answers out of order | a number stands for one dish, screens end up right | `DishTickets` |
| Paper of an order (`lib/printer.ts`: `routeOrderToPrinters`, the chain per address) | sheets, tasks per address | the catalogue changes while an order is laid out, two orders at one printer, paper that comes after its timeout | every dish has its sheets, those of an order stay together | `OrderRouting` |
| Failed prints (`pos/page.tsx`, `pos/actions.ts`, `lib/printer.ts`) | jobs of an order, the register's message, the office's list | lanes that fail one by one, retries and holds answered partly, a queue that sends again unasked | nothing the sale failed to print is missing from the message, paper is what was asked for | `FailedPrints` |
| Backup and restore (`lib/runtime-backup.ts`) | collections, staged copies, bundles, settings | activation is two renames per collection while the shop writes, and replaces the settings, too | all collections of one origin, what is reported is there | `RuntimeBackup`, `AtomicRestore` |
| Documents of an event (`catalog/page.tsx`, `hardware/actions.ts`, `lib/event-transfer.ts`, `events/actions.ts`) | ids and references | nothing but the handlers keeps a reference; imports are many writes | references resolve, an import is whole or nothing | `EventDocuments` |
| Settings of events (`admin/settings/event-settings-actions.ts`) | active, archived, logo files | a save is several writes | one active event, logos on the disk | `EventSettings` |
| Prices and reports (`lib/order-discounts.ts`, `lib/product-consumption.ts`, `lib/dashboard-stats.ts`) | the catalogue, orders, closings | cents | every report adds up | `Sales` |
| Page of a register (`pos/page.tsx`, `lib/pos-cart.ts`) | tray, loaded order, request under way | lost answers, an order loaded meanwhile | charged what was asked, once | `Register` (extends `Sales`) |
| Public menu (`menu/page.tsx`, `menu/actions.ts`, `menu/cart-storage.ts`, `lib/fixed-menu.ts`, `lib/ingredient-plan.ts`) | the stored cart, tabs, pending orders with their plan | several tabs, edits of the catalogue, lost answers | sent and charged as shown, the ingredient queue covers the orders | `PublicMenu` |
| Access, rate limits, layout of documents, file formats, deployment | one document per request, or none | little concurrency of their own | not a matter of protocol | not modelled |

How they interact. A sale claims its session (`paymentClaim`), takes stock, writes the order
and releases the session; then it gives the dishes their numbers, lays out the sheets and
sends them under the printers' leases. A webhook does the same for a card order, with a claim
on the order in front. Closing, TEST reclassification, deletion and storno go the other way:
they claim the session (or the order), then claim the stock of each order, return it entity by
entity under idempotency keys and record the outcome. All of these share documents only; the
poller and the backup scheduler are the background processes, the SSE bus and the chain of
sends per address the in-process channels.

## 2. Modules

Three modules model protocols with instances of their own (`MC*`): `PrintQueue`, `CashSession` and
`StockOperations`. The others
are checked together: `MCService` runs those with liveness properties, `MCBackOffice` the rest. The components of
one instance share no state there, and the variable `part` says whose behaviour it is; what one
takes from another (a paid order, a number, a price) is among its initial states and inputs.

### `PrintQueue` (with `MCPrintQueue`, `PrintQueueProofs`)

| Variable | Code |
|---|---|
| `printer[p]` | `type`, `printQueueLeaseToken`, and the ticks left of `printQueueLeaseExpiresAt` |
| `job[j]` | `status`, `heldSince` (set or not), `queueClaimToken`/`queueClaimExpiresAt`, `liveClaimExpiresAt`, `retryClaimedAt` |
| `act[a]` | the program counter and locals of a request (a *clerk*) or of one poller's drain of one printer |
| `poll[q]` | where `drainHeldPrintQueues` of a process is |
| `faults` | history: crashes, calls that failed, sheets without an answer |
| `sheets[j]`, `confirmed` | history: how often a job is on paper, or will be; the jobs a printer has acknowledged |

Time is a number of ticks left on each claim; `Tick` takes one off all of them. The constant
`Timely` says whether a running holder can be overtaken by its own lease: FALSE lets any
request stall for any time between two steps, TRUE stops the clock while it would expire a
claim under a running holder. The code supports TRUE in practice (a send gives up after 4 s
+ 7 s, `printer.ts:219-220`; the lease is 5 minutes) and nothing enforces it, which is why both are
checked and the properties are grouped by which of the two they need.

`LiveCreate` ... `LiveRecord` are the send of a new ticket, `Hold*` `holdFailedKitchenPrintJobs`,
`Retry*` and `Recover*` `retryPrintJobById` and the recovery of interrupted sends, `Poll*` and
`Drain*` the poller, `Admin*` changes of a printer, `Crash` the loss of a request or of a whole process (its
poller and drains): what it wrote stays, its `finally` does not run. At the socket, `SendOk` is a sheet
and its answer, `SendFails` neither, `SendUnanswered` a sheet whose answer does not come in time: `withTimeout`
does not cancel `printer.execute()`, so the send is taken for failed and a drain, for which every
failure of the printer is recoverable, holds the job and sends it again (`printer.ts:1654-1659`,
`print-queue.ts:344`). `CallFails` and `PollFails` are calls to MongoDB that fail, each with what the code around it makes
of it: `updatePrintJobLog` swallows the error, so that the outcome of a live send or a retry is lost and
its job stays `QUEUED` until it is recovered; in a drain it is thrown, past the job that is claimed, and so on. A call
that fails has written nothing. Failed calls, unanswered sheets and crashes are faults, bounded together.

### `CashSession` (with `MCCashSession` and four modules of proofs)

| Variable | Code |
|---|---|
| `session[s]` | `status`, `isTest`, `stockEffectStatus`, `transition` (token, type, failed, claimedAt fresh or stale, and who holds it), `paymentClaim` |
| `order[o]` | `status`, `cashSessionId`, payment by card, checkout id, webhook claim, `stockAdjustments`, `stockEffectStatus`, stock claim and target, `storno`, refunded, document version |
| `keys[i]` | `stockOperationKeys` of a product or ingredient |
| `act[a]` | the handler, its program counter and locals |
| `taken`, `paid`, `refunds`, `counted` | history: units of stock an order holds, payments, refunds, closing summaries |

The actions follow the handlers: `createOrder` and `completePendingOrderPayment` (`SaleBegin` ...
`PayRelease`), the webhook (`WebhookBegin`, `WriteWebhook`, `HookRelease`), `closeCashSession`
(`Close*`), `setCashSessionTestAction` (`Test*`), `deleteCashSessionAction` (`Delete*`),
`stornoPaidOrderById` (`Storno*`, `Refund`) and, shared by the last four, the return of stock
(`StockList`, `StockClaim`, `StockMove`, `StockDone`, `StockFail`). A quantity is one unit per entity, the
real quantities being `StockOperations`' matter. `order.save()` is guarded by Mongoose's
document version only, which other `save()`s advance and `updateOne` does not: that is
`Unchanged`. SumUp is external: it may deliver an event at any time and any number of times.

### `StockOperations` (with `MCStockOperations`, `StockOperationsProofs`)

| Variable | Code |
|---|---|
| `stock[e]` | `stockQuantity` of a product or ingredient; `Untracked` for null, `Gone` for a deleted document |
| `soldOut[p]` | `isSoldOut` |
| `doc[o]` | the order's status, `stockAdjustments`, and the entities whose idempotency key is set |
| `act[a]` | the request that sells or returns an order, or edits a quantity |
| `out`, `supply` | history: units orders account for; units put in by the operators |
| `drifted`, `unsynced` | history: entities that lost units to a known race, products whose flag a failed request did not set |

A sale is `SaleBegin`, `LoadProducts`, `LoadIngredients` (the check of shortages on values read
there), then `TakeStrict` or `TakeOverride` per entity in cart order, `Clamp` after an overridden
decrement below zero, `Sync` per touched product and `Record`. A failure anywhere leads to
`UndoRead`/`UndoItem` (the rollback), a thrown error or a crash to `Throw`. `GiveItem` ... `GiveDone` are
`transitionClaimedOrderStock`. Operators set quantities, make an entity unlimited, delete it or press
+/- (`DeltaBegin`, `DeltaClamp`, `DeltaFlag`). Which request may return an order's units, and that two
never do, is `CashSession`'s subject and is taken from there: one request per order at a time.

### `StockRealtime`

`level` and `announce` are the stock and the writers that have not published yet, `entry` and the
`set` of each `stream` the map of listeners (a listener may sit in a set the map no longer holds),
`screen` the hook: its source, its one fetch with `syncPending`, its timers, and what it shows. A
stream breaks without either side noticing at once, fetches fail, the server restarts, the event is
activated and deactivated. A quantity is a version: every write makes a new one.

### `DishTickets` (with `BackOfficeProofs`)

`seq` is the counter of an event, `dish[o]` an order with its version and tickets, `call[r]` a request
of the register, the menu, the kitchen or the office between its read and its write, `reset` what
`resetEventOrdersAction` has still to delete, `screenOf[m]` the fetches a page has under way and what
it shows. `astray` remembers orders whose numbers were handed out on the other side of a reset than
the one they were written on: those may share numbers, and only those.

### `RuntimeBackup` and `AtomicRestore` (with `BackOfficeProofs`)

`live`, `temp` and `aside` say of each name whose data it holds ("shop", "bundle" or nothing), `job` is
the restore and `backup` the backup that runs, `archives` the bundles on the disk. `settings` is the
document of `SystemSettings`, the first of the collections: the policy and what is reported of the last backup and the
last restore. It is moved aside with its collection (`shelved`) and comes from the bundle with the
others, so that a successful restore brings back the policy and the reports of the day of the bundle
(`Bundled`, which a run gives), its own success being written into those afterwards; a write of the shop while
the collection is away starts from `Default`. Such a report may name a bundle that retention has
deleted since, and a status `RUNNING`; `ArchivesAreWhole` claims the reported bundle for documents in which a backup has
reported since they came here (`own`). A write of the shop to a name that is away creates it
(`Revives`), a rename to a name in use fails. For the uploads `MoveAsideFails` removes the live
directory, as the catch of `activateStagedUploads` does (`runtime-backup.ts:953-954`).

`AtomicRestore` is what an operator may rely on: a restore replaces everything or nothing, one that fails says so,
and only one that dies may leave a mixture, until the next that succeeds. A restore that fails may lose
the uploads, which the abstract specification therefore allows and §5 notes. The mapping hides staging and swaps:
while `job` is at work the store is what it was before. `died`, history, tells a death from a restore that ends by itself,
so that what is allowed after the one excuses nothing after the other.

### `EventDocuments` and `EventSettings` (with `BackOfficeProofs`)

`EventDocuments` keeps for every id its role and the references of its document. Forms check what
they refer to and write later, deletions take the document and then, write by write, what refers to
it; an export is six queries, an import one write per collection with its cleanup, a clone the same
without. `stale` remembers references written after the document they had found was deleted.
`EventSettings` has the saves of an event's settings as the separate writes they are, archiving,
deletion and clones, with `disk` the files of the logos.

### `Sales` and `Register`

`Sales` has the server's prices of a cart (discounts of lines and orders, volunteers, limits) and the
reports as operators on sequences of orders, in integer cents: the division of a total among
lines (`allocateCentsByWeights`), the rows, categories, discounts and sums by method of the
dashboard and of a closing. `Register` extends it with the page: the tray, an order loaded by its code,
the request under way and the one the page has given up on. `ghost` follows the patron a tray is
for.

### `OrderRouting`, `FailedPrints` (with `FailedPrintsProofs`), `PublicMenu`

`OrderRouting` computes the sheets of an order from the catalogue in the order of the queries of
`routeOrderToPrinters`, the catalogue changing between them, and sends them through the chain of
promises of each address. A send fails with or without its sheet coming out later (`adrift`), a kitchen's sheet joins
the queue of its printer when that has a backlog or its lease is taken, the queue's own sends wait in the same
chains (`TheQueue`), and outcomes that are not written leave sheets `queued`, `drained` or `retried` until they
are recovered. `paper` says of every sheet who sent it and what was told of it.

`FailedPrints` has the lanes of one order, their automatic retries, the register's message with its buttons and
the office's list, each request step by step; and the queue's sends for the kitchen: they succeed, fail and are held again, end
for good (`FAILED`, without a word to the register), break with the sheet on paper, or lose the write of
their outcome. `asked` counts who wanted a sheet (the sale, the clerk, the office), `out` the paper, `stray` the
paper that was taken for failed, or sent without being recorded, and sent again unasked.

`PublicMenu` has the cart in the phone's storage and the pages that show it, what is sent, the
server's checks, and the ingredient plan each order keeps.

## 3. Runs

| Run | Instance | Shows |
|---|---|---|
| `pq_timely` | 1 printer, 2 jobs, 2 clerks, 1 poller, 2 faults, lease of 2 ticks | type correctness, one sender per printer, no more extra copies than faults, claims are kept, order of the backlog, `SENT` is final, a `FAILED` job can be retried |
| `pq_slow` | 1 job, 2 clerks, 1 poller, `Timely = FALSE` | what survives stalled holders: a job is `SENT` only if it was acknowledged, a valid lease is given up by its holder alone |
| `pq_orphan` | as `pq_timely`, no fault | **violated**: a deleted printer with a held ticket |
| `cs_timely` | 1 session, 2 orders of 2 entities, 2 requests, 1 fault; sales, close, reclassification, storno | summaries are complete, stock is what the orders say at rest and never half a unit off in between, a settled session is settled order by order |
| `cs_terminal` | 1 order, 3 requests, 1 fault, `Timely = FALSE`; card, webhook, close, storno, delete | with every claim expiring at any time: an order is paid once, one refund per order and fault |
| `cs_registers` | 2 registers with a session each, 1 order, 2 requests, 1 fault, fairness | a pending order completed at two registers is counted once; whatever dies, the claims of the sessions give way |
| `cs_twice` | 1 order, register and webhook | **violated**: an order is paid by the webhook and again at the register |
| `st_races` | 1 product, 1 ingredient, 2 orders (one takes 2 + 1 units, the other 1), 1 editor, 2 edits or crashes | units are conserved and recorded; at rest no quantity is negative and flags follow the stock |
| `st_flags` | the same | **violated**: the +/- control leaves `isSoldOut` on a product with stock |
| `service` | `PrintQueue` with 1 clerk and 1 fault; `StockRealtime` with 1 register, 3 streams, 1 outage; `DishTickets` with a monitor and a console of one place each, 2 marks | liveness: held tickets are drained, interrupted ones reported, leases come free; registers and kitchen screens end with what is true |
| `back_office` | ten small instances, see below | the safety of all the other components, and that a restore implements `AtomicRestore` |
| `back_office_restore` | 2 collections, 2 writes of the shop | **violated**: a failed restore loses the collection it had set aside |

Every property of a passing run has a mutant in `PROJECT.json`: a plausible bug in the code (a
dropped filter, a missing reset, a wrong counter) under which the same run finds the property
violated. The mutated definitions stand next to the ones they replace, marked `mutant`.

Bounds, all of them constants: `MaxFaults`, `MaxSends`, `MaxEvents`, `MaxStock` and the like,
and the sizes of the sets. Two requests and the poller are enough for every race listed of the
queue: each involves two holders of one document, and a third (a crashed one) is represented by the
claims it left. `MaxSends` is more than `MaxFaults + 1`, so that a ticket can be sent once more than its faults
excuse. Two faults let a sheet that got no answer meet a crash, or one lost outcome another. Two orders are the least for the
loops over a session's orders to stop half way, two entities the least for a rollback or a return to. Elsewhere one crash
is allowed at any step; a second one meets the same claims. Tokens are fresh until no document or request mentions them,
so few are needed. Clerks, requests and tokens are interchangeable (symmetry); runs with
liveness use none.

`back_office` keeps each component small, and what it leaves out on purpose is in `MCBackOffice`:

* *numbers*: two orders and two requests; the first order is created before the second, which
  has one ticket. Three numbers are enough for two orders to meet and for one to grow.
* *backup*: two collections and the uploads, one upset (a failure, a write of the shop, the death of the
  process), two bundles of the shop, a retention of one; what is restored has the settings of a backup under way
  or of one that names the first bundle; the policy is saved before the first backup, or while the settings are away.
  With two writes the promise is broken: that is `back_office_restore`.
* *documents*: one document of each kind and two printers, two editors, two edits; *copies*: export,
  import and clone with one edit and one mishap. Edits are not interleaved with the import itself, which writes
  into an event of its own.
* *settings*: two events, two images, two saves, two files: a logo can be replaced.
* *sales*: carts of three lines, then a second and smaller order, one edit of the catalogue, closing or
  new day after the first; an order stored before discounts had components.
* *register*: three taps and two requests, or two and a hitch (a lost answer, an edit, a closed session, the
  order completed elsewhere), from three opening states of the server.
* *printing*: one order while the catalogue is edited, or two requests with a failing printer; of two jams (a failed
  send or write, a taken lease) the second strikes a send of the queue, of a single order, or a retry.
* *menu*: one edit after a page was opened; or two tabs and a lost answer.
* *failures*: four sheets of two printers, one automatic retry, and three of the seven requests,
  switches and faults the bounds leave. Two faults let the queue break twice at one sheet.

Fairness. A request under way goes on, timers fire, the scheduler's `setInterval` keeps firing and
time passes; nothing is assumed of people starting anything. A printer in `Online` answers
eventually if a drain tries again and again (strong fairness of `SendOk`), any other need not.
`Tick` is strongly fair, because a timely holder only delays it. `HeldIsDrained` asks in addition
that operators eventually leave the queue alone: a register that keeps claiming the lease may
starve the poller, as in the code. A browser's stream connects or errs, a fetch is answered;
`ScreensFollow` holds where fetches eventually stop failing, as a screen polls and shows its last answer.

`CHECK_DEADLOCK FALSE` in all but `PrintQueue`: an instance ends when its orders are settled or its
bounds are used up.

## 4. What is proved

The modules of proofs hold for every value of the constants that satisfies the `ASSUME`s of the
modules: those say what kind of set each constant is, that marks are different from values, that
the lease is a positive number of ticks. A hypothesis beyond that is part of the theorem's
statement and explained here.

`PrintQueueProofs`. `TypeInv` (types, and what an actor at work points to) is inductive on its own and
gives `TypeCorrect` and `LeasesAreYielded`, timely or not. The rest assumes `Timely`. `ClaimsAreKept` says that
an actor's lease and its claim on a job are still its own. It is not inductive: a recovery might
take the job of a running owner if the job still carried the leftovers of an earlier state, and
two owners of one job could take it from each other. `KInv` therefore adds that no job has such
leftovers (`CleanJobs`), that tokens identify actors and no two actors own one job
(`OwnersDiffer`). From it follow `ClaimsKept`, `MutualExclusion`, `FailedRetryable` and `SentStays`. `IInv` adds
that while an actor that has checked the backlog is at work no job of that printer is queued
and claimed (`QueueIsFree`), and that a job with one sheet more than the faults excuse is
`SENT` or about to be recorded (`SendsCounted`): it gives `BacklogComesFirst` and `DuplicatesNeedFaults`. A sheet
without an answer and a lost outcome are faults, so what is proved is that a job comes out at most once more than
things went wrong, whatever retries, holds, recoveries and drains do meanwhile.
`SentMeansPrinted` needs no timely holder: what a late sender writes by `_id` alone may be wrong about
the claim, but it has its answer (`AnswerInv`).

`StockOperationsProofs`. `UnitsAreReal` relates one shelf to the ledger at every step. It needs types
(a decrement by a demand that is a natural number, adjustments that are) and one fact about
a request in the middle: the value a clamp compares with is negative (`Clamps`), so that resetting
it to zero takes no unit away. With that, `IInv` is inductive: one lemma per action, built on
three about the parts they share (`Takes`, `Adds`, `Throws`). It gives `TypeCorrect` and `UnitsConserved`.
`RestIsSound` is about the end of all requests, and its invariant about the way there. `RestInv` names
for each quantity below zero the request whose clamp will find that very value (`Covers`), for each
flag that is not what the quantity calls for the request that will set it (`Flagged`), and what a
request has left to take or to return (`Plans`): a rollback that restored the products already and has
forgotten whose flags it was to set has none to set.

`BackOfficeProofs`. `EventsAreUsable` needs to know what a save in the middle can still do.
`SettingsInv` says which event an activation under way will write and that no other is active
(`OneActive`, until two activations overlap), that logos are on the disk and shared only by clones
(`Logos`), that the image a save brings is on the disk and nobody else's (`NewImages`), and that the
one it will delete is no event's any more (`OldImages`). It gives `EventsStayUsable`.
`ReferencesStay` and `ImportsStayWhole` start from any event whose documents are as the forms make them
and refer to documents it has (`Intact`, which an `ASSUME` of `MCBackOffice` finds true of the event of the
runs). `DocumentsInv` says what a document of each collection may refer to (`Fit`), which fields a deletion has still to
go through (`Awaits`): no document that goes with another is referred to by those (`Targets`). Of a copy it says
that what was made is there and refers to what was made (`CopyHolds`), and of an import which documents
have arrived at each stage, with which references (`ImportHolds`). An import that throws does so
for a reference its bundle cannot resolve, because a collection comes after those it refers to (`Precedes`).

For `RestoreImplementsPromise`, the refinement of `AtomicRestore`, the invariant
`RestoreInv` says at every step of a restore, and for every name, where what the name held before is
to be found: still in place (`Unmoved`, `Pending`) or set aside (`Moved`, `Swapped`), until every name is
swapped. Then each step is shown to stutter or to be a step of the promise. The hypothesis
`OneUpset` allows one failure, one write of the shop or one death of the process: with two writes the
promise is broken for the collections (§5); for the uploads it promises nothing when a restore fails, because one
failure is enough to lose them. `ArchivesStayWhole` has no such hypothesis: `BackupInv` says that no backup reads
while a restore is at work, what a reading backup has seen so far, which archives retention
may take, and that a restore leaves the settings, moves them aside, or puts there those of a bundle, in
which no backup has reported yet.

`BackOfficeProofs` has the numbers of the dishes too. An order has several lists of numbers: that of its document and those of the
requests that have read it and will write it back. `DishInv` says that lists of different orders have no
number in common and that the counter has not reached any (`NumbersOK`), and that a completion whose
version is still the document's has read the numbers the document has (`ReadsOK`). It
gives `NumbersStayUnique` and the action property `NumbersStayKept`.

`FailedPrintsProofs`. `SheetsStayAccounted`. `PrintsInv` says of the paper that a job a hand has made its own
may still come out once (`Own`), and that a lane has not touched what comes after its first job (`Fresh`); that the
message comes when the lanes are at rest and is busy as long as a request of the clerk's is (`NoticeOK`); and of that
request, that it is for one printer of the message, and what it has not failed at (`ClerkOK`): until a job fails again
it has before it every job missing there, so that none is left when it says so. All that the hands do to a
job is of one form (`Turns`), and what the office, the queue and the message do never makes more jobs missing
(`Settles`): a job the queue gives up is `FAILED`, but it is the queue's and was the clerk's choice, and the
message does not list it. The paper is bounded by what was asked for and what strayed, `out <= asked + stray`, and
a job that is `SENT` is on paper. Hypothesis `Batches`: the printers of the kitchen print nothing else. The forms see to it when a register
is given its printer, and §5 says when it fails. That the lanes have a first job takes well-founded
induction on the natural numbers, which the library states for sets (`LeastJob`).

`CashSessionProofs`, `CashSessionBooksProofs`, `CashSessionClosingProofs`, `CashSessionStockProofs`. `TypeOK` is not inductive: whether a write
yields a document depends on which handler is at the step, which order and session it holds and
whether the order is written already. `Base` adds that, and gives `TypeCorrect`. On it stand, each
with an invariant of its own:

* `RefundsStayFew`. `RefundInv`: a storno is alone with its order, which its lock keeps `IN_PROGRESS`
  (`OneStorno`), and an order not known to be refunded has had at most as many refunds as there were
  faults, whether nobody is at it (`Unspent`) or a storno is about to ask (`Spending`). No hypothesis: the lock
  is never taken over.
* `OrdersArePaidOnce`, `BooksStayDisjoint`. `BookInv`: an order not yet paid has no payment (`Unpaid`), a completion
  that can still be written has read it unpaid (`Unread`, by the document's version), and an order
  in a summary, or in that of a close about to be written, is paid, of that session and in no other summary
  (`BookedOnce`). Hypothesis `OneWay`: an instance does not finish pending orders both at a register and by
  SumUp. That is the race of `cs_twice`, where the webhook leaves the version alone; either one
  alone is safe, at any number of registers and deliveries, and whether claims expire early or not.
* `ClosedBooksMissNothing`. The invariant `ClosedInv`: a payment that has claimed its session holds it, and the
  session is open without a transition; a transition holds its session under its own token
  (`Held`); a delivery works for the session its order waits in (`HookSes`); a close about to be
  written has counted all that is paid (`Counted`). Hypothesis `Timely`: a claim outlasts the request that
  holds it. With claims that expire under a running payment the summary may miss it, and
  nothing in the code prevents that but the length of the lease.
* `TestBooksGiveBack`, under the same hypothesis and on top of `ClosedInv`. A transition moves the stock of the orders
  it has listed and then settles the session, so the invariant has to say that nothing is paid or moved behind
  its back. `ReadInv`: of an order that is paid, but by SumUp, no completion is left whose save could still
  land, for the version it read is gone (`Overtaken`), and a listed order stays so (`Fixed`). `TestInv`: what each session is entitled to at every stage (`Sound`: an
  open session has its stock taken, unless a TEST session is being closed, which needs every card payment
  settled or refunded), and what each request under way has checked and how far it is with its list
  (`Duty`: at "claim" the whole list is still to be moved, at "move" what is left of it, after it nothing).
  A step of one request keeps what the others know, because it only shrinks and never stirs the paid
  orders of a session held by somebody else (`Leaves`: `Shrinks`, `Steady`).
* `StockStaysMatched`. The invariant `StockInv` keeps a ledger of every unit at every step (`Ledger`): an order has
  taken what its document names, corrected by the marks of a transition or storno that is half done, and what
  a running payment carries. That is inductive only with what each request knows: a payment takes a unit
  once, for an order not yet paid, and one delivery is at an order (`AllCharging`); who holds an order's stock
  and how far it is with it (`AllWorking`); what a mark means once its request is gone, and that the tokens
  of two sessions differ (`AllMarked`, `Apart`); what a transition has claimed of its session's orders, that a close
  which has claimed any cannot be called off, and that a session being deleted has given everything back
  (`AllGiven`). Hypotheses: `Timely`, as above, and no registers completing pending orders. Two that complete the same
  public order both hold its units until one save fails, because `order.save()` is guarded by a version and not
  by a claim, so the property is false in between; `cs_timely` checks it without that operation too.

Only model-checked, and why:

* `HeldIsDrained`, `LiveIsReported`, `LeaseComesFree`, `ScreensCatchUp`, `ScreensFollow`, `SessionsComeFree`: liveness under
  fairness is out of the prover's reach.
* `OutIsRecorded`, `BooksBalance`, `QueueCoversOrders`, `EveryDishHasItsTicket`: sums and lists built by folds over
  data. What a fold computes for every input takes induction over data, which the provers cannot do.
* `ChargedOnceAsAsked`, `SheetsStayTogether`, `SentAsShown`: they rest on those operators, or on modules that do.

## 5. Where the code and its documents part

Each of these is a run that finds a property violated; `PROJECT.json` quotes the line that promises it.

* `pq_orphan`: `deletePrinterAction` checks the backlog and deletes in two steps. The lease is free
  in between, and a register may hold its failed ticket there. Nothing drains it afterwards.
* `cs_twice`: `completePendingOrderPayment` reads a pending order, claims the session and saves.
  A webhook that completes the order in between is overwritten: two payments, two decrements.
* `st_flags`: the flag of the +/- control is written with a pipeline update without
  `updatePipeline: true`, which this version of Mongoose refuses; `syncSoldOutFlags` passes the option.
* `back_office_restore`: when a second write of the shop lands inside the catch of
  `activateStagedCollections`, the rename that should bring a collection back throws; the swaps made before
  stay, and the cleanup drops the only copy of the collection set aside.

Observations of the models, which no run claims:

* Sessions and orders. A storno that dies after its lock stays `IN_PROGRESS`; a crash between the decrement and
  `Order.create` loses the units; a storno after closing leaves the stored sums as they were.
* Stock. A return between an overridden decrement and its clamp leaves a negative quantity (the entity
  is then in `drifted`).
* Printing. A send that times out is not cancelled, so a drain prints the ticket again, and again while the
  printer answers late; a job the queue gives up for good is not in the register's message, which the clerk may
  have closed. Retries go past the chain of sends of an address, and a crash loses the chain; a product
  deleted before an order is routed is not printed; two overlapping routes print a photo twice, and a retried
  photo does not set `printedAt`; `updatePrinter` may turn a category's printer into a `CASHIER` one, and a
  register's into a `KITCHEN` one: when a hold at such a printer succeeds and its lookup fails, the message drops the
  printer with the receipts that are still failed. A job claimed by a
  retry that died is not listed, and the office reads "all sent", until its claim is stale.
* Backups. When the first rename of `activateStagedUploads` fails, its catch removes the live directory without a copy
  set aside: a restore that reports an error has deleted the shop's uploads, which `docs/architecture-plan.md:93`
  has it preserve. `AtomicRestore` allows that: the files are as they were, or lost. A restore brings back the policy and the reports of the day of its bundle: a last bundle that
  retention has deleted, a backup that is `RUNNING`, a periodic backup that is on again.
* Events. A deleted product leaves menu parts dangling, and later exports cannot be imported; the
  six queries of an export are no snapshot; `updateProduct` may turn a part of a menu into a `FIXED_MENU`.
  A clone shares the files of its source: replacing the source's logo deletes the clone's. Two overlapping
  activations leave two active events. Images restored by an import that fails later stay on the disk.
* Money. A free line has its quantity as weight in the division of a discounted total, so that it is
  credited cents of the others.
* Pages. Loading a pending order drops its discounts. Orders may be sent to an event that is no longer
  active (only archived ones are refused). A stored cart keeps its prices, and a choice that was removed
  is dropped from it silently; a success clears whatever cart is stored, another tab's too.

## 6. What is not modelled

Whatever `PROJECT.json` lists as `not_modelled`, with the reason. Inside the modelled parts: the rounding
of JavaScript's floating-point percentages, the layout of documents, the resolution of daylight
saving, receipts, reprints and printed closing summaries, rate limits and access, archived events in
the poller, failed SumUp checkouts, the customer's summary page and its access token, the random order
codes, the check digit of a barcode, a sheet whose log could not be created (`printComanda` then does not send one for the kitchen
and sends any other), the register's stock mode and its choice of payment methods, the
30 rows of the ingredient list. MongoDB is taken as sequentially consistent per document, which is what
a single node without secondary reads gives. The two halves of the stock are checked apart:
`CashSession` has the claims with one unit per entity, none of them unlimited or deleted (`StockMove` leaves out the skip of
those, `cash-session-stock.ts:134-136`), `StockOperations` the quantities, those entities, and one request per
order. `cs_timely` has no webhook: deliveries against closings are `cs_terminal`'s and the theorem's.

## 7. Plan

Every module of the plan is written and checked, and the invariants within the provers' reach are proved. What is
only model-checked is listed in §4, with the reason.
