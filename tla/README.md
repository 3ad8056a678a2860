# ME Warehouse Control: specifications

TLA+ specifications of the core of this repository, TLC configurations that check them
on small instances, and TLAPS proofs of what matters most about the task queue and the
webhook dispatcher.

- [The system](#the-system)
- [Modules](#modules)
- [What the runs check](#what-the-runs-check)
- [Bounds](#bounds)
- [Fairness and waiting](#fairness-and-waiting)
- [What is proved](#what-is-proved)
- [Where code and documents disagree](#where-code-and-documents-disagree)
- [What is not modelled](#what-is-not-modelled)
- [Plan](#plan)

`PROJECT.json` lists, for every definition that models code, the lines it models; for
every run its properties; for every property a wrong variant of one definition that
violates it; and the hazards of the code with the properties that would catch them.

## The system

The server (`api/`, Flask on PostgreSQL, gunicorn workers, Celery jobs, one webhook
dispatcher process) is a warehouse management system. Every request handler runs in
one database transaction (`with_db`: commit at the end of the handler, rollback on any
error) under READ COMMITTED.

| Component | State it keeps | Operations | What makes it correct |
|---|---|---|---|
| **Work tasks** `services/work_control_service.py`, `routes/work_control.py`, migration 082 | `work_batches` (Pack Notes), `work_tasks`, `work_task_events` | create Pack Note and tasks, claim next, verify scan, START / PAUSE / RESUME / COMPLETE / CANCEL | a task has one employee for ever; an employee one task at a time; picker and packer differ; nothing starts without a scan; times add up; a Pack Note ends with its last task |
| **Work dispatch** `services/work_dispatch_service.py`, migration 086 | `work_worker_status`, `work_tasks.assigned_to` | automatic dispatch, availability, assignment by hand | assignments follow the rule, name somebody on duty, leave nothing that could be assigned |
| **Work receiving** `routes/work_control.py` | `receiving_drafts`, lines, `work_evidence` | create draft, upload photo, submit (completes the task), review (rejection inserts a recount) | only finished, photographed counts reach the stock clerk; one recount per rejection |
| **Work errors** `routes/work_control.py` | `work_errors` | report, review, efficiency report | a mistake is charged to the one who did the stage |
| **Webhook dispatcher** `services/webhook_dispatcher/` | `webhook_deliveries`, subscription cursors and status, in-memory wake-ups and rate tokens | deliver in order, retry, dead-letter, reset at boot, reclaim stale rows, pause and resume, replay, delete, purge, clean up | events are first sent in order; nothing taken up is forgotten; a pause stops the sending; an event that may be delivered is settled in the end |
| **Integration events, polling, snapshots** | `integration_events`, consumer-group cursors, snapshot scans | emit, poll, acknowledge, page | a cursor never passes an event that is not visible yet |
| **Inventory** `services/inventory_service.py` | `inventory`: on hand and allocated, per item and bin | the functions every workflow moves stock with | no row promises more than it holds |
| **Sales orders, returns, packing** `services/sales_order_service.py`, `routes/admin/admin_orders.py`, `routes/packing.py` | `sales_orders`, their lines with five quantities, returns and their receipts | create with reservation, allocate, edit lines, cancel, revert, pick at the desk, short-close into a backorder, pack, return | whatever is undone gives back what was taken, once |
| **Picking** `services/picking_service.py` | `pick_batches`, `pick_tasks`, wave breakdowns | batch, wave, confirm, short, complete, cancel | no line is walked for twice; units picked are on a line |
| **Shipping, dock stations** `services/shipping_service.py`, `routes/shipping.py`, `routes/dockd.py` | `item_fulfillments`, `dockd_idempotency` | four ways to ship, void | nothing ships silently short; a repeated request ships once |
| **Point of sale** `routes/pos.py` | sales orders with an idempotency key, refund orders | check out, refund, ingest reference orders | refunds never exceed the sale; a retried call acts once |
| **Receiving, put-away, counts** `routes/receiving.py`, `putaway.py`, `inventory.py`, `admin_users.py`, `admin_warehouse.py` | purchase orders, receipts, cycle counts, adjustments | receive, un-receive, move, transfer, count, review, adjust | stock is accounted for; backorders are released by every inflow |
| **Transfer orders** `services/transfer_order_service.py`, `admin_transfer_orders.py` | orders, lines, approvals, picking sessions | import, pick, submit, approve, short-close, cancel | what arrives is what was approved; it closes settled |
| **Inbound documents** `services/inbound_service.py`, `routes/inbound.py` | `inbound_*` rows, cross-system mappings | post a version of a document, set a quantity | replays and stale versions change nothing; the newest is in force |
| **Connectors, sync state** | `sync_state`, circuit breaker, rate limiter | run, finish, fail a sync | one run at a time owns a sync |
| **Sessions, tokens, permissions** | users, tokens, token cache | sign in, revoke | a revoked token stops working within the cache's bound |
| **Audit chain** migration 047 | `audit_log`, `audit_log_chain_head` | append | one chain, serialised by a lock held to commit |
| **Clients** `admin/`, `mobile/` | none that is authoritative | call the API | their requests are inputs |

Interactions of the parts modelled here: handlers of one component call the services of
the others in the same transaction. `create_batch`, `create_task` without an assignee,
an availability change and an unassignment end with `auto_dispatch`. A completion, and
the submission of a receiving draft, may end with `claim_next_task`. A rejected draft
inserts a task. A mistake case reads who claimed the tasks. All of them append to the
audit chain, so all of them wait for one lock.

Business handlers insert integration events in their own transactions. The dispatcher
process reads them by the cursor of each subscription and shares the tables of deliveries
and subscriptions with administrators and the retention job; messages over Redis tell it
of pauses and deletions, and a refresh every minute makes up for lost ones.

The warehouse's workflows meet in the tables of stock and orders: order entry, the till,
batches and the desk reserve units of the same rows; picks and shipments take them;
cancellations, reverts, voids, refunds and returns give them back; receipts, counts,
transfers and an upstream system change what is there, and release the backorders that
wait for it. Nothing but row locks, guards on status columns and a few unique keys
keeps these apart.

The hard behaviours:

- handhelds that ask for work at once (`FOR UPDATE SKIP LOCKED`, the unique index on
  active tasks), dispatches and supervisors that rewrite the same rows;
- checks that read other rows without locking them (the other stage of a Pack Note,
  availability, grants), under READ COMMITTED;
- transactions that take row locks, index waits and the audit lock in different orders;
- `NOW()`, which is the time a transaction began and not the time it writes;
- long sequences of legal requests by several actors whose combined effect must still
  keep picker and packer apart, hold times together and finish Pack Notes;
- quantities kept in several places at once (shelf, reservation, task, line, receipt,
  approval), which every handler that undoes another must give back exactly once, from
  every status and along every door;
- handlers that read without a lock and write what they computed (picks, waves, receipt
  cancellation, count reviews, inter-warehouse transfers, packing), among others that lock;
- requests repeated by tills, dock stations and upstream systems, and documents whose
  versions arrive in another order;
- a delivery that commits before and after its HTTP call, with crashes, evictions,
  administrators and reclaims in between, and events that commit in another order than
  the one in which they took their ids.

## Modules

| Module | Role |
|---|---|
| `ClaimOnce` | Abstract specification: what the queue promises the handhelds. Each task is taken at most once, by somebody with nothing in hand, and finished at most once. |
| `WorkTasks` | The queue, its life cycle, dispatch, availability, assignment and grants. One handler = one transaction = one action, its trailing dispatch or claim included. |
| `WorkDispatch` | `auto_dispatch` as the code's loop with running totals, against the rule `WorkTasks` states. |
| `WorkReceiving` | Extends `WorkTasks` by receiving drafts, photos, submission, review and recounts. |
| `WorkErrors` | Extends `WorkTasks` by mistake cases and the counts of the efficiency report. |
| `WorkClaim` | The same transactions statement by statement: snapshots, row locks, `SKIP LOCKED`, the unique index, the audit lock, rollback and deadlock detection. |
| `WorkTasksProofs`, `WorkClaimProofs` | Theorems about `WorkTasks` and `WorkClaim`. |
| `WorkControlProofs` | Theorems about `WorkDispatch`, `WorkReceiving` and `WorkErrors`. |
| `EventLog` | The outbox `integration_events`: ids drawn at INSERT, `visible_at` stamped at COMMIT, the two-second floor. |
| `OrderedDelivery` | Abstract specification: what the dispatcher promises a subscriber about order. |
| `WebhookDelivery` | Extends `EventLog` by one subscription: its rows, its worker, the process around it, its administrators and the retention job. |
| `WebhookDeliveryProofs` | Theorems about `WebhookDelivery`. |
| `Stock` | The inventory table and the functions that move, reserve and release stock. |
| `Orders` | Extends `Stock` by the tables of the sales side. |
| `Picking` | Extends `Orders` by batches and waves. |
| `SalesOrders` | Extends `Picking` by the life of an order outside the pick walk, and returns. |
| `Shipping` | Extends `SalesOrders` by packing, the four ways to ship, void, dock stations. |
| `PointOfSale` | Extends `SalesOrders` by the till. |
| `Warehouse` | Composes `Shipping` and `PointOfSale`: a working day at the outbound desks. |
| `Stockroom` | Extends `SalesOrders` by purchase orders, receipts, moves, counts and adjustments. |
| `TransferOrders` | Extends `Stock` by transfer orders and their approvals. |
| `InboundDocuments` | Extends `Stockroom` by the posts of an upstream system. |
| `Stockyard` | Composes `TransferOrders` and `InboundDocuments`: a working day at the inbound desks. |
| `WarehouseProofs`, `StockyardProofs` | Theorems about `Warehouse` and `Stockyard`. |
| `WarehouseUnits` | Extends `WarehouseProofs` by the theorem that no units are lost. |
| `Sums` | `SELECT SUM`: a quantity added up over the rows of a set, as the number of their units. |
| `RowFacts` | Lemmas about the latest of some rows and about sums over rows. |
| `MC*` | Instances for TLC. |

### How WorkTasks corresponds to the code

A row of `work_tasks` is split over functions of its id: `job` (type, batch, priority:
fixed by the INSERT), `status`, `assigned_to`, `claimed_by`, `timing` (the six time
columns, in seconds) and `verified` (who has a VERIFIED row in `work_task_events`).
`batch_status`, `availability`, `grants` and the clock `now` complete the state. A row
that has not been inserted has status `"NONE"`. Ids are a sequence and nothing sets
`available_at`, so `ORDER BY priority DESC, available_at, task_id` is `Before`.

| Action | Handler |
|---|---|
| `create_batch`, `create_task` | POST /batches, POST /tasks |
| `claim_next` | POST /tasks/claim-next (`claim_next_task`, with any set of rows locked by others) |
| `verify_task_scan` | POST /tasks/{id}/verify-scan |
| `START` ... `CANCEL` | POST /tasks/{id}/transition (`transition_task`); COMPLETE optionally claims the next task |
| `run_dispatch`, `set_worker_availability`, `assign_task` | /dispatch/run, /dispatch/workers/{id}/availability, /tasks/{id}/assignment |
| `new_work_day` | availability rows are dated: on a new day everybody counts as AVAILABLE |
| `update_user` | PUT /admin/users/{id}, as far as it changes function grants |
| `Tick` | time |

A transaction that waited for a lock writes a `NOW()` of the past: `Stamps` is the set
of times up to `MaxSkew` before the commit, and every transition picks one.

`auto_dispatch` is stated as a rule: an assignment of the unowned tasks in which each
task's employee is the best candidate after the choices for the tasks before it.
`WorkDispatch` computes the loop with its running minutes, counts and counterpart sets,
and `DispatchIsLoop` says that both agree in every reachable state.

### How WorkClaim corresponds to the code

`db` is what is committed; `draft` holds the uncommitted rows, each under the lock of
one transaction (`holder`); `todo[r]` is the list of statements request `r` has still
to run, in the order of its handler; `memo[r]` is what it has read and still uses. A
statement sees the committed rows and its own writes. `claim_next_task`'s query is two
steps, as in PostgreSQL: rows are sorted by a snapshot, then locked, passing over
locked rows and checking rewritten ones again. Statements that raise roll the
transaction back; a cycle of waiting transactions loses one of its members.

The starting states are all the rows a running warehouse may hold (`StartRows`: the
invariants proved of `WorkTasks`), so a few overlapping requests meet every situation.

### How WebhookDelivery corresponds to the code

One subscription stands for all: workers of different subscriptions share no row. `rows`
is `webhook_deliveries` by id, `due` the pending rows whose `scheduled_at` has come, in
its order; `worker` is the thread with what `deliver_one` has in its local variables,
`notices` the messages that evict on their way to the process. `tried` and `late_posts`
are histories for the properties.

| Action | Code |
|---|---|
| `read_subscription`, `claim_pending` / `claim_fresh` / `back_off`, `send`, `record_success` / `record_dead_letter` / `record_failure` | `deliver_one`, cut at its commits and at the HTTP call |
| `worker_error` | an exception in a cycle: rollback, the thread goes on |
| `worker_exit`, `_run_fanout`, `_refresh_active_subscriptions` | eviction closes the worker's connection; the thread notices at its next statement; the refresh starts and stops workers |
| `crash`, `reset_orphaned_in_flight` | the process dies and starts again, the reset may fail and is then skipped |
| `reclaim_stale_in_flight` | the periodic reclaim of rows in flight; no relation of its age limit to the delivery's time is assumed |
| `retry_due` | time passes the `scheduled_at` of a retry |
| `update_webhook`, `soft_delete`, `purge`, `replay_single`, `replay_batch` | the administrators' endpoints |
| `cleanup_webhook_deliveries` | the retention job |

Decisions worth knowing:

- A worker polls every two seconds, so an idle worker may always begin a cycle; the
  wake-ups, which only make it earlier, are left out.
- An evicted thread ends within the ten seconds of its HTTP call, the next worker is
  started by a refresh a minute apart: one thread at a time is modelled. One dispatcher
  process is modelled, as the deployment runs one.
- The answer of the consumer is accepted, transient or permanent, chosen freely; a
  time-out is transient.
- `PendingCeiling` and `DlqCeiling` count rows as `_maybe_auto_pause` does.

### How the warehouse modules correspond to the code

A service function takes the database session; here it takes the record `db` of the
tables it touches and returns it changed, so that `Cancelled(Db, o)` or
`full_revert_batch(db, B)` can be called by several handlers as in the code, and an action
commits one such record. Loops over rows (`for inv in rows: take = min(remaining, ...)`)
are `Walk`: what is taken from a bin is what the bins before it, in the order of the
query, left of the need. `Taken` does the same for the two nested loops of the
allocation, as the overlap of two intervals.

| State | Tables |
|---|---|
| `inventory[i, b]` | `inventory`: `on_hand`, `allocated`; a row that does not exist is a row of zeros |
| `order`, `line`, `batch`, `task` | `sales_orders`, `sales_order_lines`, `pick_batches` with `pick_batch_orders`, `pick_tasks` with `wave_pick_breakdown` |
| `request[r]` | what a request in flight has read without a lock and will use |
| `shipment`, `announced`, `dockd` | `item_fulfillments`, emitted `ship.confirmed` events, `dockd_idempotency` |
| `sale`, `refunds` | the checkout behind an order of the till, and the refund orders (rows of `sales_orders` with negative lines) |
| `purchase`, `poline`, `goods`, `count`, `review` | purchase orders and lines, `item_receipts`, `cycle_counts`, `inventory_adjustments` under review |
| `landing` | transactions that have put units on a shelf, looked for backorders and not committed: the rows they hold and what they found |
| `adjustment`, `receipt` | net of the approved adjustments of an item; receipts of returns |
| `transfer`, `toline`, `approval`, `totask`, `tobatch`, `arrived` | transfer orders, lines, approvals with their snapshots, their pick tasks and batches, units credited to the destination |
| `inbound`, `canonical` | the `inbound_*` rows, `cross_system_mappings` |

A handler that locks its order (`FOR UPDATE`) before it looks is one step. Those that
look first are two or more, and others come in between:

| Steps | What is read without a lock |
|---|---|
| `BeginCreate`, for a wave `PlanWave`, `FinishCreate` / `RefuseCreate` | status and batches of the orders, standing reservations, and the needs of their lines; a wave that has its inventory rows plans, looks at the batches again, and commits later |
| `BeginReceipt`, `BeginAdjustment`, `BeginUpdate`, `LandTransfer`, `LandReview`, each before the step that commits | all pickable bins and the waiting backorders, by the look after units have landed |
| `LoadTask`, `ApplyPick` | the pick task that is confirmed or shorted |
| `BeginVerify`, `FinishVerify` | `quantity_packed`, written as the value read plus the scan |
| `BeginReceive`, `FinishReceive` | the line and the earlier receipt of a return |
| `BeginCancelReceiving`, `FinishCancelReceiving` | the receipt |
| `BeginTransfer`, `FinishTransfer`; `BeginReview`, `FinishReview` | the units on the shelf |
| `LoadToTask`, `confirm_to_pick` / `short_to_pick` | the task of a transfer order |
| `BeginPost`, `FinishSalesPost` / `FinishPurchasePost` | the lines that a post replaces |

Between its plan and its commit a wave holds rows (`Held`), and so does a landing from its
look on. Nobody else writes them: for `batch` and `wave` the guard `RowsFree` says so, for
everybody else the conjuncts `PlannedRowsKept` and `LandingRowsKept` of `Next`. Rows
without units count as held by a wave although the code locks none there: what
others do to them may as well be done after the wave's commit.

`desk` is one working day: which operations happen, the orders, shelves and waiting
backorders of the morning, who picks, and how many requests may be in flight. The modules
let everything happen with everything; the instances choose the days, since all
operations on one instance are out of reach. So a property is checked on every day that
an `MC` module lists, and what one day cannot show another does.

Choices worth knowing:

- An order, a purchase order, a transfer order or a cart has at most one line for an
  item; keys are numbers, so "oldest first" is the order of numbers; lots are left out.
- A request of the desk, of receiving or of a review handles one line, receipt or
  adjustment; the code loops over a list of them in one transaction.
- A line that was deleted stays `"gone"` and its tasks lose it (`ON DELETE SET NULL`);
  `lost` remembers for which orders a wave's breakdown has no line any more.
- A new order of an upstream system may be held for FRAUD_REVIEW: the heuristic is a free
  choice. Versions are compared as numbers, whatever the mapping's `version_compare`.
- The keys of a till are numbered as they are drawn, which is a symmetry.
- Refund orders are not orders of the desk: no button there handles one.

## What the runs check

| Run | Question | Properties |
|---|---|---|
| `dispatch` | Supervisors create, dispatch, assign, change availability and grants while two employees claim and an administrator cancels. | `CrossCheck`, `AssigneesOnDuty`, `DispatchIsLoop`, `DispatchExhaustive` |
| `lifecycle` | The whole life of a Pack Note's two tasks and a receipt, with completions that claim, cancellations, breaks, changes of grants ("floor"); and of one task while transactions that waited stamp earlier times ("clock"). | `OneActivePerWorker`, `BatchAgrees`, `ScanGate`, `TypeOK` (no negative durations), `TimeAccounting`, `ClocksAgree`, `AttributionStable`, `ClaimsOnce`, `ClaimsGranted` |
| `requests` | Two overlapping requests, statement by statement, over all starting states: of the handhelds (claims, completions, completions that claim, cancellations) or at the board (claims, dispatches, availability, assignments, returns). | `LastTaskCompletesBatch`, `DeadlocksExplained`, `ClaimsOnce`, `EveryRequestAnswered` |
| `receiving` | Two drafts of two lines over three tasks: two rejected counts, or a rejected recount, with the queue around them. | `ReviewedAreFinished`, `OnlyRecountsWaitOffDuty`, `OneRecountPerRejection` |
| `errors` | Two cases about one Pack Note at any point of its life. | `ChargedForOwnStage` |
| `deliveries` | Two events that commit in any order, two attempts, a crash or a failed transaction, an eviction, reclaims, a replay, pauses, deletion and purge at any point. | `NothingAbandoned`, `OneLiveRow`, `PauseHolds`, `PurgeWaits`, `InOrder` |
| `settlement` | The same without replays, with changes of the filter, under fairness. | `EventuallySettled` |
| `outbound` | Twenty days at the outbound desks. | `UnitsAccounted`, `NeverOverReserved`, `OneWalkPerLine`, `ShippedWhole`, `DockdShipsOnce`, `RefundsAddUp` |
| `inbound` | Seventeen days at the inbound desks. | `TypeOKTransfers` (a line never picks more than it committed), `ReceivedIsReceipted`, `StockAccounted`, `NoBackorderOverlooked`, `ClosedIsSettled`, `ArrivedAsApproved`, `NewestApplied` |
| `hand_assignment`, `stale_availability`, `cursor_hole` | Statements of the documents that the code does not keep. | one property each, violated |

`ClaimsOnce` is checked of the atomic transactions (`WorkTasks`) and of their
interleaved statements (`WorkClaim`). Both are proved. `LastTaskCompletesBatch`
depends on a detail nobody wrote down: the two transitions that end the last two tasks
of a Pack Note lock different rows, and only the audit lock, taken between the UPDATE of
the task and the COUNT of what remains, makes the second one see the first.

`TimeAccounting` bounds the accounted seconds from below by the elapsed ones: time is
never lost, but transactions that overlap may account a second twice. Without skew the
two are equal; that part is in the same property and is proved.

`NothingAbandoned` and `InOrder` rest on one arrangement: a fresh event is taken only
when no row is live, and the row of a settled event and the cursor move in one
transaction. So an event that failed half-way is found again by its row, and never by
the cursor. `EventuallySettled` excludes one case by its premise: a cycle that has read
the subscription under an older filter may still take an event above the one awaited.

`UnitsAccounted` and `StockAccounted` are the two conservation laws. The first says that
no unit is lost: on the shelves and on the lines is at least what was there in the morning
plus returns, refunds, adjustments and the sales of the old system, through every sequence
of picks, cancellations, reverts, voids and short closes. Where nothing counts a unit
twice (`Exact`) it is an equality. The second
follows units from the dock to the shelves, the orders and the other warehouse.

Some properties leave out days on which an operation takes place that breaks them. What
is left out and why:

| Property | Leaves out | Because there |
|---|---|---|
| `UnitsAccounted` | handhelds once a line is deleted (`PicksAstray`); `Unfloored` days | a pick confirmed for a line deleted meanwhile is on no line; a row below zero has given what it had not |
| its equality | handhelds; cancelled orders that go on and are reverted; cancellations with write-offs | a task confirmed twice, by requests that both loaded it, is counted twice; the revert gives back what the cancel already did; a write-off takes what reservations below zero seem to free |
| `NeverOverReserved` | days that cancel orders, pick from batches and take free units at the desk or at a counter (`Unfloored`; no configured day does all three) | an order's cancel gives back its pending tasks' reservations without a floor, see below |
| `OneWalkPerLine` | `create_pick_batch`; orders in two batches of which only one walks for their lines | it has no second look, and two of them (or one and a wave) take the same order; a wave holds no rows for an order that needs nothing more, see below |
| `ShippedWhole` | corrections of the admin desk | a shortage may be acknowledged; an order that counts as shipped may be shipped again, and voided back to SHIPPED with nothing shipped |
| `RefundsAddUp` | comparison with what shipped, on days with short picks, partial shipments, shipments at the desk, line edits or dock stations (`ShipsAsSold`) | what can be refunded is what was sold: a phone order may have shipped short, with or without its shortage acknowledged, its line may be edited or deleted, and a dock's void after a partial refund undoes the shipment |
| `StockAccounted` | inter-warehouse transfers, reviews, two cancellations of one receipt, short picks of transfer orders | lost updates; units struck twice; units that leave the shelf for no line |
| `NewestApplied`, the lines | days on which lines of posted documents are edited by hand (`LinesLeftAlone`) | a short close or an edit of a purchase order writes what the line orders |
| `NoBackorderOverlooked` | moves and put-away, short closes, imports of transfer orders | they release nothing, leave stock elsewhere, or free stock nobody looks at |
| | days with two requests in flight (`desk.hands`) | landings that overlap in different bins do not see each other's units, and both overlook the backorder that they satisfy together, see below |

## Bounds

| Constant | Meaning | Values |
|---|---|---|
| `MaxTasks` | rows of `work_tasks` | 1 to 3: both stages of a Pack Note and another task; a count, its recount and another count |
| `Workers`, `Admins`, `Batches` | model values | one or two employees (the two stages need two), one administrator, one Pack Note |
| `MaxClock`, `MaxSkew` | time | 3 and 1: a pause, a resume and an end at different times, one of them stamped late |
| `BoundedSeconds` (state constraint of `lifecycle`) | accounted seconds | stops where late stamps would let them grow for ever |
| `MaxDrafts`, `LineCounts`, `MaxCases` | drafts, lines of a draft, cases | 2 each; photos are taken until there are enough |
| `Requests` | overlapping transactions | 2 |
| `BatchTypeLists`, `LooseTypes`, `Priorities`, `TypeRequests`, `GrantChoices`, `AvailabilityChoices`, `Programs` | the requests enumerated | chosen per run in the `MC` modules; `EachPairOnce` takes two interchangeable requests in one order, and `ReceiptLast` makes the receipt the third task |
| `MaxEvents` | ids of the outbox | 2: an event and the one that must wait for it, in either order of commit |
| `MaxAttempts` | attempts of a delivery | 2: a first attempt, a retry, the dead letter (the code has 8) |
| `PendingCeiling`, `DlqCeiling` | ceilings | 2 and 1, so that both can be reached |
| `MaxReplays`, `MaxFaults`, `MaxNotices` | rows inserted by replays, crashes and failed transactions, messages in transit | 1 each; no replays in `settlement`, whose graph must be searched for cycles |

| `Items`, `Bins`, `Pickable` | stock | one item, two in the days `TwoLines` and `Together`; a receiving bin and two pickable bins, so that walks split |
| `Orders`, `Batches`, `MaxOrdered`, shelf | orders of one or two units | 3 orders: two of the morning, or one with its backorder, its return or its replacement; units enough for one of them, so that reservations compete |
| `desk.hands`, `desk.batches`, `desk.users` | requests in flight, batches and pickers of a day | two requests where reads without locks meet, else one |
| `MaxShipments`, `TillKeys`, `DockKeys`, `Keys` | shipments of an order, idempotency keys | 2 shipments, so that a void and a repetition happen; 3 keys of a till |
| `Purchases`, `Receipts`, `Counts`, `Transfers`, `MaxTasks`, `MaxApprovals`, `Handhelds` | rows of the inbound side | one document each with two receipts, two counts, two approvals, two handhelds |
| `SalesDocs`, `PurchaseDocs`, `MaxVersion` | documents and versions posted | one each; 3 versions, so that one comes late between two others |
| `MaxChange`, `MaxStock`, `MaxAllocationStep` | size of an adjustment, stock of an item, step of an allocation | 1, 3, 1 |

`outbound` and `inbound` do not check deadlock: a working day may end. All other runs do,
except where their configuration says so.

Two employees and one Pack Note are enough for the properties of a pair of tasks, which
are about two tasks of one Pack Note or two tasks of one employee; what they say for any
number is proved. `EstimatedMinutes` is one number per type, chosen so that employees
tie and differ.

## Fairness and waiting

`WorkTasks`, `WorkReceiving`, `WorkErrors` and the warehouse modules assume no fairness:
employees and supervisors need not act, and no job of the server moves an order on. `WorkClaim` assumes weak fairness of each request: the server
runs the next statement of a request that is not waiting, and PostgreSQL's detector
(`deadlock_timeout`) breaks cycles. No lock timeout is assumed, since no code sets one,
and no fairness among those who wait for a lock. `EveryRequestAnswered` then says that
waits end. Requests are a fixed set, so this is about the order of locks, not about an
endless stream of newcomers.

`FairSpec` of `WebhookDelivery` assumes weak fairness of what runs by itself: the steps
of the worker thread (its calls have time-outs), the minute's refresh, the reclaim timer,
the coming of `scheduled_at`, and the restart of the container. Nothing is assumed of the
consumer's answers, of the delivery of messages, of administrators or of the retention
job. Failures are finitely many (`MaxFaults`): a process that crashes for ever delivers
nothing.

## What is proved

`WorkTasksProofs` proves, for any finite or infinite sets of employees and Pack Notes,
any bound on tasks, any requests and clock bound, from the named assumptions of
`WorkTasks` alone:

1. `RowCorrect`: `RowInv` is inductive. Its parts are `TypeOK`, `RowsAgree` (what the
   columns of a row say about each other: a waiting task is unclaimed, times are only
   written from START on and never lie in the future, ...), `ClocksAgree`,
   `AssigneesOnDuty`, `ScanGate` and `TimeAccounting`. None of the last five is
   inductive alone: for example `TimeAccounting` needs that an IN_PROGRESS task has
   its active clock set and not the other one.
2. `TypeCorrect`, `WaitingAssignmentsKept`, `ScanGateHolds`, `TimeAccounted`,
   `ClocksCorrect` follow from it.
3. `OneActive`: nobody holds two active tasks; `CrossChecked`: picker and packer differ;
   `BatchCorrect`: Pack Note status agrees with its tasks. Each is an induction on top
   of `RowInv`.
4. `AttributionHolds`: the action property, from `RowInv`.
5. `GrantsEnforced` (`ClaimsGranted`): a list of types that is not empty filters, and an
   employee's list holds only what is granted to him, in `claim_next`, which hands on no
   empty list, as in a completion, which claims for the employee whose task it completes.
   So whoever claims what is not granted to him completes a task in the same transaction
   and has no grants at all, or requests send empty lists. It uses that None is not a list.
6. `ClaimsKept`: `WorkTasks` implements `ClaimOnce`; initial states map to initial
   states, and each step to a step or a stutter, using `OneActivePerWorker`.

The steps are one per action; what `auto_dispatch` and `claim_next_task` guarantee is
stated once, as lemmas, and cited by the actions that end with them.

These theorems speak of the queue without receiving drafts. A recount is inserted
ASSIGNED to the counter whatever his availability, so with drafts `AssigneesOnDuty`, and
`RowInv` with it, has exactly that exception, which `OnlyRecountsWaitOffDuty` states.

`WorkControlProofs` therefore starts anew, from the types of the columns (`Columns`):
every step of the queue keeps the job of a row, never reopens a completed one, and leaves
a row waiting for somebody only if he is on duty or has not left (`QueueStep`). On this
`DraftsInv` is inductive, for any number of drafts: drafts are about tasks that exist, and
the three properties of the run `receiving` (`ReviewedFinished`, `RecountedOnce`,
`RecountsAlone`). `OneRecountPerRejection` needs that a recount's number is new, hence in
no other draft, and that a draft under review has none yet. The recount ranks above the
rejected task unless that one has priority 100, and then has 100 too.

For mistake cases it proves `ChargedRightly` (`ChargedForOwnStage`): the cases leave the
queue alone, so `RowInv` and `CrossCheck` stay invariant, and `NamedRightly` says that who
a case names took that stage, because claims and jobs are never rewritten and the latest
claimer is one of the claimers (`RowFacts`).

It also proves that the loop of `auto_dispatch` is the rule by which `WorkTasks` specifies it,
for any number of employees and tasks: `LoopComputesRule` (`DispatchIsLoop`) and `NobodyIdles`
(`DispatchExhaustive`). The queue is an order (`QueueOrder`), so the rule leaves no choice
(`OneDispatch`, by induction along the queue), and each turn of the loop keeps `Given`: what
has been given obeys the rule, and the running minutes, counts and counterpart sets are what
the rule adds up (`Turn`). Of a state this uses only `TypeOK` and `RowsAgree`, which the
columns satisfy too where a handler has written them and its trailing dispatch begins.

`WorkClaimProofs` proves, for any number of employees, tasks, Pack Notes and overlapping
requests, from the assumptions that tasks are finitely many numbers
(`TasksAssumption`), that rows of different tables differ (`NamesAssumption`) and that a
request is what the routes let through (`ProgramsAssumption`):

1. `RowsKept`: `RowsInv` is inductive. It says where each request is in the statements of
   its kind (`Placed`), what it knows there (`Knows`: a claim that is about to write holds
   its row, which is still waiting and rightly assigned; an end holds an active row; ...),
   that a draft differs from what is committed only in rows somebody holds (`Clean`) and
   only by one claim or one end (`Changes`), and that nobody is in two active rows, neither
   among the drafts nor among what is committed, nor in one of each unless one
   transaction holds both (`OneInHand`, the entries of the unique index).
2. `ClaimsKept` (`ClaimsOnce`): a commit that publishes a claim or an end is that step of
   `ClaimOnce`; every other statement is a stutter. It follows from `Changes`: what a
   commit publishes is what the holder changed, and it is legal in what is committed now.
3. `BatchesSettled` (`LastTaskCompletesBatch`). `BatchInv` adds what a request knows about
   Pack Notes: after the audit row, what it sees of them stays true, because everybody
   else who ends a task has to pass that lock (`BatchKnows`). The UPDATE that completes a
   Pack Note and the COUNT before it are both behind the lock.
4. `OnlyKnownDeadlocks` (`DeadlocksExplained`). `WaitsInv` says which locks a request
   holds where it waits: a Pack Note's row only with the audit lock or right before it, a
   row it has rewritten only with the audit lock or on the way to it, and a dispatch that
   has written nothing yet holds only tasks before those it still wants. So in a cycle
   without the two named culprits nobody waits for the audit lock, hence nobody for a
   Pack Note or for the end of a rewritten row; all are dispatches at their row locks, and
   whoever holds the last row waited for would be waiting for a later one.

`WebhookDeliveryProofs` proves, for any number of events, attempts, replays, failures and
messages, any filters and ceilings:

1. `LineCorrect`: `LineInv` is inductive. Its heart is `Line`: above the cursor, an event
   that has a row or was sent has a live row, and all live rows there are for one event,
   the head of the line; at or below the cursor every row was sent. It needs `InHand` (the
   row the worker holds stays live until recorded: a reclaim turns it pending, nothing
   ends it), `CursorRead` (the cursor a cycle has read is still the cursor when it takes
   a fresh event, since nobody else moves it), `PurgedIsEmpty`, and for `OneLiveRow` the
   count of live rows, `FewLive`.
2. `NothingAbandonedHolds`, `PurgeWaitsHolds`, `OneLive` follow from it.
3. `PauseHeld`: an induction on `LateCycle`, which follows the one cycle that may have
   read the status before the pause.
4. `OrderKept`: the dispatcher implements `OrderedDelivery`. A send is a repetition or
   the head of the line, a record settles an event that was sent.

Nothing is used of the order of due rows.

`WarehouseProofs`, `WarehouseUnits` and `StockyardProofs` prove twelve properties of the warehouse for any
number of items, bins, orders, documents, pickers, handhelds and overlapping requests, and
for every `desk`, from named assumptions: bins are numbers, and bins and items finitely
many (`BinsAssumption`); orders are finitely many numbers, and NULL is the key of no line
(`OrdersAssumption`) and no sale (`SaleAssumption`); transfer orders are finitely
many (`TransfersAssumption`); quantities ordered, numbers of receipts and versions are
naturals (`OrderedAssumption`, `ReceiptsAssumption`, `VersionAssumption`); idempotency
keys of a till are numbered as they are drawn (`TillAssumption`); a day begins
with no negative stock, and in `Stockyard` handles items and bins of the warehouse and orders
no negative quantity (`DesksAssumption` of each); NULL is no key and no answer of the dock (`DockAssumption`),
no purchase order, no row and no status of one (`PurchasesAssumption`); and a document is of one type
(`DocsAssumption`):

1. `ShipsOnce` (`DockdShipsOnce`). `DockInv` adds to it that shipments are numbered rows
   (`ShipmentRows`), that a shipment made under a key has its answer recorded
   (`KeyedIsAnswered`), and that no two shipments carry one key (`KeyedOnce`): the answer
   is written in the transaction that ships, so a repetition always finds it.
2. `OneWalk` (`OneWalkPerLine`). In `WaveInv`, the batch table is well formed
   (`BatchTable`), only wave tasks have shares (`Shareable`), a batch that does not exist has
   no tasks (`NoneBefore`), and of the tasks of open batches at most one batch's walk for a
   line (`WalkedOnce`). A wave commits some time after its second look, so the invariant
   also follows it there: what it takes is for lines of its own orders (`Asks`), two waves
   that have planned hold different items (`PlansApart`), and no open batch walks for a
   line that a planned wave takes units for (`PlansFree`). The last holds when the wave
   looks a second time, and stays: another wave that could commit a walk for the line
   holds the rows of its item, which only one can.
3. `NoOverReservation` (`NeverOverReserved`). `ShelfInv`: the books are in order
   (`BooksNow`: the inventory, line and task tables hold the quantities the service
   functions expect, no row promises more than it holds), and so is what a request has
   read (`Requested`). Each function of `Stock`, `Picking`, `SalesOrders`, `Shipping` and
   `PointOfSale` takes a session whose books are in order to one whose books are; the
   walks over free units do so by an invariant of the walk. The invariant found a
   condition: `release` has a floor, the reservations an order's cancel takes off do not.
   Orders 1 and 2 have batches; the desk takes the allocations of both back, twice one
   unit; an order is cancelled, the other is picked at the desk, its batch is cancelled,
   and `allocated` is below zero, where it counts as free stock. `Unfloored` names those
   days, and the theorem is about all others (the tables are typed on every day); on days without free takers a negative
   `allocated` is possible and harmless to the property, which is why `Shelf` asks for a
   floor only where they are.
4. `RefundsRight` (`RefundsAddUp`). `RefundInv` has three parts. `TillInv`: what was
   refunded of a sale fits its cart and the sale is marked refunded exactly when nothing
   is left (`Balances`), and a key stands for one sale or one refund (`OneCall`): the key
   is looked up in the transaction that writes. It holds on every day, whatever happens
   to the order. `Restores`: no shipment remembers NONE as the status its void restores,
   so a void never un-enters an order. `SoldInv`, on `ShipsAsSold` days: the lines of
   a sale are the cart, and an order that is shipped or partly refunded has shipped all of
   it. Every other handler has to be shown to leave those lines alone: `Quiet` says
   of a service function that lines, statuses and shipped quantities of sold orders stay,
   and is proved of each of them.
5. `LeavesWholeOrMarked` (`ShippedWhole`, an action property). On top of `RefundInv`:
   a shipment that is not the admin correction's never remembers SHIPPED, so a void takes
   the order out of what counts as shipped (`Restorable`). The four desks that do
   not ship are `Settled` on every day: they ship no order, and leave the lines of shipped
   orders alone, a late confirm or short close included, which writes `picked` only.
6. `UnitsNeverLost` (`UnitsAccounted`), with an invariant of its own, `CountInv`, on top of
   `ShelfInv`, `DockInv` and `RefundInv`. Its parts:
   - `LinesFit`: what is picked is on a line, and lines are of orders that were entered.
   - `Tied`: what a task says it took, it took from a row and for a line that are there.
     The shares of a wave's task add up to its quantity. Lines and shares are tied as long
     as no line is deleted; only picks by a handheld need that (`PicksAstray`).
   - `HandPicked`: without a handheld only the desk picks, in batches that are never open.
     So a batch that is cancelled has no picks to give back.
   - `Backing`: what a revert of an order may give back, its lines have picked, unless the
     order is `Frozen` (cancelled, refunded or received), where no revert goes.
   - `AsksFit`, `CartBins`, `Entries`: what requests in flight and ledgers say fits the tables.
   - `Balance`: the equation itself, with `>=` on days that are not `Exact`.

   Each function of the services is `Honest`: it keeps `Counted` (the first four parts) and
   the units on shelves and lines, whatever it does to reservations. Each step is then an
   `HonestStep`, or a `PaidStep` whose gain is what it enters into a ledger: a return,
   a refund, an old sale or an adjustment. The argument never follows a unit through
   the tables; a revert or a confirm of a wave's task adds up over the groups of its rows
   (`TotalGroups`), and `Exact` excludes the days on which one of these sums counts a
   row twice.
7. `ClosedSettled` (`ClosedIsSettled`). `TransferInv`: an order is closed only when each
   line is decided (`ClosedIsDecided`), and, what keeps it so, the tasks, the tasks
   loaded by handhelds and the approvals all speak of lines that exist (`TasksThere`,
   `LoadedThere`, `ApprovalsThere`); picks count only on lines that are undecided, which a
   closed order has none of.
8. `ArrivedCorrect` (`ArrivedAsApproved`). `CountsInv`, on top of `TransferInv`: a line
   has at least as much picked as approved, a line that is not there has nothing
   approved, and what an approval asks is a number. So the one step that credits the
   other warehouse raises the lines by the same units, and no line that counts can be
   deleted.
9. `ReceivedCorrect` (`ReceivedIsReceipted`). `GoodsInv`: receipts are numbered rows with
   quantities, and a cancellation under way still has a receipt as it was before anybody
   struck it. A strike takes the units off the line whether or not the receipt still
   stands, so the line may come to claim too few, never too many.
   Posts edit what is ordered and never what was received.
10. `NewestInForce` (`OneInForce`, the first part of `NewestApplied`). `PostInv`: a post
   that has compared versions is still news when it writes (`PostsAreNews`), because no
   other post of its document runs meanwhile (`PostsExclude`, the advisory lock).
11. `NewestLines` (`NewestApplied`). A version without lines leaves the lines there are,
   so the lines in force may be older than the version in force (`Newest`). `SalesInv` and
   `PurchaseInv` say that a document whose version was recorded stands for an order that was entered,
   and no other document does (`Mapped`), and that this order's lines are those of `Newest`
   (`SalesLines`, `POLines`). Every other handler is then shown to be `Calm`: it writes
   what is reserved, picked, packed or received of a line, never what it orders, and
   enters lines only for an order that was not there. Short closes (`partial`) and edits
   of purchase order lines do change what is ordered; days on which they meet posts are
   left out (`LinesLeftAlone`; no configured day is one). The lines are looked at in
   one step of a post and replaced in a later one, while waves and other posts run: the
   proof never uses that nobody works on them.
12. `PickedIsCommitted` (`TypeOKTransfers`). The bounds themselves are the guards of the two
   writes: the UPDATE of a confirm and the CHECK on `approved_qty`, each of which looks at
   the line it writes, not at what a handheld loaded or an approval asked for earlier. What
   takes the work is that a line commits what a walk over the free units of every bin
   finds, so whatever anybody writes to a shelf has to be a number, and a number is what
   a sum of units returns when all it adds up are numbers. `YardInv` says this of the
   shelves, the order lines and the tasks (`Numbers`), of what requests have read
   (`RequestsInts`), of what counts expect and reviews ask for (`CountsInts`), and of
   what handhelds loaded (`HeldNumbers`). It says nothing of signs, so nothing rests on
   `allocated` never falling below zero (see 3).

`RowFacts` has what these proofs say about sums: a sum over a disjoint union of the sums, a row that changes, a row that changes changes the sum by as much, and larger rows give a larger sum. A
sum is defined as a number of units (`Sums`), not by recursion, so that the library's
theorems on cardinality speak of it. The library's induction takes the formula to be proved
as a parameter, which the provers cannot instantiate; `UpTo` states induction up to a number
of a set instead, and is proved from the library's theorem on minimal elements.

Only model-checked:

| Property | Why |
|---|---|
| `StockAccounted` | the same kind of equation over more tables; it needs the books of `ShelfInv` for all of `Stockyard` first, signs included |
| `NoBackorderOverlooked` | relates every backorder to all the stock it could take, through every handler that frees some |
| `EveryRequestAnswered`, `EventuallySettled` | liveness: fairness and `ENABLED` |

## Where code and documents disagree

- `hand_assignment`: "Picker and packer for one Pack Note must be different employees"
  (`work_dispatch_service.py`). An assignment by hand and a claim of the other stage that
  overlap both commit: each checks the other's row without a lock.
- `stale_availability`: on a break "unclaimed assignments are then released and
  rebalanced". A dispatch that read the availability before it waited for the locks of
  the change assigns the released tasks to the employee on the break.
- `cursor_hole`: the visibility floor "closes that race" of a cursor that passes "a hole",
  and "Sentry will not silently drop events" (`docs/api/webhooks.md`). Ids are drawn at
  INSERT. A transaction that commits more than two seconds after one with a later id did
  becomes visible below the cursor, and its event is never sent.

Met while modelling, without a run of their own:

- A picker's SHORT marker is "an explicit operator-confirmed shortfall marker"
  (`picking_service.py`), but it does not last. A batch of the picker that was left open,
  though the order left with another one, is reverted by his next session
  (`cancel_prior_user_batches`): the task turns from SHORT to SKIPPED, the line of the
  shipped order loses its picked units, and the bin gets units back that are on the
  truck. So `ShippedWhole` speaks of the moment an order leaves, and of what it
  shipped, not of the marker afterwards. `UnitsAccounted` counts picked units and is not
  disturbed.
- Function grants "are enforced by the API when claiming work"
  (`docs/me-warehouse-control.md`). After a completion, an employee with no grants left
  claims any type: the list of his types is empty, and `claim_next_task` filters only
  `if task_types:`. A completion that sends an empty list does the same. `ClaimsGranted`
  excuses these completions of his own and no other claim; no request of the run
  sends an empty list, so there the exception is an employee without grants.
- A rejected count creates "a higher priority recount task" (`docs/me-warehouse-control.md`).
  The recount's priority is `min(100, priority + 10)` (`work_control.py`): above a task of
  priority 100 there is none, and the recount of such a task queues behind it and
  everything else of that rank that is older. The `receiving` run reaches it by the recount
  of a recount, and `OneRecountPerRejection` names the case.
- "The system stores the picker and packer who claimed the two tasks". A case reported
  before the packing is claimed never learns the packer.
- "A paused subscription ... does not advance the cursor". The cycle under way at the
  pause still sends and moves it, once (`PauseHolds`).
- "Events that were committed before the PATCH" of a filter "are not re-delivered": those
  still above the cursor are delivered under the new filter, and a cycle under way may
  pass them under the old one.
- A hard deletion is to be asked for again "after the deliveries terminate"; the rows of
  a revoked subscription that are pending never do, as no worker serves it, nothing
  un-revokes it, and the retention job takes ended rows only.
- Consumers are told to ignore ids up to their watermark, which makes the replay of a
  dead letter that later events have passed a no-op.
- The pending ceiling cannot be reached by a stuck consumer, against its description: the
  dispatcher has one live row at a time (`OneLiveRow`), the rest come from replays.

In the warehouse, each a behaviour of the models that their properties leave out or
describe as it is:

- "Backorders release on any inventory increase" (migration 081, README): a put-away or a
  move from the dock into a pickable bin releases none, though only then is the stock
  pickable.
- Two landings that overlap in different bins release no backorder that needs the units of
  both: `release_satisfiable_backorders` reads the bins without a lock, each landing
  locks the row of its own bin, and the audit log, which would order them, is written
  after the look or, in a review, not at all. The backorder waits for the next landing
  with its stock on the shelf. What the look has found is opened by an UPDATE
  that asks for no status again: a backorder cancelled meanwhile is OPEN.
- A wave's second look exists because of "double-allocated stock and two pick walks";
  `create_pick_batch` reads the same guard and has no second look.
- A concurrent wave "contends for these same inventory rows, so it is serialized behind
  these locks" (`picking_service.py`, at the second look). An OPEN order whose lines need
  nothing more adds no item to what a wave locks. There is one after a confirmed wave is
  reverted: the revert lowers the line of the first order only, and the others keep
  what was picked for them. Two overlapping waves of such an order both pass the second
  look and both commit, and the order is in two open batches. Neither walks for its
  lines, which is why `OneWalkPerLine` speaks of walks.
- `confirm_pick` and `short_pick` update the task they loaded without asking for its
  status again. A picker's new session reverts his open batches: a confirm that was
  under way then takes units of a task that was reverted, and of one that another
  confirm has completed, a second time.
- `complete_batch` asks for no status: completing a batch that was cancelled makes its
  orders PICKED, an order already SHIPPED too, which can then be shipped again.
- A cancelled OPEN order gives back the reservations of its PENDING tasks only; those
  made at order entry stay.
- `fulfill` of the handheld records no `pre_ship_status`, and a void of that shipment
  fails with a 500 for good.
- `full_revert_batch` lowers the line a wave task points at, that of its first order, not
  the lines of the others that share it.
- A picker may short a task of a transfer order: `short_pick` knows sales orders only, so
  the units leave the shelf and no line counts them.
- "Batch the picks taken since the last submit" (`submit_picks`): it takes what is not yet
  approved, so a second submit asks for units already waiting for approval. The CHECK on
  `approved_qty` refuses the second approval only when it exceeds what was picked.
- A short-closed line releases units picked and waiting for approval; its approval is
  then refused for want of reserved stock, or takes units reserved for somebody else.
- Two cancellations of one receipt, or a cancellation and an un-receive, take its units
  off the purchase order and the shelf twice.
- A count approved and an inter-warehouse transfer write sums of quantities read without a
  lock; movements in between are lost.
- A partial refund followed by revert and cancellation of the sale puts the refunded units
  back twice; a phone order that shipped short is refunded as ordered.
- A retried full refund whose first call is still under way is answered "already refunded"
  and not with its own result; `schemas/pos.py` says a full refund "flips to CANCELLED",
  the code sets REFUNDED.
- A post of an upstream system may be looking at lines while a wave reserves them: the
  check for work under way and the replacement of the lines are apart, and the wave's
  tasks lose their lines (`_LinesInFlight` speaks of silently losing "the warehouse-floor
  state").
- A status an upstream system maps is written over PICKED, PACKED or SHIPPED; a
  cancellation of a SHIPPED order fails with a 500 each time it is repeated; an inventory
  update carries a version that nothing compares.

## What is not modelled

- EXCEPTION transitions write an event only; notes, barcodes and customers are data.
- Estimates are constants per type; the code's estimate depends on line counts and
  configured rates. Rounding of seconds (`::int`) is left out.
- One warehouse. Deactivation and role changes of users are left out.
- Function grants in `WorkClaim`'s `eligible` check: everybody is granted everything
  there; `WorkTasks` has grants.
- The API host's clock, which `auto_dispatch` compares with `available_at` of the
  database: one clock is modelled.
- Counted quantities, the photo store and its partial failures.
- Of the webhook dispatcher: changes of URL, secret and rate, the rate limiter, wake-ups,
  the branches for a filter that cannot be read and an event that has vanished, the
  throttles of replay-batch, creation of subscriptions, health alerts, signing.
- Of the warehouse: lots, prices, tenders, taxes, the 90-day window of refunds, tracking
  and carriers, preferred bins, creation and deletion of bins and zones, warehouses other
  than the one of the instance (a transfer's destination is a counter), customers and
  header fields. In every handler of a list, all but one of its entries.
- Two lines of one order for the same item, and the identity of a line that is deleted
  and entered again (`lost` keeps it for wave tasks). So the race of a post with a wave
  over the lines it replaces is described above and not explored: days with posts have
  one request in flight.
- A wave allocates in the order of `so_id`; the code takes the orders as the request lists
  them (its coverage check goes by `so_id`). What each order gets is the same, since a
  wave is refused unless all are covered; from which bin may differ.
- A create that first reverts batches of the same picker is one step
  (`CreateOverPrior`): its writes hold the rows it reverts, but not all it reads.
  `complete_batch` reads the tasks and lines of its batch in the step that writes.
- An `inventory_update` for an item without a row in the bin locks nothing before it
  computes the difference, so that two of them add up; rows of zeros hide this.
- The retry of a transfer import that draws a number already taken (another import in the
  same millisecond). The rollback before it undoes the reservations that were
  made, and the lines are then entered as if they stood.
- Mapping documents, look-ups across systems that miss, time-stamp versions; documents
  without lines (items, customers, vendors).
- The components marked `not_modelled` in `PROJECT.json`.

## Plan

Done: the task queue with dispatch, receiving and mistake cases, as transactions and
statement by statement; the outbox and one webhook subscription; the outbound and the
inbound side of the warehouse; the proofs above. Next, in this order:

1. The books of `ShelfInv` for `Stockyard`, and with them `StockAccounted`.
2. The two sides in one instance: transfer orders and sales orders that compete for one
   shelf, receipts under the pickers.
3. Line identity, so that a post and a wave can overlap; two lines for one item.
4. Event polling: consumer groups that poll and acknowledge over `EventLog`, with the
   floor, lost answers and two consumers in one group.
5. Sync state (who owns a run), snapshots and the token cache.
