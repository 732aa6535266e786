# A verification project for the SynchroFlow backend

SynchroFlow is an order-operations platform for Shopify merchants: webhooks
come in and become domain events, events are projected into read models, the
read models are reconciled into decisions, and decisions are executed against
the warehouse (WMS) and Shopify. This directory holds TLA+ modules that model
the concurrent core of the backend (`src/apps/backend`,
`src/packages/backend-core`), TLC configurations that check them on small
instances, and TLAPS proofs that carry the safety of eight of the components over
to instances of any size.

Paths below are relative to `src/apps/backend/src`, unless they start with
`migrations/` (`src/apps/backend/migrations`), `packages/` or `apps/`.

Contents: 1 inventory, 2 how the parts interact and what is hard, 3 the
modules, 4 the runs, 5 bounds and fairness, 6 the proofs, 7 what the code does
otherwise than it says, 8 what is not modelled, 9 the plan, 10 running it.

## 1. Inventory

| Component | State it keeps | Operations |
|---|---|---|
| Webhook ingestion (`api/webhooks/webhookRouter.ts`, `api/shopify/handlers/*`, `packages/backend-core/src/services/webhook-ledger.service.ts`) | rows of `integration_webhook_events` (received, processed, failed); `domain_events` | claim a delivery or recognise a duplicate, reclaim a failed one (SKIP LOCKED), run the handler, mark the delivery |
| Domain event log (`migrations/20260213095428_0018_domain_events.ts`) | `domain_events`: id, tenant, type, idempotency key | insert (the id is drawn at the insert, the row visible at the commit), list across tenants |
| Projection worker (`workers/projection.db.worker.ts`, `workers/projectionWorkerSupervisor.ts`, migrations 0061 and 0154) | `projection_cursors`, `domain_event_projection_failures`; a retry counter in memory | poll, list, lock, project one event, wait for a gap or bridge it, quarantine, end, restart |
| Projection engine (`projection/projection.engine.ts`, `projection/handlers/*`) | order read models, `order_identity_map`, `order_risk_snapshot` | project one event, defer a payment that came too early, leave a reconciliation intent |
| Intent sweep and reconciliation (`workers/projection.db.worker.ts:560-690`, `workers/reconciliation/*`) | `order_reconciliation_intents`, `reconciliation_checkpoints`, decisions | compare an intent with its order's version, reuse decisions or send a command, move the checkpoint, delete the intent |
| Command bus and consumer (`domain/command/*`, `workers/commands.consumer.ts`) | `commands` | send once per key, list, execute under a row lock, close |
| Decision execution (`api/orders/orders.execute.controller.ts`, `workers/execution.dispatcher.worker.ts`, `queues/execution.queue.ts`, `workers/execution.worker.ts`, `execution/*`) | `decision_execution_queue`, decisions, a RabbitMQ queue | approve, dispatch, execute, retry with a delay, give up |
| Rebuild from events (`cli/rebuild-from-events.ts`, `events/processDomainEvent.ts`) | truncates and refills the read models | replay all events offline |
| Outbox dispatcher and Shopify sync (`workers/domain-event-outbox.dispatcher.ts`, `sync.worker.ts`, `services/shopify/shopifyIntegrationStatus.service.ts`, migrations 0157, 0216 to 0220) | outbox rows with a two-minute claim; the status of an integration's sync | claim, publish with confirmation, mark; claim a sync cycle, import, finish or fail, start again by hand |
| Notification delivery (`services/notifications/notificationDelivery*.service.ts`, `workers/notification-delivery.worker.ts`) | deliveries with a claim token, a lease and an attempt count | claim, send, record the result if the claim still holds, requeue, give up |
| Opening inventory cutover (`services/wms/openingInventoryCutoverGeneration.service.ts`, `openingInventoryCutoverExecution.service.ts`, `api/wms/openingInventoryCutover.controller.ts`) | frozen generations with their batches; an execution with a status and a lease; attempts, readings; the completion mark | approve, freeze, claim, send batch by batch, read an ambiguous answer back, certify, finish, regenerate |
| Warehouse, outbound (`services/wms/pickBatch.service.ts`, `batchReservation.service.ts`, `batchCancellation.service.ts`, `pickScan.service.ts`, `cancellationUnwind.service.ts`, `fulfillmentPhysicalRemoval.service.ts`, `api/wms/wms.controller.ts`) | `inventory_truth` (on hand, reserved, available), `inventory_movements`; batches, their members and allocations; line states, scans, exceptions, problem tasks | release, claim, scan, report an exception, complete, cancel a batch; cancel or fulfil an order from Shopify; pack |
| Warehouse, inbound (`services/wms/receiveJob.service.ts`, `stow.service.ts`, `inventoryRecount.service.ts`) | jobs, units, the same ledger | receive, stow, recount |
| Returns (`services/returns/*`) | return jobs | open, inspect, close |
| Billing and trial (`services/billing/*`, `services/shopify/applyShopifyBillingState.service.ts`, workers) | the mirror of a subscription, usage | reconcile, expire |
| Shopify connection (`services/shopify/shopifyAdminCredential*.ts`, `shopifyAppDisconnect.service.ts`) | credentials with a generation | connect, rotate, disconnect, uninstall |
| Authentication and sessions (`api/auth/*`) | sessions, refresh tokens | log in, refresh, revoke |
| Catalogue ingestion and periodic jobs (`workers/product-ingestion.worker.ts` and others) | derived rows | recompute |
| Read models, intelligence and statistics (`services/order-nexus-ft2`, `services/*-intelligence`) | none of their own | rows to views |
| User interfaces (`apps/frontend`, `apps/mobile`, `apps/marketing`) | view state | render, call the API |
| Integration service (`apps/integration-service`) | none | receive a webhook, forward it to a queue |

What makes each of them correct, in one line:

- **Webhook ingestion**: a delivery takes effect once, a failed one can be tried
  again, and by one process only.
- **Domain event log**: ids are unique and are never handed out twice; an event
  is visible entirely or not at all, together with the others of its transaction.
- **Projection worker**: events take effect once and in id order; nothing is
  passed without a trace; nothing committed is passed; it never stalls.
- **Projection engine and reconciliation**: an intent is deleted only when it was
  worked off or overtaken; a checkpoint stands for a complete reconciliation; a
  payment is not lost for having arrived first; one decision per constraint.
- **Decision execution**: a decision is executed at most once, what is recorded
  is what happened and stays, and what was accepted is attempted and closed.
- **Outbox and sync**: an intent is published at least once, a sync cycle runs
  once at a time and can always be started again, an old credential writes nothing.
- **Notification delivery**: a late result never overwrites a newer one; attempts
  end at four; an attempt that was not made is not counted.
- **Opening inventory cutover**: a batch is sent once, whatever becomes of the
  answer; the end is announced only after a reading has confirmed it, and for the
  stock as it is then.
- **Warehouse**: what is reserved is owned by somebody; every unit leaves once, in
  `inventory_truth` and in the ledger; an order that leaves a batch leaves nothing behind; what can be cancelled is.
- **Returns**: a job ends once and its sums agree.
- **Billing, connection, sessions**: the mirror converges; a revoked credential
  or session does nothing more.

## 2. How the parts interact and what is hard

```
Shopify --webhook--> ingestion --insert--> domain_events
                                               |  polled, one per cycle
HTTP handlers --version, intent, event-->      v
        |                         projection worker --> engine --> read models
        |                               |                            | snapshot of a version
        |                               | same cycle                 v
        +--intent--> order_reconciliation_intents --sweep--> reconciliation
                                                          |          |
                                        RECONCILIATION_RUN|          |reused decisions
                                                          v          v
HTTP approve --row, EXECUTE_DECISION--> commands --> consumer    decision_execution_queue
                                                          |          | dispatcher
                                                          v          v
                                                      handlers <-- RabbitMQ <--
```

Everything meets in PostgreSQL tables; there are few locks and most steps are
transactions of their own. The hard parts:

- **Ids are not commit order.** An id is drawn from a sequence when a row is
  inserted and is visible when its transaction commits. The worker has to tell
  an id in flight from one that a rollback burned, and it cannot.
- **Reads without a lock.** The next event is listed before the cursor is locked;
  the order's version is read before the order is; a job's status is read before
  the decision is. Deployments overlap two processes, and the HTTP runtime and
  the worker entry start the same fleet, so several of each may run.
- **One logical step, several transactions.** An execution and its failure mark,
  a row and its command, a checkpoint and the execution rows, a reconciliation
  and the deletion of its intent: crashes and errors fall in between.
- **Retries and keys.** The broker redelivers, the dispatcher sends again, copies
  are made before originals are acknowledged, and idempotency keys are used once
  for ever.
- **Two writers of one order.** In the warehouse people pick what Shopify may have
  cancelled or shipped in the meantime. The rows of an order serialise the two, but
  some requests read before they lock, or do not lock at all.
- **One feed for all tenants.** Whatever stops at the head stops everybody.

PROJECT.json lists each such point under `hazards`, at its line, with the
properties that watch it.

## 3. The modules

| Module | What it is |
|---|---|
| `EventFeed` | the abstract specification of the projection pipeline |
| `ProjectionWorker` | producers, cursor, workers; implements `EventFeed` |
| `ProjectionWorkerProofs` | its theorems and their proofs |
| `OrderReconciliation` | from an order's events to its decisions |
| `OrderReconciliationProofs` | its theorems and their proofs |
| `DecisionExecution` | from a decision to its execution |
| `DecisionExecutionProofs` | its theorems and their proofs |
| `DeliveryContract` | the abstract specification of a notification's delivery |
| `NotificationDelivery` | the delivery of notifications under claims and leases; implements `DeliveryContract` |
| `NotificationDeliveryProofs` | its theorems and their proofs |
| `WebhookLedger` | the reception of webhooks, before the log |
| `WebhookLedgerProofs` | its theorems and their proofs |
| `ShopifySync` | the first synchronisation: intents, dispatcher, cycles, credential |
| `ShopifySyncProofs` | its theorems and their proofs |
| `OpeningCutover` | the opening inventory cutover: approvals, leases, Shopify |
| `MCOpeningCutover` | its instance for TLC |
| `OpeningCutoverProofs` | its theorems and their proofs |
| `StockAccount` | the abstract specification of the stock of a variant |
| `PickBatches` | the outbound warehouse: release, picking, cancellation, fulfilment; implements `StockAccount` |
| `MCPickBatches` | its instance for TLC |
| `PickBatchesProofs` | its theorems and their proofs |

The modules are split along the tables that couple the components. The log
couples ingestion and projection, so `ProjectionWorker` has both and forgets
what an event means. The order's version couples engine, sweep, consumer and
HTTP handlers: `OrderReconciliation` has those and takes the log as a queue, by
right of what `ProjectionWorker` shows. The row of `decision_execution_queue`
couples the two execution paths: `DecisionExecution` has both, and takes a
decision as something that appears.

In front of the log, the row of `integration_webhook_events` couples the
deliveries of one webhook: `WebhookLedger` has those. What it calls the commit of
an owner is `CommitEvents` of `ProjectionWorker`, what it calls a rolled back
savepoint or a dead process is `RollBackEvents` there: the ids the handler has
drawn are burned. It shows that such a commit happens once for a webhook;
`ProjectionWorker` takes any number of them in any order.

`NotificationDelivery` and `ShopifySync` share no table with the rest. Each is
built around a lease, and they are built differently: a notification cannot be
sent under two leases, because its budget is cut from the lease, and an intent can be
published under two, because the claim of the consumer sorts that out.

### 3.1 EventFeed and ProjectionWorker

`EventFeed` says what the pipeline promises: a position over a growing set of
ids that moves forward, taking the event directly ahead of it (it is projected
or set aside), or passing over ids, but only below an event that is there. It
knows no worker, no lock and no retry.

`ProjectionWorker` is the code's way to do this.

| State | Code |
|---|---|
| `tenant`, `draft`, `committed` | `domain_events` by id: the tenant an id was drawn for, the open transactions with the ids each has inserted, the visible rows |
| `kind` | what projecting a visible event does: it succeeds, breaks its contract, or throws every time |
| `cursor` | `projection_cursors.last_processed_event_id`; 0 stands for no row, which is how the table starts: no migration seeds it |
| `lock` | the holder of `SELECT ... FOR UPDATE` on the cursor row |
| `failures` | `domain_event_projection_failures` |
| `pc`, `seen`, `pick`, `current`, `retries` | the local state of each worker: where it is in the cycle, the cursor of the poll, the listed event, the cursor read under the lock, `transientGapRetries` |
| `projected`, `bridged`, `overtaken` | history: what took effect and in which order, what was passed as a gap, what was in flight when a later id became visible |

| Action | Code (`workers/projection.db.worker.ts` unless named) |
|---|---|
| `InsertEvent`, `InsertDuplicate`, `CommitEvents`, `RollBackEvents` | webhook handlers and their transaction; an `orders/create` handler inserts two events in one (`api/shopify/handlers/handleOrderCreated.ts:172-273`) |
| `PollCursor` | the cursor and the corruption check |
| `FetchNext`, `FetchIdle` | the listing over all tenants, with no lock |
| `BeginProjection` | the transaction and the row lock, which locks nothing while there is no row |
| `SkipStale`, `ProjectHead`, `FailHead` | an event that is behind the cursor; one that is directly ahead, whose handler succeeds, breaks its contract or throws |
| `WaitForGap`, `SkipMissingId` | a gap of one id: `MAX_TRANSIENT_GAP_RETRIES` polls, then it is passed |
| `BridgePhantomGap`, `HaltOnGap` | a larger gap: passed at once when nothing in it is visible to the tenant of the listed event, fatal otherwise |
| `BodyRejected`, `RecoveryRejected` | the trigger of migration 0061 refuses a cursor that does not advance |
| `BeginRecovery`, `RecoverStale`, `Quarantine` | the second transaction of a contract failure |
| `EndSweep`, `Restart` | the end of the cycle; the supervisor after a failure |
| `Fault`, `Crash` | a database error (the counter in memory survives) and a dead process (it does not) |

Any number of producer transactions may be open (`MaxDrafts` bounds them for TLC),
they commit in any order, and an event's `kind` belongs to the event: what throws
once throws at every attempt. What a projection writes is `OrderReconciliation`'s
matter.

### 3.2 OrderReconciliation

| State | Code |
|---|---|
| `feed` | the committed events not projected yet, in id order, with the defer count a payment carries |
| `version`, `paid` | `aggregate_version` of an order, and whether its payment was projected |
| `snapshot` | the constraints in `order_risk_snapshot` for a version |
| `intents`, `checkpoint` | `order_reconciliation_intents`, `last_projected_version` |
| `command` | the `RECONCILIATION_RUN` command of an order and version |
| `decisions`, `resolved`, `queued` | the decisions, those no longer pending, those with an execution row |
| `worker` | the projection worker in its cycle: step, intent, listed intents, decisions still to enqueue |

`Webhook`, `CorrectAddress`, `Stow` and `Resolve` are what other processes do.
`ProjectCreate`, `QuarantineCreate`, `ProjectChange`, `ProjectRefund`, `DeferPaid`,
`RejectUnknown` and `ProjectIdle` are the projection step of a cycle (`projection/`),
one for each way an event treats version, snapshot and intent. `QuarantineCreate` is
a creation that breaks its contract (`projection/projection.engine.ts:200-226`): it is
set aside (`workers/projection.db.worker.ts:450-523`) and its order stays unknown, so
whatever follows for that order is deferred or stalls the feed. `ListIntents`,
`ReadVersion`, `SkipReconcile`, `Reuse`, `Dispatch`, `Enqueue`, `DeleteIntent`
and `EndSweep` are the sweep and `reconcileOrderFulfillment`, one action for
each transaction. `WorkerFails` is a crash or an error anywhere in it;
`DispatchFails` is the one that matters most, because the command is committed
on its own connection and survives the rollback around it. `ConsumeCommand` and
`FailCommand` are the commands consumer with `generateDecisions`.

What is abstracted, and in which direction:

- Which constraints hold for an order is a free choice at every evaluation
  (`\E b \in SUBSET Blocks`), in the projection and again in reconciliation: the
  data they depend on is not modelled, and more is allowed than the data could do.
- `Stow` may leave an intent for any known order; the code asks for an active
  inventory constraint.
- A risk snapshot never contains `operational_block_type`, so the branch
  of the decision engine that opens a return job from it cannot be taken and is
  not modelled.
- At the end of a sweep that left intents behind the worker throws and is
  restarted in the state it would have been in anyway: `EndSweep` is both.
- One worker sweeps. `ProjectionWorker` has the overlap of two; their sweeps
  overlapping is in the plan.
- The version bumps of payments, fulfilments and refunds leave no intent. That is
  the code's doing, not an abstraction.

### 3.3 DecisionExecution

| State | Code |
|---|---|
| `row` | `decision_execution_queue.status` as committed; `in_progress` is written and replaced inside one transaction and nobody else ever reads it |
| `decision` | the status of the decision |
| `command` | the status of its `EXECUTE_DECISION` command |
| `lock` | who holds the rows of the decision |
| `request`, `consumer`, `dispatcher` | the approving HTTP requests, and the two polling workers of each process with what they have listed |
| `msg` | the execution jobs, in the sender's buffer, in the queue or in a worker, with attempt count and receiver |
| `runs` | history: committed executions |
| `overwritten` | history: decisions whose recorded outcome a later mark replaced |
| `dropped` | history: decisions whose last job died in the buffer of its process |

The manual path is `Approve`, `SendCommand`, `LoseRequest`
(`api/orders/orders.execute.controller.ts`), then `ListCommands`,
`BeginCommand`, `ExecuteCommand`, `ExecuteCommandFails`, `MarkCommandFailure`,
`CloseCommand` and their failures (`workers/commands.consumer.ts`). The
automated path is `ListPending`, `EnqueueJob`, `MarkDispatched`
(`workers/execution.dispatcher.worker.ts`), `Publish` (RabbitMQ), then
`Deliver`, `StartJob`, `RunJob`, `RefuseJob`, `RunJobFails`, `GiveUp`,
`RetryJob` and `Ack` (`workers/execution.worker.ts`). `Crash` ends a process:
its locks go, its listed work goes, a buffered message is lost and an
unacknowledged delivery returns to the queue.

The decision engine emits manual decisions only, and a user may execute one of
the actions, to resolve an operational block. The automated path is in service but
reachable only for automated decisions that are stored already.

Several processes run all of this at once, and the code waits for little:
`sendToQueue` is not awaited (`queues/execution.queue.ts:112`), and neither the mark
"dispatched" (`workers/execution.dispatcher.worker.ts:186-204`) nor the two failure
marks (`workers/commands.consumer.ts:172-181`, `execution.worker.ts`) look at what
they replace. The model has all these schedules. `SetRow` notes in `overwritten` when
a mark replaces an outcome, and `Crash` notes in `dropped` when a job dies unsent, so
that the properties can say exactly how far the code keeps its word: without such a
mark what is recorded is what happened and nothing is executed twice
(`OutcomeIsRecorded`); without such a mark or such a crash a dispatched decision has a
job (`JobsAreKept`). What follows from the two is in section 7.

`Together` bounds which decisions have rows in one behaviour (`Within`): the two paths
touch no common row, so two manual decisions together, or one automated decision at a
time, lose no interleaving within a path. The theorems hold for any `Together`.

Left out: the delay of a retry and the dead-letter queue (a retry copy goes
straight to the queue), the check whether the action is still valid, the gate
of the manual mode (both refuse before anything is written), and what a handler
does to an order (one step, which happens or fails).

### 3.4 DeliveryContract and NotificationDelivery

`DeliveryContract` is the life of a delivery as the user of it sees it, without a
process, a claim, a lease or a clock: it is opened (`Open`); attempts at it are
counted in advance and may be taken back unused (`Pay`, `PayBack`); a call is made
for an attempt that is paid for, when no other call is open (`Call`), and is
answered or lost (`Hear`, `Lose`); and it is closed once, by nobody while a call is
open, as sent only after an acceptance, as failed only after a refusal or the last
attempt (`Close`). `NotificationDelivery` is the code's way to keep it, by a claim
with a lease and a budget. The mapping forgets who holds a delivery: `queued` and
`processing` are `open`, `paid` is `attempts`, and `calling` is the set of
deliveries some worker is calling for.

| State | Code |
|---|---|
| `status`, `due`, `claim`, `attempts` | a row of `notification_deliveries`: status, whether `next_attempt_at` has come, claim token, attempt count |
| `lease` | the time to `claim_expires_at`, counted down by the clock of the database |
| `at`, `job`, `left`, `seen`, `target`, `result` | the local state of the worker of a process: its step, its delivery, the time to its own deadline, the count and the subscription it has read, the answer of the provider |
| `subscription`, `issued`, `dead` | the push subscription of the user by version (`updated_at`), and the versions a provider has called gone |
| `calls`, `forfeits`, `answers` | history: calls begun, attempts counted for which none was made, answers |

| Action | Code (`services/notifications/notificationDeliveryExecution.service.ts` unless named) |
|---|---|
| `Plan`, `Subscribe`, `Unsubscribe`, `BecomeDue` | the planner's insert, the device, `next_attempt_at` |
| `Claim` | `claim_notification_deliveries`: queued and due, or in processing with its lease over |
| `Start`, `Fetch`, `NotFound` | the deadline by the clock of the process, the read in the preflight, cut to `lease - Safety` |
| `Cancel`, `QuietHours`, `GiveUp`, `NoTimeLeft`, `CountAttempt` | the ends of the preflight, each a fenced update |
| `GiveBack`, `BeginCall` | the second look at the clock, after the commit and before the call |
| `Answer`, `CleanUp`, `CleanUpFails` | the answer, the error or the abort; the deletion of a dead subscription, in a transaction of its own |
| `Finalize` | the fenced record of the result |
| `Abandon` | a dead process or a failing transaction: the claim stays until its lease is over |
| `Tick` | a unit of time. It cannot pass while a call is open whose budget is spent: the abort comes first. It passes through transactions of any length |

The database and the process measure durations with clocks of their own; the model
lets both run at one speed. A delivery goes to one subscription.

### 3.5 WebhookLedger

| State | Code |
|---|---|
| `row` | `integration_webhook_events.processing_status`, as committed |
| `holder` | the transaction that holds the lock of the row, or has inserted it and is still open |
| `effects`, `unknown` | what handlers have committed; fulfilments whose order is not known yet |
| `at`, `ev`, `answer` | a request: its step, its event, its answer |
| `provider`, `awaits` | what Shopify thinks of an event: it must send it, it waits for a request, it is satisfied |
| `met`, `fell`, `shadowed` | history: who overlapped an owner, whose event failed meanwhile, whose duplicate was answered beside an owner |

`Emit`, `Send` and `TimeOut` are Shopify. `Reclaim`, `SkipReclaim`, `FindRow`,
`FindNoRow`, `Insert`, `Conflict` are `recordReceived`
(`packages/backend-core/src/services/webhook-ledger.service.ts`), one for each
statement and outcome: the reclaim with SKIP LOCKED, the read, the insert with
ON CONFLICT DO NOTHING, which waits for a transaction that is inserting the same key.
`Succeed`, `Fail`, `Ignore` are the router with its savepoint
(`api/webhooks/webhookRouter.ts`); `RollBack` and `LockTimeout` are the ingress
of uninstallations, which has no savepoint and a lock timeout of 250 ms
(`api/shopify/shopifyUninstallIngress.ts`); `Recover` and `RecoverFails` are the
hook that fetches a missing order after the commit
(`api/shopify/shopify.webhook.ts`). `Crash` is a dead process or a failing
statement.

### 3.6 ShopifySync

| State | Code |
|---|---|
| `sync` | `integrations.sync_status`, guarded by a trigger |
| `intents`, `started` | the `integration/sync_dispatch_requested` and `integration/sync_cycle_started` events |
| `published`, `claimed` | `published_at` and `processing_at` of the outbox rows |
| `generation`, `active`, `reconnect` | the credential: its generation, whether it can be used, and the state it had before somebody took the reconnect lease |
| `queue` | copies in `sync_jobs` |
| `dpc`, `row`; `wpc`, `msg`, `auth` | a dispatcher and its row; a delivery, its intent and the generation it was resolved under |

| Action | Code |
|---|---|
| `ClaimRow`, `Publish`, `Settle`, `Interrupt` | `workers/domain-event-outbox.dispatcher.ts` and the functions of migrations 0217 and 0220 |
| `Deliver`, `Resolve`, `Claim`, `Report`, `Crash` | `sync.worker.ts`; `claimShopifySyncCycle` |
| `Guard`, `Progress`, `Break`, `Fail` | `performInitialSync` (`services/shopify.service.ts`) |
| `Discard` | a fenced write under an authority that has passed (`services/shopify/shopifyIntegrationStatus.service.ts`), and what the worker makes of the error |
| `Request` | `requestShopifyManualRecovery` |
| `Rotate`, `Revoke`, `Fence`, `GiveUp`, `Reconnect` | the token refresh, the loss of the credential, the steps of a reconnection |

Time is left out altogether: a claim may be two minutes old and a back-off over
whenever somebody looks, which allows more than the code can do. What a cycle
imports is left out; that it can fail at any step is `Break`.

### 3.7 OpeningCutover

A cutover writes the counted stock to Shopify. An approval is a request
(`httpApproveOpeningInventoryCutover`): it replays or builds a generation, and then
advances it as far as it gets. `Requests` is how many are at work at a time; a
request claims once, so it stands for its lease token too.

| State | Code |
|---|---|
| `local`, `remote` | the physical target (`buildOpeningInventoryPhysicalTarget`), and `on_hand` at the location, per slot |
| `target`, `from` | the frozen generations: what to write and the `changeFromQuantity` |
| `status`, `holder`, `live` | `opening_inventory_cutover_executions`: status, `lease_token`, and that `lease_expires_at` is to come |
| `batch`, `collecting` | the batch executions; the reading in progress (`status = 'collecting'`, `started_by_lease_token`) |
| `mark` | `opening_inventory_shopify_synced_at` |
| `mutation` | where a mutation is: on its way, applied, refused or lost |
| `at`, `gen`, `plan`, `view`, `answer` | what a request holds in memory |
| `reached` | history: the slots that Shopify has had at the target since the generation was frozen |

| Action | Code |
|---|---|
| `Approve`, `Reserve`, `Collect`, `Freeze`, `Overtaken` | `createOpeningInventoryCutoverGeneration`: T1, the pages, T2, the replay of the winner |
| `Create`, `Reclaim`, `Turned` | `claimExecution` in mode `advance` |
| `ReadPlan`, `Stop`, `Proceed`, `Diverge`, `Drift` | `runOwnedAdvance`, `runOwnedExecution` up to the dispatch |
| `BeginDispatch`, `Respond`, `LoseAnswer`, `Record` | `beginDispatch`, `classifyResponse`, `classifyThrown`, `finalizeDispatch` |
| `MarkVerifying` | `markVerifying` |
| `BeginInspection`, `Read`, `Inspect`, `ReadFails` | `runOwnedRecovery` |
| `BeginFinal`, `Compare`, `CompareFails`, `Read`, `Finalize`, `ReadFails` | `runOwnedConvergence` |
| `Fenced`, `Quit` | `OpeningInventoryCutoverStaleClaimError`; a throw or a dead process |
| `Move`, `Sell`, `Arrive`, `Vanish`, `Expire` | the warehouse, the shop, Shopify, time |

`Writable` is what the lease-owned transactions have in common (`casLease`) with
what each of them tests besides. A slot is what one batch would write: a batch of
several items is a slot whose quantities move together, and a generation writes
the slots that differ. The pages are read one by one, and anything may happen
between two of them.

T2 and the last transaction are REPEATABLE READ: what the warehouse commits after
their snapshot is later than they are. An action is the transaction at its
snapshot. Two approvals that freeze at once collide at a unique index; the model
has the one that comes first, and `Overtaken` for the other.

Left out: the opening snapshot and the recount that come before; the entry points
that no route calls (`executeOpeningInventoryCutoverGeneration`,
`recoverOpeningInventoryCutoverAmbiguity`, `verifyOpeningInventoryCutoverConvergence`
by themselves, and the older `approveAndRunOpeningInventoryCutover`), so that the
mark is absent at the start and the legacy branch is never taken; the renewal of
a lease at the stage boundary, since how long a lease lasts is open anyway; entries that
only have to stay at zero. What is wrong with identities, credentials or
the installation is a trouble that ends the request or the generation
(`Diverge`, `ReadFails`, `Quit`).

### 3.8 StockAccount and PickBatches

`StockAccount` is what the rest of the warehouse may rely on: the three quantities of
`inventory_truth`, and for each order the units it holds and the units that have gone
for it. Units come in (`Receive`); orders get all their units or none (`Hold`); an order
gives back all of them, if none was touched (`Free`); held units leave (`Take`); and
units nobody held leave, when Shopify reports a fulfilment the warehouse did not make
(`TakeUnheld`). Each of these moves numbers and orders together. Only `TakeUnheld` may
leave available and reserved at odds with what is on hand, because available stops
at zero. `PickBatches` is the code's way to keep this account, with batches, operators,
row locks and reads before them. The mapping takes what an order holds from its
allocation and its scan (`Held`), and what has gone for it from its scan and its removals
(`Left`).

Orders wait in a pool. A release, by the worker or by the owner, puts some of them into
a batch and reserves their stock; an operator claims the batch and picks it. All the
time Shopify may report that an order was cancelled or fulfilled elsewhere, and the
owner may cancel a batch nobody has claimed.

| State | Code |
|---|---|
| `truth` | the three quantities of `inventory_truth`, of one variant at one pickable location |
| `ledger`, `levels` | on hand as `inventory_movements` add up to it, now, and the least and the most it has been |
| `status`, `blocked` | `order_fulfillment_status`; an active inventory constraint |
| `member`, `alloc`, `line` | `pick_batch_orders`; the batch in `pick_reservation_allocations`; `order_line_item_warehouse_status` |
| `scan` | `pick_scan_log`: the batch of the confirmed scan and its units |
| `exception`, `excused` | `pick_exceptions`: the batch of the one that is reported, and the units of the allocation it says are missing |
| `removed`, `problem`, `credited` | `fulfillment_removal` movements; the open `order_cancelled` task of the Problem Center; what a task has put into the problem bin |
| `batch`, `owner`, `released` | `pick_batches`: status, `picked_by`; its `reservation_hold` |
| `release`, `seen`, `asked` | what an open release, an operator's request and a cancellation of a batch hold in memory |

| Action | Code |
|---|---|
| `Choose`, `Anchor`, `ReleaseNothing`, `Reserve`, `ReserveConflict` | `releaseBatch`: the pool and the fill up to the cap; the row locks, the second reading and the capacity check; the end without a batch; `reserveBatchInventory` and the statuses; the typed conflict and rollback |
| `AskCancel`, `CancelBatch`, `RefuseCancel` | `cancelUnclaimedBatch`: the members it reads, the locks with all its checks, and `BatchReservationOwnershipError` |
| `ReadForClaim`, `Claim` | `httpClaimBatch` |
| `ScanAllocation`, `ScanLine` | `confirmPickScan`, with an allocation and without one |
| `ReportShort`, `ReportMissing` | `httpReportPickException` at the pick stage: a short pick with `recordShortPickPhysicalOutcome`; a missing or defective item, which records an exception and nothing physical, also for units it says were found |
| `ReadForComplete`, `CompletePick` | `httpCompletePick` |
| `OrderCancelled` | `handleOrdersCancelled` with `unwindCancelledOrder` |
| `FulfilledFromAllocation`, `FulfilledFromStock`, `FulfilledAlready` | `handleOrdersFulfilled` with `applyFulfillmentPhysicalRemoval` |
| `FulfilledBeforeOpening` | the same for a fulfilment older than the opening balance of its variant (`fulfillmentPhysicalRemoval.service.ts:112-152`): the line is shipped, and stock, allocation and removals stay as they are |
| `Quarantine` | `httpResolveProblemTask`, action `quarantine` |
| `Stow`, `Reevaluate` | `confirmStow`; `evaluateInventoryConstraint` |

A transaction that touches an order locks its row in `orders` first. So a scan, an
exception, a cancellation or a fulfilment is one step, and two of one order come one
after the other; a release that has anchored its orders keeps them (`Unlocked`). What
reads before it locks is split at the lock: the release at the anchor and again at the
stock, whose availability it reads unlocked before it locks it; the cancellation of a
batch at its members. Claim and completion never lock: they are a read and a write with
anything in between.

A fulfilment for which nothing is reserved looks for a location that had the units when
it happened (`occurred_at <= fulfilledAt`), and an event may be old when it is
projected. `levels` says what such a look back can find: stock if there ever was enough,
a conflict if there ever was not. When the conflict is raised the savepoint of the
physical part is rolled back and the status stays. A fulfilment may also be older than
the opening balance, whatever the state of its line: the model allows it at any moment.

A picked batch is accounted for by units: of every allocation the scan and what the
exception says is missing must add up (`PickAccounted`). A defect with units found
records no scan, so its allocation never adds up and the batch cannot be completed.
"pick_complete" stands for a batch in packing too, where an exception of the pick stage
may still be reported.

One variant, one location and orders of one line: what competes is the stock and the
rows of an order. An order of several lines adds allocations that are scanned in some
order; `Outstanding` is what one line has left. Left out: `re_stow` and the other
resolutions that do not put units anywhere new, recounts and the rebuild of
`inventory_truth`, units with serial identities, packing (with the exceptions of its
stage) and shipping.

## 4. The runs

Passing runs:

| Run | States | What it shows |
|---|---|---|
| `projection` (`Projection.cfg`) | 790 thousand | Two overlapping workers, two producer transactions whose commits overtake each other, all three outcomes, gaps, rollbacks, one crash or error: `ProjectedInOrder`, `EveryIdAccountedFor` and `ImplementsFeed`, also while the cursor row does not exist and `FOR UPDATE` locks nothing (what saves the code there is the trigger of migration 0061; the mutant without it fails); `LostOnlyInFlight`; and `CatchesUpOnceSeeded` (liveness): once there is a cursor row every committed event ends up behind the cursor, whatever gaps, contract failures, stale picks and restarts come first, unless an event before it throws at every attempt. |
| `execution` (`Execution.cfg`) | 550 thousand | Two processes on both paths: two manual decisions under two requests, or an ordinary or a retired automated one, with two errors and a crash: `OutcomeIsRecorded`, `JobsAreKept`, `CommandsClose` and `AutomatedSettles` (liveness). |
| `reconciliation` (`OrderReconciliation.cfg`) | 610 thousand | One order, two versions, every order of webhooks, corrections, stock, projection, sweep and consumer with one failure: `CheckpointIsBacked`, `NoIntentDropped`, `IntentsDrain`, `PaymentsLand`. |
| `notification` | 530 thousand | One push delivery, two processes whose transactions take any time, two failures, a subscription that is renewed: `ExclusiveCalls`, `AttemptsAreCalls`, `OutcomeIsTrue`, `ImplementsContract` (that outcomes are final is part of it), `RenewalSurvives`, `DeliveriesSettle` (liveness). |
| `webhooks` | 219 thousand | A fulfilment before its order, an uninstallation and an event without a route, two requests at a time, a timeout, a refusal and a crash: `EffectOnce`, `LedgerIsTrue`, `OneOwnerPerWave`, `AckIsKept`, `EventsLand` (liveness). |
| `shopify_sync` | 660 thousand | Two deliveries at a time, two intents, a change of the credential at any point, two failures: `OneCyclePerIntent`, `SupersededIsSilent`, `CyclesReport`, `IntentsStart` (liveness). |
| `cutover` | 720 thousand | Two approvals at a time, two slots, two generations and two troubles at any points: stock that moves, sales, mutations lost, refused or late, leases that end under their owner, failed readings, dead processes: `NeverResent`, `EndIsTrue`, `CutoverEnds` (liveness). |
| `pick_batches` (`PickBatches.cfg`) | 1.6 million (under symmetry) | Two releases that read one pool, a batch and its cancellation, two operators, orders of one and two units, two units and a third that is stowed later, short picks and missing items, and at any moment cancellations and fulfilments, also back-dated and from before the opening balance: `ReservedIsOwned`, `OnHandIsAccounted`, `PoolHoldsNothing`, `CancelledHoldsNothing`, `CancelIsNeverRefused`, `CompleteIsAccounted`, `ImplementsAccount`. |

Runs that end in a counterexample, each checking one sentence of the
repository against the code: `projection_loses_in_flight`, `reconciliation_stalls`,
`execution_overwritten`, `webhook_lost`. Section 7 tells them.

The type invariants are not repeated in the runs where `TypeCorrect` proves them.

Each property of a passing run has a mutant in PROJECT.json: a plausible bug in
a modelled definition with which the same run fails. The mutated forms stand in
the modules, marked "Mutant", before the definition they replace.

## 5. Bounds and fairness

| Bound | Value | Why it is enough |
|---|---|---|
| `MaxId` | 4 ids | A gap of one needs two ids, a gap of two needs three. Four have a gap, an event above it and a worker that is one step behind, or a pair in flight, an event that overtakes it and a later one. |
| `MaxDrafts`, `MaxFailing` | 2, 1 | Two transactions that overtake each other; one event that is set aside or that stops the feed. |
| `Shops` | 1 or 2 | Tenants differ only in what the count over a gap sees; two tenants are in `ProjectionLoses.cfg`, and the theorems hold for any number. |
| `MaxGapRetries` | 2 | The code has 50. Two polls distinguish the first, the counting and the last; `ProjectionLoses.cfg` keeps 50 to show that the larger gap rule does not wait at all. |
| `Workers`, `Processes` | 1 or 2 | Every hazard found is between two of them. The theorems hold for any number. |
| `MaxFaults`, `MaxErrors`, `MaxCrashes` | 0 to 2 | One failure at any point, and for execution a failure of the failure mark and then a crash. |
| `MaxVersion`, `MaxFeed` | 2, 2 | An intent and the version that overtakes it; a payment and the creation behind it. |
| `MaxDefers` | 3 | The code's value. |
| `MaxTries` | 1 | The code has 3. One has the first attempt, the last one, and what comes after. |
| `Messages` | 3 | A job, its duplicate and a retry copy. A step that needs a free slot waits for one, and a new job leaves one for the copies of retries (`HasRoomForJob`), as an unbounded queue would. |
| `Together` | {two manual}, {ordinary}, {retired} | See section 3.3. |
| `Blocks` | 1 | Enough for a constraint that comes and goes; a set of two adds no interleaving. |
| `Lease`, `Timeout`, `Safety`, `MinBudget` | 4, 2, 1, 1 | The code has 60, 20, 5 and 5 seconds (`services/notifications/notificationDeliveryExecution.service.ts:12-16`). What matters is their order: a call fits into a lease, and a slow transaction can leave less than a call needs. The theorems hold for any values with `Safety > 0`. |
| `MaxAttempts` (notifications) | 2 | The code has 4. Two are a first and a last one. |
| `MaxDelays` | 4 | Time that passes inside transactions: a whole lease. It also keeps a worker from losing every lease for ever, which nothing in the code excludes. |
| `MaxQuiet`, `MaxVersions` | 1, 2 | One postponement; a subscription and its renewal. |
| `Requests`, `MaxTimeouts`, `MaxRefusals`, `MaxCrashes` (webhooks) | 2, 1, 1, 1 | A delivery and the one that comes while it is open. |
| `MaxIntents`, `MaxGeneration`, `MaxCopies` | 2, 1, 1 | A cycle and the one that supersedes it; one change of the credential. A message is published again once its copy was taken. |
| `MaxSlots`, `Quantities` (cutover) | 2, {0, 1} | A batch before and one behind; a slot that is written and one that is not. Any two values differ in the same way. |
| `Openings` | all 0 | Which of the two values Shopify has first is a matter of naming. The theorems hold for any. |
| `MaxGenerations` | 2 | A generation and the one that replaces it. With two troubles a third is not needed: each ends at most one. |
| `MaxTroubles` | 2 | A lost answer and what happens before it is settled; a lease that ends and a movement. A lease whose owner is gone ends for free. |
| `Orders`, `Qty` (picking) | 2, of 1 and 2 units | Two orders that compete for the stock, one of which can be picked short. |
| `Releases`, `Operators` | 2, 2 | Every race found is between two of them. |
| `Batches` | 1 | An order that comes back from a cancelled batch is as it was before (`PoolHoldsNothing`, proved for any number of batches), so a second batch begins where the first began. With two batches, one operator and one release the same properties hold (2.2 million states). |
| `MCStart` | a release starts while a batch identifier is left | Without one it could only be rolled back or take orders it cannot serve out of the pool. A release that started before the last identifier went does both, so a race for the last units is in the run. |
| `MCAsk` | a cancellation of a batch starts while the batch is pending | No batch becomes pending again, so a later one is refused whatever it reads and changes nothing. One that is overtaken by a claim or another change after it has read is in the run. |
| `Stock`, `MaxReceived`, `MaxLines` | 2, 1, 2 | Enough for either order but not for both: a release blocks the other, a unit that is stowed frees it, and then both fit into a batch. |

Deadlock checking is on where the code's loops never end: projection,
reconciliation, execution. The instances of `NotificationDelivery`,
`WebhookLedger`, `ShopifySync` and `OpeningCutover` come to rest when the last delivery, webhook, intent or generation is
through; there the liveness properties say that they come to rest in the right place.
`PickBatches` may rest at any time, since all its steps are somebody's request: it has
safety properties only, so its symmetry is sound, and no fairness.

Fairness is weak, and only for what the code runs in an endless loop:

- `Cycle(w)` of a projection worker: the poll loop, and `Restart`, because the
  supervisor restarts without a limit in production
  (`workers/projectionWorkerSupervisor.ts:31`). Nothing is assumed of producers:
  a transaction may stay open for ever.
- The commands consumer and the dispatcher (interval polling) and the handling
  of each message, which the broker delivers until it is acknowledged.
- In `OrderReconciliation` the worker's cycle and the consumer.
- The notification workers poll, and carry on with what they claimed; time passes.
- An open webhook request is worked on, and Shopify sends again what it was not
  told is settled (it does so for two days; the model does not give up).
- The outbox dispatcher polls, and the consumers of `sync_jobs` work on what
  they are given. Nothing is assumed of the merchant or of the credential.
- In `OpeningCutover` a request that is open goes on, a lease runs out, a mutation
  arrives or is lost, and the merchant approves again while the cutover is not
  over: nothing else in the code resumes one
  (`api/wms/openingInventoryCutover.controller.ts:205-206`).
- Never: other requests, webhooks, corrections, stock, and failures. Faults
  are bounded, so "eventually" means after the last of them.

`CatchesUpOnceSeeded` starts at the first cursor row because before it the code
can stall, and excepts events behind one that throws at every attempt: see section 7.
`AutomatedSettles` excepts a dispatched row whose last job died unsent. It leaves retired decisions out:
when the failure mark of one throws inside the `catch` block
(`workers/execution.worker.ts:411`) its delivery stays unacknowledged until the
process ends. `IntentsDrain` and `PaymentsLand` allow for a stalled feed, which
is a finding of its own.

## 6. The proofs

`ProjectionWorkerProofs` proves, for every set of shops, producers and workers,
every number of ids, retries and faults:

| Theorem | Statement |
|---|---|
| `TypeCorrect` | `Spec => []TypeOK` |
| `InOrder` | `Spec => []ProjectedInOrder` |
| `Accounted` | `Spec => []EveryIdAccountedFor` |
| `Implements` | `Spec => ImplementsFeed` |
| `OnlyInFlightIsLost` | `Spec => []LostOnlyInFlight`: for any number of producer transactions, whatever the order of their commits |

They rest on `ConstantsAssumption` alone, as do those of the other modules on the
assumption of theirs. The argument:

1. **Control.** `TypeOK` is not inductive: whether a projected id is committed
   depends on what the worker listed. `Control` adds `PickListed` (a worker past
   the listing holds a committed event) and `LockedReads` (a worker in a
   transaction body knows the cursor exactly if it holds the row lock, and
   otherwise entered when there was no row and read 0). It is inductive:
   `InitControl`, `ProduceControl`, `WorkerControl`.
2. **One step of the store.** `StoreStep`: given `Control`, whatever a worker does
   to the shared tables is one of four things: it takes the event at
   `cursor + 1`, records it as a failure, bridges up to some id below a committed
   event, or leaves them alone. This is where stale picks die: a worker
   with the lock reads the cursor as it is (`HeadIsNext`), and one without can
   write only what the trigger lets through.
3. **History.** `Passed` (order and accounting together, with every projected id
   at or below the cursor) follows from the four cases by arithmetic:
   `NextPassed`. `InOrder` and `Accounted` are its parts.
4. **Refinement.** The same four cases are `Project`, `SetAside`, `PassOver` and
   a stutter or `Publish` of `EventFeed` under the mapping `log <- committed,
   position <- cursor, setAside <- failures`: `Implements`.
5. **Lost only in flight.** `InFlightLog` strengthens `LostOnlyInFlight` with
   `OvertakenKnown` (what is open below a visible id is in `overtaken`), `SeenBehind`
   (what a worker polled is at or below the cursor), `PickIsNext` (what is visible
   between the cursor and the event a worker listed was overtaken) and `BridgedAreGone`
   (a bridged id that is still in an open transaction was overtaken). A gap that a
   worker bridges then consists of rolled back inserts and of overtaken ids, so an
   event that commits in id order is never lost.

`OrderReconciliationProofs`, for any number of orders, constraint types, versions,
defers and failures:

| Theorem | Statement |
|---|---|
| `TypeCorrect` | `Spec => []TypeOK` |
| `CheckpointsAreBacked` | `Spec => []CheckpointIsBacked` |
| `IntentsAreHandled` | `Spec => NoIntentDropped` |

The sweep reads the version of an order, and later acts on it, without a lock across
the two, so what has to be shown is that an old reading does no harm. Versions only
grow. `NotAhead` and `Commanded`: no intent and no command is ahead of its order.
`NothingNewer`: while an intent is reconciled, no command of its order is ahead of
it; it holds when the version is read, because the intent is then at the order's
version, and only this worker sends commands. `Decided`: every decision has its command.
So a decision that is reused is no newer than the intent, and the checkpoint is
backed. `Settled` says of the worker that is about to delete an intent that it was
handled or has no projection; `Handled` never ceases to hold, and a snapshot can only
come while nothing is held. `Room` is for the types: the events in the feed add versions,
and the bound counts them (`ComingAppend`, `ComingTail`). `NothingNewer` needs the one
sweeping worker the module has.

`DecisionExecutionProofs`, for any decisions of both paths, processes, requests,
messages, tries and failures, with no further condition:

| Theorem | Statement |
|---|---|
| `TypeCorrect` | `Spec => []TypeOK` |
| `OutcomesAreRecorded` | `Spec => []OutcomeIsRecorded` |
| `NothingIsLost` | `Spec => []JobsAreKept` |

1. **Control.** Types, and what each actor has in hand: a consumer or a request
   works a manual decision, a dispatcher or a message an automated one (`TablesOK`,
   `LocksOK`, `RequestsOK`, `ConsumersOK`, `DispatchersOK`, `MessagesOK`). It is
   inductive by itself (`NextControl`). Its steps also say what a step does to the
   tables of a decision: it leaves them alone (`Untouched`), commits its execution
   (`Commits`) or marks its row (`Marks`).
2. **What is recorded.** `RecordInv` adds `Agreed` (row, decision, command and the count
   of executions fit together, exactly so while no mark has replaced an outcome) and
   `Informed` (a consumer that executes holds the row lock and its row is no success).
   That a second execution needs a mark in between is here: whoever commits has read
   the row under the lock, or has the lock when the guard reads it.
3. **What is kept.** `KeepInv` adds `Kept`: what is dispatched, or about to be marked, is
   `Served`: it has an outcome, a message that is still to be worked, or one of the two
   excuses. A message goes only when its decision has an outcome, its copy is in the
   queue, or its process has taken it along unsent.

`SuccessIsFinal` is no theorem because the code does not keep it (section 7).

`NotificationDeliveryProofs`, for any deliveries, processes, lease, timeout and limits:

| Theorem | Statement |
|---|---|
| `TypeCorrect` | `Spec => []TypeOK` |
| `CallsAreExclusive` | `Spec => []ExclusiveCalls` |
| `AttemptsAccounted` | `Spec => []AttemptsAreCalls` |
| `OutcomesAreTrue` | `Spec => []OutcomeIsTrue` |
| `KeepsContract` | `Spec => ImplementsContract` |
| `OutcomesAreFinal` | `Spec => FinalIsFinal`, a part of the contract, stated on its own |
| `RenewalsSurvive` | `Spec => RenewalSurvives` |

The invariant `Inv` has, besides types, five parts. `Working`: a worker
that is not idle has a delivery. `Budgeted`: a worker in or before a call whose
budget is not spent still has its claim, and its budget is shorter than the
lease. That is what keeps calls apart: two open calls for one delivery would
both hold its one claim, and the call whose budget is spent has ended by the time
`Tick` could end the lease. `CountRead`: while the claim stands, the count a worker
has read is the count in the row, or one less once it has counted; this makes
giving back an attempt by writing the old count right. `Destined` and `Answered`
tie the target and the result of a worker to the history.

The refinement (`KeepsContract`) rests on `ClaimIsRest`: a worker whose claim
stands and that is not calling has the delivery to itself, because whoever calls
holds the claim. So a fenced count, give-back or result is a step of the contract
at rest, and an update that finds its claim gone is a stutter. A call is paid for
because `AttemptsAreCalls` counts the worker that makes it; a call that ends
leaves no other open (`CallingEnds`).

`WebhookLedgerProofs`, for any events, requests and bounds:

| Theorem | Statement |
|---|---|
| `TypeCorrect` | `Spec => []TypeOK` |
| `EffectsAreOnce` | `Spec => []EffectOnce` |
| `LedgerTells` | `Spec => []LedgerIsTrue` |
| `WavesHaveOneOwner` | `Spec => []OneOwnerPerWave` |
| `AcksAreKept` | `Spec => []AckIsKept` |

`Inv` relates what a request has seen to what is committed: `Recorded` (the row
determines the number of effects), `Waves` (a request that was open when its event
failed finds a row wherever it looks, so its insert conflicts),
`Meetings` (a request that has still to decide has met the owner of its event, if
there is one or was one that failed) and `Answers` (who answers 200 has seen the
event land or met its owner).

`ShopifySyncProofs`, for any number of dispatchers, deliveries, intents, generations
and failures:

| Theorem | Statement |
|---|---|
| `TypeCorrect` | `Spec => []TypeOK` |
| `CyclesAreOnce` | `Spec => []OneCyclePerIntent` |
| `SupersededAreSilent` | `Spec => SupersededIsSilent` |
| `CyclesDoReport` | `Spec => CyclesReport` |

`Inv`: `Recorded` (an intent with a cycle at work is recorded as started), from
which one cycle per intent follows because `Claim` asks for that record;
`Fenced`: while somebody holds the reconnect lease, no delivery at work has the
present generation, because taking the lease advances it; hence `Current`: a cycle
at work under the present generation has an intent at or above every
reconnection. This is what makes a fence by generation silence a cycle of an older
connection. `Ends` is about how a cycle ends: `InUse` (a generation somebody works under
is in use), `Moved` (while a cycle is at work under the present generation the status is
not PENDING, so a failure that may not be written need not be) and `Reported` (until a
first failure beyond the cycles themselves, a cycle that has only its report to make
leaves a final status behind, or another cycle at work). The report itself is the second
record of the failure: the one failure `CyclesReport` allows can hit only one of the two.

`OpeningCutoverProofs`, for any number of slots, quantities, requests, generations and
troubles:

| Theorem | Statement |
|---|---|
| `TypeCorrect` | `Spec => []TypeOK` |
| `NothingIsResent` | `Spec => NeverResent` |
| `EndsAreTrue` | `Spec => EndIsTrue` |

The steps are of three kinds: what happens outside, what only concerns the request
that takes it (`Quiet`), and what writes (`Loud`). `Control` is types, that a request
past its claim has a generation and an execution (`Numbered`), and that nothing is
in flight for a generation there is not (`Known`). What a step may do to the shared
rows is said three times, once per table: `StatusMoves`, `BatchMoves`,
`MutationMoves`. From these follow the parts of `Inv`: `Sent` and `Fresh` (a batch
that was sent is never pending again), `Replaced` (every generation but the latest
has ended in `requires_regeneration`, so whoever may write is at the latest),
`PlansHold` (a batch that a request's plan has as done is done, although the plan
was read without the lease), and `ViewsHold` with `ReachedNow` (what a request has
read at the target, Shopify has been at). `NothingIsResent` is `Sent`, `PlansHold`
and `Replaced` at the one step that sends; `EndsAreTrue` is `ViewsHold` at the one
step that sets the mark. That a set of slots has a first one is taken from the
well-foundedness of the natural numbers.

`PickBatchesProofs`, for any number of orders, batches, operators, releases and units:

| Theorem | Statement |
|---|---|
| `TypeCorrect` | `Spec => []TypeOK` |
| `ReservedIsSumOfOwned` | `Spec => []ReservedIsOwned` |
| `EveryUnitLeavesOnce` | `Spec => []OnHandIsAccounted` |
| `PoolIsClean` | `Spec => []PoolHoldsNothing` |
| `CancelledIsClean` | `Spec => []CancelledHoldsNothing` |
| `PickedIsAccounted` | `Spec => []CompleteIsAccounted` |
| `PendingCanBeCancelled` | `Spec => []CancelIsNeverRefused` |
| `KeepsAccount` | `Spec => ImplementsAccount` |
| `SlackIsFromUnreserved` | `Spec => SlackOnlyFromUnreserved`: whatever makes available plus reserved differ from on hand is such a fulfilment |

They assume that a shop has finitely many orders and that a line asks for at least one
unit. The proof has four layers:

1. **Rows.** `Inv` adds five facts to the three invariants about rows. `Anchored`: a
   release that has locked its orders has them alone, and its winners are still open and
   in no batch, because whoever changes an order waits for its row. `Fresh`: the
   allocation of a member belongs to the member's batch, and nothing is scanned or
   reported before the batch is claimed; this is why a cancelled batch, which was
   pending, leaves nothing behind. `Whole`: an allocation that was not scanned stands for
   all units of a line that was not cancelled; it may be shipped, by a fulfilment from
   before the opening balance. `Excuses`: units are missing because an exception of the
   batch that owns them says so. `Informed`: what an operator read before completing
   still holds at the write, because a scan is never taken back and a new allocation
   needs a batch that did not exist. The steps that only look at the rows (`Looks`) leave
   all but `Rows`, `Anchored` and `Informed` as they are (`LooksAreStill`).
2. **Sums.** `Units`, `ReservedIsOwned` and `OnHandIsAccounted` are sums over sets of
   orders, and the community module gives no theorem about its `SumFunctionOnSet`. What
   is needed is proved from its definition, a table over all subsets that is chosen
   (`TablesAgree`, `TableDef`, `PartOfTable`). Induction over a finite set is done by
   its contrapositive: the subset relation of a finite set is well-founded, so a
   statement that fails for some subset fails for a smallest one (`SmallestSet`), and a
   smallest one is impossible. From this follow `SumRound` (one member out), `SumJoin`
   (two disjoint parts), `SumPart` (a part is no larger), `SumMoves` (one summand
   changes) and the lemmas that say how each kind of step moves a sum: `ReservedGrows`,
   `ReservedShrinks`, `ReservedPicked`, `LeftMoves`, `LedgerMoves`. `LeftFits` and
   `LedgerFits` are the parts of `OnHandIsAccounted` with the sums over all orders.
3. **Numbers.** `FullInv` adds `Numbers`, the equations, and what they need:
   `Traced` (an allocation is one its batch was released with, is scanned only once the
   batch is claimed, and stays in a batch its order has left only if the order was
   cancelled), `PendingLines` (a line of a batch nobody has claimed is
   allocated as long as it goes on) and `AskedCovers` (a cancellation has read all
   members of the batch; who has left since is cancelled). `OwnedIsReserved`: units that
   are allocated and were not scanned are among those reserved, so no fulfilment and no
   cancellation takes the reserved number below zero, and the `Math.max` of the
   fulfilment never cuts anything off (`TakeReservedTyped`). The same lemma is the last
   of the checks a cancellation makes, hence `PendingCanBeCancelled`. Each handler but
   one adds to available and reserved together what it adds to on hand (`SlackMoves`).
4. **Refinement.** Every handler is a step of `StockAccount` or a stutter of it
   (`AccountStep`). Picks, short picks and fulfilments from an allocation are `Take`
   (`Takes`); cancellations of a batch or of an order are `Free`, because of `Whole`
   (`Frees`); the winners of a release can be held, because by `PoolHoldsNothing` and
   `Whole` nothing of them is held or gone; and a scan without an allocation moves
   nothing, because a member has the allocation of its batch or none (`Fresh`).

Only model-checked: liveness and everything under fairness (`CatchesUpOnceSeeded`,
`CommandsClose`, `AutomatedSettles`, `IntentsDrain`, `PaymentsLand`,
`DeliveriesSettle`, `EventsLand`, `IntentsStart`, `CutoverEnds`), which needs ENABLED
and is out of this prover's reach. Every invariant and every action property of a
passing run is a theorem. No module declares a RECURSIVE operator, so all of them can
be proved about.

## 7. Where the code does otherwise than it says

Each with a run that shows it:

1. **Events in flight are bridged** (`projection_loses_in_flight`). "No gaps"
   (`workers/projection.db.worker.ts:17-19`), but a gap of two ids or more is
   passed as soon as none of them is visible. One webhook transaction inserts two
   events; another draws the next id and commits first; the two are then below
   the cursor and are never projected. Two things make it worse, both in the
   same property: a single missing id is passed after 50 polls, and the count of
   what is present sees only the tenant of the listed event
   (`workers/projection.db.worker.ts:349`), while the listing saw all of them.
2. **A cancellation can stop everybody** (`reconciliation_stalls`). The handler
   calls a cancellation of an unknown order "inert, not fatal"; the engine
   throws a plain error right after it, which is not quarantined. The event
   stays the head of the feed. An order whose creation was quarantined is unknown for
   good, and its next event but a payment stops the feed in the same way.
3. **A success is overwritten** (`execution_overwritten`). "Status tracks lifecycle:
   pending → dispatched → in_progress → success | failure"
   (`migrations/20260402151801_0075_create_decision_execution_queue.ts:32`), but the
   failure mark of the commands consumer has no condition on the status
   (`workers/commands.consumer.ts:172-181`). Two processes list one command: the first
   fails and gives up the row, the second succeeds, the first then marks it failed, and
   the row says failure of a decision that is executed and resolved.
4. **A webhook is lost** (`webhook_lost`). "Never return 200 on handler failure"
   (`api/shopify/shopify.webhook.ts:207-208`): a handler is slow, Shopify stops waiting
   and delivers again, the second delivery is answered 200 as a duplicate while the first
   is still at work, and the first fails. The row stays "failed", Shopify is satisfied,
   and nothing tries again: `replayWebhook` is on no route. `AckIsKept` shows that this
   is the only way to lose one, and that an uninstallation cannot be lost like this.

Seen while modelling, with no run of their own:

- **A batch is claimed twice.** "Claimed exclusively"
  (`migrations/20260408163901_0081_create_pick_batches.ts:92`), but the claim reads the
  batch without a lock and updates it without a condition
  (`api/wms/wms.controller.ts:694-724`): the second of two operators takes the batch
  from the first, whose scans are then refused. `httpClaimPack` does the same.
  `ClaimIsExclusive` fails in the instance of `pick_batches`, as do `NoPhantomStock`,
  `UnscannedCanGoBack`, `LeavesLedgerOnce` and `CreditLeftTruth` below.
- **More is available than there is** (`NoPhantomStock`). A fulfilment nobody reserved for
  takes its units from a location where others are reserved. Available would be below
  zero and is set to zero, as a rebuild would set it
  (`services/wms/fulfillmentPhysicalRemoval.service.ts:434-437`); when one of the
  reservations is released its units are added to the zero. `SlackOnlyFromUnreserved`
  shows that such fulfilments are the only source of the difference (section 6).
- **An item is missing and its order cannot be cancelled** (`UnscannedCanGoBack`). The
  exception refers to the allocation with ON DELETE RESTRICT (migration 0143), the
  unwinding deletes every allocation without a scan ("picking → unscanned allocations
  released", `services/wms/cancellationUnwind.service.ts:16`), and its transaction fails.
  A fulfilment of the order fails in the same way. The error is no contract failure, so
  the event stays the head of the feed, as in 2.
- **Units leave the ledger twice** (`LeavesLedgerOnce`). "Shopify fulfillment for quantity
  that was not physically picked is represented separately by fulfillment_removal"
  (`services/wms/pickScan.service.ts:348-350`), so no unit should be booked as both. An order
  of a pending batch is fulfilled elsewhere: its allocation is consumed and its line is
  shipped (`FulfilledFromAllocation`). `Claim` sets all lines of the batch to picking, and
  the line, now without an allocation, can be scanned (`ScanLine`): a second movement, for
  which `inventory_truth` is left alone. `LeavesLedgerOnce` fails after these three steps;
  the last part of `OnHandIsAccounted` shows that the ledger is off by exactly the scans
  without an allocation and by nothing else.
- **A fulfilment from before the opening balance leaves an allocation behind.** It only marks
  the line shipped (`services/wms/fulfillmentPhysicalRemoval.service.ts:129-151`). If the
  order is in a pending batch, the cancellation of the batch expects no allocation for a
  shipped line, finds one and is refused
  (`services/wms/batchCancellation.service.ts:324-334`). If the order is cancelled
  afterwards, the unwinding skips the shipped line
  (`services/wms/cancellationUnwind.service.ts:174-176`) and takes the order out of its
  batch, whose last member may thus be gone: the units stay reserved for a cancelled
  order, and nothing returns them. `CancelIsNeverRefused` and `CancelledHoldsNothing`
  except exactly these lines.
- **A batch with a defect cannot be completed.** An exception that is no short pick may say
  that units were found (`api/wms/wms.controller.ts:3180-3192`) and records no scan
  for them (`api/wms/wms.controller.ts:3385-3389`), while completion wants confirmed and
  missing units to make up the allocation (`api/wms/wms.controller.ts:897-901`) and a
  scan is refused after an exception.
- **The problem bin gets what never left the shelf** (`CreditLeftTruth`). "A cancelled pick
  already left truth at Pick" (`api/wms/wms.controller.ts:3942`). After a short pick of one
  unit of two the cancellation hands the Problem Center the whole allocation, and the
  quarantine credits two units. One of them is still on hand and reserved at the shelf.
- **A batch that cannot be completed.** When Shopify has fulfilled every order of a batch
  that is being picked, the batch owns nothing, and completion falls back to counting the
  scans and exceptions of all its lines (`api/wms/wms.controller.ts:908-930`). It is
  refused until somebody reports an exception for lines that have left.
- **A synchronisation is stranded.** The settings page
  (`apps/frontend/src/pages/ft2-pages/ShopifyConnectionsSettings.tsx:94`) tells the
  merchant that synchronisation "is already running" when nothing is. A
  token is refreshed while a cycle runs, its next status write is refused as
  stale, the job is acknowledged (`sync.worker.ts:198-201`), and the status
  stays "SYNCING"; every recovery is refused as SYNC_IN_PROGRESS, and the
  intent is used up. The same happens when a reconnection is given up or when the
  process dies during the cycle. Only a new connection resets it.
- **A mutation can come late.** Its answer is lost, the reading finds the old
  quantities and the generation ends as "not applied", the next one is frozen, and
  then the mutation arrives. If it arrives before the next generation writes the
  slot, that write finds another quantity and is refused: the execution is
  "blocked", which no approval leaves again
  (`services/wms/openingInventoryCutoverGeneration.service.ts:399-407`). If the next
  generation has nothing to write there, because the stock has moved back, the late
  one still fits and changes Shopify after the end. This is why
  `EndIsTrue` says that Shopify has been at the target, and `CutoverEnds` counts
  "blocked" as an end.
- **A retry is promised and never made.** The key of an `EXECUTE_DECISION`
  command is used once for ever (`domain/command/command.bus.ts:68`); after a failure the
  next request is answered 202 and its command is dropped.
- **Reconciliation does not wait.** An address correction moves the version
  before its event is projected; the sweep finds no snapshot for it, returns
  without doing anything (`workers/reconciliation/reconciliation.handlers.ts:393`,
  `402-411`), and deletes the intent.
- **Two equal decisions.** The guard against a second pending decision
  (`workers/reconciliation/reconciliation.handlers.ts:541`) looks at decisions
  that a consumer creates later: with two versions reconciled before the first
  command is consumed, both create theirs.
- **FAILED is written twice.** `performInitialSync` (`services/shopify.service.ts:376`)
  records a failure, and so does `processSyncJob` (`sync.worker.ts:204`). A recovery
  requested between the two starts a second cycle; the late FAILED lands on
  it, because the fence is by generation and not by cycle, and a further recovery
  puts a third cycle beside the second. `OneCyclePerIntent` is what is left.
- **Notifications can be sent twice**, if the process dies between the
  provider's acceptance and the record of it: this is what at-least-once means, and the
  idempotency key (e-mail) and the tag (push) are there for it. A delivery whose
  preflight takes longer than its lease again and again is requeued without a
  limit, because no attempt is counted; `MaxDelays` excludes this from
  `DeliveriesSettle`. The direct dispatch of older code
  (`services/notifications/notificationDispatch.service.ts:109`) deletes a
  subscription by its id, renewed or not; `RenewalSurvives` is about the worker.
- `projection_cursors` has no row until the first event is projected. If the
  first visible id is not 1, both gap rules update zero rows and the worker
  polls for ever; the rebuild truncates the table and leads there again.
  `CatchesUpOnceSeeded` without `HasRow` fails in the instance of `projection`.
- **An automated decision is executed twice.** The mark "dispatched" has no condition
  (`workers/execution.dispatcher.worker.ts:186-204`). Two dispatchers send a job, or a
  mark fails and the job is sent again; one job is executed, the late mark puts the row
  from success back to "dispatched", and the guard lets the other job through. This is
  the manual finding 3 on the other path; `OutcomeIsRecorded` shows that nothing else makes
  a second execution possible.
- **A job dies unsent.** `sendToQueue` is not awaited (`queues/execution.queue.ts:112`); a
  process that ends between the mark and the flush takes the job with it, and the row says
  "dispatched" for ever, which no dispatcher lists. `JobsAreKept` and `AutomatedSettles`
  show that no job is lost in any other way.
- **An event that throws at every attempt stops the feed.** Only a contract failure is set
  aside (`workers/projection.db.worker.ts:450-523`); any other error ends the worker, which
  is restarted on the same event. `CatchesUpOnceSeeded` excepts what is behind it.
- A payment is dropped for good after three passes of the feed, which an idle
  feed makes in three cycles; the comment at `projection/projection.engine.ts:443`
  takes it that the order never comes.

## 8. What is not modelled

| Component | Why |
|---|---|
| Opening inventory cutover | `OpeningCutover` has approval, execution and certification; the snapshot and the recount before them, and the entry points that no route calls, are left out |
| Billing overage of the outbox dispatcher | a second use of the same dispatcher; whether Shopify takes an overage twice is decided by its idempotency key, outside this code |
| Rebuild from events | one offline process; that it equals the live projection is a question about data |
| Warehouse | `PickBatches` has the outbound side up to the picked batch. Receiving, the steps of a stow before its credit, packing and shipping, recounts and the rebuild of `inventory_truth` are left out: they are single transactions under row locks whose difficulty is in sums |
| Returns | single transactions under row locks |
| Billing and trial | the mirror of an external subscription; it needs a model of Shopify's and Stripe's side first |
| Shopify connection | `ShopifySync` has rotation, revocation and reconnection, as far as the generation and the usability of the credential go; OAuth, the disconnection with its verification and the grace period after an uninstallation are left out |
| Authentication, catalogue, periodic jobs | handlers over one row; repeating them is harmless |
| Read models, intelligence, user interfaces, integration service | no state of their own |

Of the modelled components: payloads, audit rows, revenue units, the read models
besides version and snapshot, logging, and intervals are left out.

## 9. The plan

Done, in this order: `EventFeed`, `ProjectionWorker` and their proofs, because every
other component takes its input from the feed; `DecisionExecution`;
`OrderReconciliation`; `NotificationDelivery`, `WebhookLedger` and `ShopifySync`
with their proofs; `OpeningCutover` with its own; the proofs of
`OrderReconciliation` and of `DecisionExecution`; `PickBatches` and its proofs;
`DeliveryContract` and `StockAccount`, with the proofs that `NotificationDelivery` and
`PickBatches` implement them.

Left: overlapping sweeps in `OrderReconciliation`, where `worker` becomes a function
over processes; packing and shipping on top of `PickBatches`; and the components of section 8.

## 10. Running it

```
tlc -workers 2 -config Projection.cfg ProjectionWorker
tlc -workers 2 -config Execution.cfg DecisionExecution
tlc -workers 2 -config OrderReconciliation.cfg OrderReconciliation
tlc -workers 2 -config ShopifySync.cfg ShopifySync
tlc -workers 2 -config PickBatches.cfg MCPickBatches
tlapm ProjectionWorkerProofs.tla
```

PROJECT.json names the module and configuration of every run, the mutants, and
for every definition the lines of code it stands for.
