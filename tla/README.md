# Baso Nusantara back end: a TLA+ verification project

This directory holds TLA+ models of the parts of the NestJS/Prisma back end whose
correctness depends on the order in which things happen: checkout with idempotency keys
and what it charges, the life of an order and its payment, the path of an event from the
outbox over the broker and its consumers to a mail, and the sessions of customers. TLC
checks the models on small instances; TLAPS proves every safety property the runs check,
and every refinement, for all instances.

## 1. Inventory of the system

All paths are relative to `src/src`. Every process of the service runs the HTTP API
and the background workers; the MySQL database is the only shared state, RabbitMQ
the only channel. Every `await` of a database call is a point where another request
or worker may run; an interactive transaction is atomic.

| Component | State it keeps | Operations | Talks to |
|---|---|---|---|
| Idempotency (`infrastructure/idempotency`) | `IdempotencyKey` rows: status, fence token, ownership time, stored response | `begin`, `finalize`, `markFailed`, `resolveAfterSupersession` | called by checkout |
| Checkout (`modules/orders/orders.service.ts`) | `Order`, `Payment`, `Shipment`, `Product.stock`, `Promo`, `VoucherUsage` | `checkout`, `getSummary`, `previewVoucher` | idempotency, upload tokens, outbox |
| Cancellation (`modules/orders/order-cancellation.service.ts`) | order status, stock | `cancelAndRestock` | called by admin and the payment worker |
| Admin (`modules/admin`) | order, payment, shipment status | `updateOrderStatus`, `verifyPayment`, `rejectPayment`, shipments, roles, users, dashboard | cancellation, outbox, audit |
| Payments (`modules/payments/payments.service.ts`, `payment-upload-token.service.ts`) | payment status, `PaymentUploadToken` | receipt upload by the customer or by a token link | outbox |
| Payment lifecycle worker (`modules/payments/payment-lifecycle.worker.ts`) | payment status, reminder stamps | expiry and reminder sweeps | cancellation, tokens, outbox |
| Outbox relay (`infrastructure/outbox`) | `OutboxEvent` leases, attempts, status | claim a batch, publish with confirm, retry | RabbitMQ |
| Broker connection (`infrastructure/outbox/rabbit-connection.manager.ts`) | one connection, one confirm channel | `publishWithConfirm`, `createConsumerChannel`, `ensureConnection`, close handling | relay, consumers |
| Notification consumers (`infrastructure/consumers`) | `ProcessedEvent`, `NotificationOutbox`, pause flag | deliver, dedupe, retry through a TTL queue, dead-letter, pause on infrastructure errors | RabbitMQ, database |
| Notification sender (`infrastructure/notifications`) | `NotificationOutbox` leases, circuit breaker | claim, send, retry, pause | e-mail provider |
| Retention and redrive (`infrastructure/lifecycle`) | deletes expired rows; reopens FAILED rows; drains dead-letter queues | `sweep`, `redriveFailedRows`, `redriveConsumerDlq` | all tables above, RabbitMQ |
| Auth (`modules/auth`, `modules/admin-auth`, guards) | `RefreshToken`, roles, permissions | login, refresh rotation, guards | - |
| Users, catalog, cart, CMS, audit, upload, shipping | tables of independent rows | single reads and writes | - |
| Config, health, metrics, logging, cache, queue | none that outlives a request | - | - |

What is hard about it: two requests with one key; a request that outlives its
reservation; a commit whose answer is lost; admin, customer and worker acting on one
payment at once; batches that outlive their lease; redelivery; a database or broker
that fails between two steps.

What makes each part correct:

- Idempotency and checkout: one order per reservation of a key; a key is COMPLETED
  exactly when its order exists; a client is shown only its own order and gets a
  definite answer in the end; nothing is oversold, no voucher used past its rules;
  nothing is charged that did not prevail at some moment of the request.
- Order, payment, cancellation, worker: one outcome per payment, announced once, final;
  reminders once each, in order, never after the outcome; a link buys one receipt; an
  order's items go back once per cancellation; an overdue payment is settled.
- Relay, consumers, sender: every event is published at least once and ends PUBLISHED or
  FAILED; a message yields one notification; a notification is sent, or fails for good; a
  consumer that paused resumes.
- Broker connection: one connection, and handles that belong to it.
- Retention and redrive: what is deleted is no longer needed by any retry.
- Refresh tokens: a sign-in has one valid token; a valid one is served; a disabled
  account gets no more.

`PROJECT.json` lists the hazards line by line, with the properties that cover them or the
reason why none does.

## 2. Modules

| Module | Models |
|---|---|
| `Checkout` | `IdempotencyService` and `OrdersService.checkout`, one process per request, with retries, crashes, reclaims and retention |
| `CheckoutService` | the abstract service: a key remembers at most one order, and shows only that one |
| `CheckoutPricing` | the same handler for its money: prices, shipping, vouchers and totals, read call by call while administrators change them |
| `OrderLifecycle` | orders and payments from creation to settlement: customer, admins, lifecycle workers, time |
| `PaymentContract` | the abstract life of a payment and of what is announced about it |
| `OutboxRelay` | the relay processes, leases, publisher confirms, redrive and sweep of `OutboxEvent` |
| `NotificationConsumer` | the two consumers, their queues, the ledger, pauses, channel closes, the dead-letter redrive |
| `NotificationSender` | the sender processes, leases, circuit breaker and provider, redrive and sweep of `NotificationOutbox` |
| `OutboxContract` | what either outbox promises: delivered at least once or given up; implemented by `OutboxRelay` and `NotificationSender` |
| `CustomerSessions` | sign-in, rotation of refresh tokens, accounts disabled meanwhile |
| `CheckoutProofs`, `CheckoutPricingProofs`, `OrderLifecycleProofs`, `OutboxRelayProofs`, `NotificationSenderProofs`, `NotificationConsumerProofs`, `CustomerSessionsProofs` | proofs about the modules they name |
| `SumLemmas` | what the proofs about stock, books and amounts use of sums over finite sets |
| `MC...` | TLC instances of the modules they name |

An order's way through the modules: `Checkout` commits it with its event in one
transaction (`CheckoutPricing` says for how much); `OrderLifecycle` settles its payment and
writes further events; `OutboxRelay` takes an event from its row to the broker, perhaps
more than once; `NotificationConsumer` starts from that (it admits every event published
again) and turns it into at most one notification; `NotificationSender` takes the
notification to one mail. Each link promises the next only what the next assumes: at least
once, under a stable id.

The grain is the same everywhere. An awaited call is a step of its own; a Prisma
`$transaction(async tx => ...)` is one step, because the database makes it atomic; what a
process read earlier and still relies on is local state, and may be stale. Section 7 lists
the awaits that share a step with another. A single
`updateMany` with a `where` clause is a compare-and-swap: its `where` is an operator of its
own (`Claimable`, `StillOwns`, `MayFail`, `MayUse`, `Unsettled`, `Remindable`,
`Consumable`), so that the guard the code relies on can be read, and mutated, in one place.
Operators marked "Mutant" are not part of any specification: each is the plausible bug that
the property it is paired with in `PROJECT.json` detects.

### `Checkout`

| State | In the code |
|---|---|
| `rows`, `nextId` | `IdempotencyKey`, unique on (user, key); `age` is "stale" once `ownershipAcquiredAt` is older than `reclaimMs` |
| `orders`, `stock`, `used`, `usage`, `tokens`, `outbox` | the tables the order transaction writes |
| `pc`, `second`, `seen`, `own`, `attempt` | where a request is in `begin`/`runCheckout`/`catch`, and its locals |
| `answer` | what its client was told: 201 fresh or replayed, 409, 422, 400, or a failure |

| Actions | In the code |
|---|---|
| `Find`, `Create`, `Reread` | `begin()`: the read, the insert, the one re-read after a lost race |
| `Claim`, `ClaimRead` | `claim()`: the compare-and-swap, then the separate read of the fence token |
| `Cart`, `Summary` | `getCartPricing`/`assertStock`, `getSummary` with the voucher's checks |
| `TxOutOfStock`, `TxVoucherGone`, `TxSuperseded`, `TxCommit` | the order transaction, by its first failing statement in the code's order |
| `TxNumberTaken`, `TxFailure`, `TxCommitLost` | order number taken (three attempts), any other error, a commit whose answer is lost |
| `MarkFailed`, `MarkFailedLost`, `Resolve` | the catch block |
| `Retry`, `Crash`, `Age`, `Sweep` | the client; the process dying; `reclaimMs` passing; `RetentionWorker` on `IdempotencyKey` |

Left out: prices and amounts (they are in `CheckoutPricing`), addresses, the flag that
turns idempotency off (the same as a request without a key). The fingerprint is the record
of the fields that are hashed, so two requests collide exactly when those fields agree.

### `CheckoutPricing`

| State | In the code |
|---|---|
| `price`, `onSale`, `terms`, `used`, `usage`, `regulars` | `Product`/`Topping` prices and status, `Promo` rows with their count, `VoucherUsage`, customers with a completed order |
| `pc`, `items`, `subtotal`, `offer` | the read a request awaits, and the locals it has read so far |
| `order` | what the committed order charges, and on what terms |
| `during`, `limits` | history: what prevailed at some moment of a request; the limits a voucher has had |

| Actions | In the code |
|---|---|
| `Cart`, `Summary`, `Shipping` | the three calls of `getCartPricing`, each of which reads the catalogue anew: item prices come from the first, the subtotal from the second, the number of items from the third |
| `ReadVoucher`, `CheckCustomer` | `findVoucherByCode` with the checks on the row; the checks on the customer's orders and use |
| `Commit`, `Reject` | the transaction with its guarded increment; any refusal |
| `UpdateProduct`, `UpdatePromo`, `OrderCompletes` | administrators, and orders of the customer that complete |

`Subtotal`, `ShippingCost`, `Discount` and their helpers are the calculations, with the
code's integer roundings. Orders do not fail for stock here: that is `Checkout`'s part.

### `OrderLifecycle`

| State | In the code |
|---|---|
| `order`, `trail`, `stock` | `Order.status`, `OrderEvent` rows, `Product.stock` |
| `payment`, `link` | `Payment` (status, `createdAt`, the two reminder stamps), `PaymentUploadToken` rows by the event that issued them |
| `emitted` | how many outbox rows were written per order and event name |
| `call` | an admin's `verifyPayment`/`rejectPayment`: what its first read led to, or its answer |
| `worker` | a `PaymentLifecycleWorker` tick: its phase, the batch it read, the time it began |

| Actions | In the code |
|---|---|
| `Place` | the part of the order transaction that creates order, payment and link |
| `Upload`, `UploadByLink` | `uploadManualReceipt`, `submitReceiptByToken` over `applyReceiptInTx` |
| `ReadPayment`, `Verify`, `Reject`, `LoseRace`, `DropCall` | `verifyPayment`, `rejectPayment`: the read outside, the transaction, its rollback |
| `Cancel`, `UpdateStatus` | `updateOrderStatus` |
| `FindExpirable`, `ExpireNext`, `FindFirst`, `FindSecond`, `RemindNext`, `EndTick` | `runTick`: expiry, then the two reminder stages, batch by batch |
| `SkipFailed`, `AbortTick` | a payment's transaction that fails; a process that dies or a query that fails |
| `Tick` | time, in units that make the windows small numbers |

`CancelAndRestock` (`OrderCancellationService.cancelAndRestock`) is part of every action
whose transaction calls it. Checkout appears in both modules: `Checkout` models how an
order comes to be, `OrderLifecycle` what becomes of it; what they share is the
transaction's result (order PENDING, payment PENDING, stock taken, link issued).

### `OutboxRelay` and `NotificationSender`

Both are lease-and-mark workers over a table, and are modelled alike.

| State | In the code |
|---|---|
| `rows` | `OutboxEvent`/`NotificationOutbox`: status, attempts, `lockedBy`; `lease` and `due` say where `lockedUntil` and `nextAttemptAt` lie against the clock |
| `pc`, `batch`, `snap`, `cur` | a tick: the call it awaits, the rows it has left, their attempts as it read them, the row at hand |
| `streak`, `breaker`, `calls` | the sender's `consecutiveTransient` and `pausedUntil`; calls made while it is open |
| `copies`; `mails` | what the broker took; what the provider mailed |
| `failures`, `refused`, `upset` | history: failed attempts, permanent refusals, rows whose lease ran out under a holder or whose written mark was not answered |

| Actions | In the code |
|---|---|
| `Insert` / `Enqueue` | a transaction elsewhere commits the row |
| `ClaimStamp`, `ClaimUnanswered` / `ClaimFails`, `StartBatch` | `claimBatch`: the update that stamps a lease, the read of the rows that bear the token |
| `PublishConfirmed`, `PublishRejected` | `publishWithConfirm`, with or without the message at the broker |
| `SendAccepted`, `SendRefused`, `SendTransient` | `EmailNotificationProvider.send` by class of answer; a timeout may have mailed |
| `MarkPublished` / `MarkSent`, `MarkFailed`, `MarkSentFails`, `ScheduleRetry` | the marks: by id alone, counting from the row as it was claimed |
| `TickFails`, `Crash` | a call that throws out of the tick; the process dying at any await |
| `PauseOver`, `LeaseRunsOut`, `BackoffOver` | time |
| `RedriveFailed...`, `Sweep` | `redrive.service.ts`, `retention.worker.ts` |

A claim's token is new each time; a process has one claim at a time, so its name stands
for the token of the present claim, and `Abandoned` for that of any earlier one. The
provider is external: under a key it remembers it mails nothing, but it may forget a key at
any moment. Its memory is limited in time, while nothing limits the time to the next
request: the sender's own back-off is capped, a Retry-After the provider sent is not
(`email-notification.provider.ts:100`, `:140`, `notification-sender.worker.ts:197`), nor is
the downtime after a crash or the time until an operator redrives. So whether a second
request mails again is left open (`Deliver`), and what is claimed of mails is what the
sender itself ensures: it asks again only after a fault.

### `NotificationConsumer`

| State | In the code |
|---|---|
| `msg` | the messages of one consumer's main, retry and dead-letter queues: where each is, who holds it, what its handler awaits, the sum of its x-death counts |
| `bound`, `taken` | whether the main queue exists and is bound; the events it took |
| `channel`, `paused`, `timer` | the consumer's channel and subscription, its flag, its resume timer and whether that belongs to the current channel |
| `ledger`, `notes` | `ProcessedEvent`, `NotificationOutbox` rows per event |
| `late` | handlers that go on after their channel closed |
| `db` | whether the database can be reached |

| Actions | In the code |
|---|---|
| `Publish`, `Deliver`, `RetryExpires` | the broker: a (repeated) publish, a delivery within the prefetch limit, the retry queue's TTL |
| `Check`, `Store`, `ProcessFails`, `Ack` | `process()` up to its transaction, the transaction, an error that `isInfraError` does not list (an outage's too), `handleDelivery`'s nack or ack |
| `PauseForInfra`, `CancelConsume`, `ResumeConsuming` | an error of an outage that it lists: requeue, pause, resume |
| `Handoff`, `HandoffRefused`, `Discard` | `deadLetter`, then the ack of the original |
| `RedriveDlq`, `RedriveUnacked` | `redriveConsumerDlq`, and its death between publish and ack |
| `Start`, `ChannelCloses`, `Crash`, `LateStore`, `LateFails` | `start`, `handleChannelClose` with what the broker requeues, restarts, handlers left behind |
| `DatabaseDown`, `DatabaseUp`, `SweepLedger` | outages; `RetentionWorker` on `ProcessedEvent` |

The order and payment consumers share the design; an instance is one of them. An event is
characterised by what `process()` makes of it (`Kind`): a notification, nothing, an error
each time, or a message that cannot be read.

### `CustomerSessions`

| State | In the code |
|---|---|
| `account` | `User.isActive` and `deletedAt`: whether the account may sign in |
| `pc`, `user`, `from`, `seen`, `root` | a request: the call it awaits, its account, the token it presents, the account as read with it, the sign-in its session began with |
| `token`, `nr` | the `RefreshToken` row a request creates, and its place in the order of creation |
| `overlaps`, `late` | history: rotations of a token another had revoked; requests past their check when the account was disabled |

| Actions | In the code |
|---|---|
| `SignIn`, `Insert` | `loginWithGoogleProfile` |
| `Present`, `Revoke` | `rotateRefreshToken`: the read of the newest candidates, the update by id |
| `Check`, `Create` | `issueTokens` |
| `Fails`, `Disable`, `Enable`, `Expire` | failed or unanswered calls, `updateUser`, thirty days |

## 3. Runs

Every property of a passing run is paired in `PROJECT.json` with a mutant of the code that
violates it in that run.

| Run | Question | Instance and why it is enough |
|---|---|---|
| `checkout_compete` | Is anything oversold or a voucher overused? | a double submission and two keyless forms of another user: one pair competes for the last use of `v1`, another for the stock of `p2`, and a keyless form submitted again after a lost commit for a second use of `v2` by one user; 2 faults let a reclaim and a lost commit happen in one behaviour |
| `checkout_reused_key` | One order per reservation, own order shown, `CheckoutService` implemented, everybody answered? | two equal forms and a different one on one key, 3 faults, a swept key created again (`MaxRows` = 2), `FairSpec` |
| `checkout_clobber` | finding | `FailedOnlyByOwner` violated |
| `pricing` | Are totals within bounds, nothing stale charged, limits kept? | three requests of two customers for a cart of two lines with a topping, two couriers; one change between any two reads, of a price, of a good's sale or to one of four other offers (a capped half, one above 100 %, free shipping, a closed one); one change is enough for a read to be stale at the next |
| `lifecycle_decisions` | One outcome, told once and truthfully, every unit of stock accounted for, orders go with their payments? | two admins, a worker, one order, two status changes out of PROCESSING, DELIVERED, CANCELLED: enough to cancel, revive and deliver around a payment |
| `lifecycle_workers` | One receipt per link, `PaymentContract` implemented (reminders in order, nothing after the outcome)? | two workers with overlapping batches, an admin, a receipt by session and links that expire (TTL below the window), one fault |
| `lifecycle_live` | Is every overdue payment settled? | a transfer, a gateway payment with a shorter window, a cash order; batches of one, so that payments queue for them; one fault |
| `lifecycle_restock` | finding | `RestockedOnce` violated |
| `relay` | One holder per lease, attempts true, duplicates only for faults, PUBLISHED final, `OutboxContract` implemented, every event settled? | two relays, two events in one batch, two attempts, three faults, a redrive: a lease outlived and the late mark of its holder, twice over |
| `consumer` | One notification per event, nothing dropped, recognised outages burn no retries, silence in a pause, every message settled, consumers come back? | one process with prefetch 2 and two slots, one event of each kind, two publishes, two faults, an outage, a redrive, a sweep: the same event handled twice at once by a live and a late handler, and a channel that closes in a pause |
| `sender` | Further mails of a notification only for faults, given up only for cause, breaker bounds calls, SENT final, `OutboxContract` implemented, every notification settled? | two senders, a good row and one the provider refuses, threshold 2, three faults, a redrive |
| `sessions` | One valid token per sign-in, valid tokens served, nothing for disabled accounts? | four requests of two customers in any roles (sign-in, rotation, reuse of an old token), 2 candidates so that a third session pushes one out, two faults, two switches |

Three requests are enough for every race the checkout code distinguishes: an owner, its
reclaimer, and one that arrives meanwhile; two workers for every race over a lease: the
holder and its successor. `MaxFaults` bounds crashes, failed calls, lost answers and
overruns of a live owner (the ageing of a dead owner's row, or lease, costs nothing). In
`OrderLifecycle` the windows 1 < 2 < 3 keep the order the configuration requires; time
stops at `MaxTime`, where everything is due. Symmetry is used over interchangeable admins,
workers, customers, requests and equal forms, and in no run with a liveness property.

Deadlock is checked in `Checkout` (`Settled` stutters once every client is answered) and in
`OrderLifecycle` (an idle worker or admin can always take a step). The other systems really
stop when their bounded inputs are used up (all rows removed, all requests answered), so
their runs say `CHECK_DEADLOCK FALSE`; what must not get stuck there is stated as liveness.

`BatchSize`, `Take`, `Prefetch`, `MaxAttempts` and the breaker's threshold stand for the
configured values (50, 100, 10, 10, ...): the smallest at which the limit is reached with
something left over. The proofs cover the others.

## 4. Fairness

`Checkout`: the server takes the next step of a request it is serving (Node's event loop
runs every settled promise; a crash is an action of its own), a client without a definite
answer retries (that is what the 409's Retry-After asks of it), and rows age. Nothing is
assumed of crashes, faults, sweeps. With no key there is no reservation, and a
client that retries may order twice: `EveryClientAnswered` still holds.

`OrderLifecycle`: `scheduleNext` runs in every tick whatever happened in it, so a worker
keeps ticking (`WF(RunTick)`), and time passes (`WF(Tick)`). Customers and admins need do
nothing: `OverdueIsSettled` relies on the worker alone.

`OutboxRelay`, `NotificationSender`: the poll timer is set again in a `finally`, and every
awaited call ends, in an answer or an error (`WF` of a process's next step, the marks that
fail and ticks that fail on a removed row included); leases, back-offs and pauses are
times, which pass. Rows, redrives, sweeps and faults need not happen.

`NotificationConsumer`: the broker delivers what is queued to a consumer with room, retry
TTLs and the timers of resume and re-init fire, handlers' calls end, and an outage of the
database passes. `EveryMessageSettles` names its two exceptions: a message whose hand-over
to the dead-letter queue was refused stays unacknowledged until its channel closes, and a
consumer whose whole prefetch is taken up by such messages receives nothing.

## 5. What is proved

All theorems hold for every value of the constants that satisfies the modules' named
assumptions (any number of requests, keys, orders, events, workers, customers, any bounds),
which TLC evaluates in the runs. Where a proof counts or sums, what it counts is assumed
finite (the goods of a catalogue in `PricingAssumption`, the relay and the sender
processes in `RelayAssumption` and `SenderAssumption`, the rows of the outboxes, the slots
of a consumer, the requests for tokens). Products need no such assumption, and that the
placed orders are finitely many is proved (`FinitelyPlaced`). Every safety property of a passing run, state or action, is
stated by a theorem, and so is every refinement.

`SumLemmas`: a sum over a finite set, as the community modules define it, is any one of its
elements plus the sum of the others (`SumElement`), a natural number if its elements are
(`SumIsNat`), and depends on the function only within the set (`SumAgrees`). The definition
recurs over elements picked by CHOOSE, so nothing says at once that the order does not
matter. Each lemma is shown by a least counterexample: the subsets of a finite set are well
founded under inclusion, so a set of bad subsets has a smallest (`SmallestSubset`), and
taking an element or two out of that contradicts its being bad.

`CheckoutProofs`: `TypeCorrect`, `AtMostOneOrder`, `CompletedExactlyWithOrder`,
`CompletedIsFinal`, `NothingOversold`, `VouchersWithinRules`, `ShownOwnOrder`,
`Implementation`.

- That a reservation has at most one order is not inductive: a second commit is impossible
  only because `StillOwns` asks for PROCESSING while the first commit left COMPLETED, and a
  swept key's new row has a new id. So `IInv` adds that row ids are given out once
  (`RowIdsUnique`), that an order of a live row is the one its COMPLETED row names
  (`RowNamesItsOrder`), and that a request trying its order knows its key's row and that
  the row is about its form (`HolderKnowsRow`). One lemma per action group shows that it is
  preserved. `HolderKnowsRow` rests on the one assumption of the model about time: retention
  (48 h) does not delete a row under a running request (`OwnerRuns` in `Sweep`).
- The books (`BooksBalance`): stock, counts, usage rows and orders change together in one
  commit (`OnlyCommitsTrade`), whose own guards, and not the reads before it, keep the
  sums and limits (`StockStep`, `VoucherStep`). What makes `VoucherRules` inductive is that
  a usage row names an order of that user with that voucher (`UsageNamesItsOrder`).
- What clients see (`ClientsInv`): `AnswerMoves` says how a step may change an answer; an
  order is shown only in the answer that ends a request (`ShownAtTheEnd`), it is its own
  commit's or the one a COMPLETED row of its key and fingerprint names (`RowsOrderIsOwn`),
  and orders are never rewritten (`OrdersGrow`).
- `Implementation`: `CheckoutService` remembers an order under a key exactly while the
  key's row is COMPLETED. A commit is a `Place` (its key remembered nothing, by
  `StillOwns`), answered at once or, when the answer is lost, not; a replay is a `Show`; a
  sweep of a COMPLETED row is a `Forget`; every other step, reclaims and crashes included,
  is a stutter.

`CheckoutPricingProofs`: `DiscountBounded` (every discount lies between nothing and what it
is on, for every voucher but one above a hundred per cent), `TypeCorrect`,
`DiscountsAreBounded`, `LimitsAreKept`, `NothingStale`, for any number of changes. `EveryRequestMoves` says what a
step of anybody does to one request (it begins, goes on, orders, leaves, or looks on while
the shop changes); the invariant adds that what a request under way holds prevailed since it
began (`ReadDuring`) and that a limit it may have read is one the voucher has had
(`LimitsKnown`): the guarded increment compares with the limit as read, so the bound is the
highest limit so far, not the present one. For the totals, subtotals and fees are amounts
whatever the cart (`SubtotalIsNat`, `FeeIsNat`), so `DiscountBounded` applies to what the
request has read when it commits (`ChargedBounded`).

`OrderLifecycleProofs`: `TypeCorrect`, `OneOutcome`, `RemindedInTurn`, `AdminsToldTruth`,
`SettledStaysFinal`, `LedgerHolds`, `LinksSpentOnce`,
`WithdrawnOrdersCancelled`, `Implementation`.

- Payments: the invariant is about one order at a time. Every action does at most one of a
  few things to a payment (it is created, gets a receipt, a reminder, an outcome, or
  nothing): `Effect` proves that of each action, `PaymentStep` that each of these keeps the
  payment's part of `IInv`, and `Lasting` that what admins and workers learned earlier stays
  true. The strengthening is what their stale reads may rely on: a call past its read has a
  payment (`CallSound`), a worker's batch for the second reminder has had the first
  (`BatchSound`), since the second's compare-and-swap does not ask. The refinement of
  `PaymentContract` follows from the same case split.
- Orders: a step places one order, lets a payment decide one, sets the status of one, or
  leaves all of them (`EveryOrderStep`). Each moves at most one order into or out of
  `Standing`, and with it exactly that order's items (`HeldMore`, `HeldLess`,
  `CancelBalances`). `StockLedger` is exact whatever admins do: it charges a revived order's
  items, which it gave back and did not take again, to `Surplus`, once for each time its
  history leaves CANCELLED. A revival is counted in the `OrderEvent`s, so the invariant needs
  that they tell the status (`TrailTellsStatus`, a fact of every path that sets one); then
  `RevivalsMove` and `SurplusMoves` say that a status adds to the surplus exactly when it
  revives. That none is revived while only payments decide needs one more fact
  (`Untouched`): no order is then past PROCESSING, so that a withdrawn payment finds an
  order that `cancelAndRestock` does cancel, and a verified one finds one not cancelled.
- Receipts: an upload writes one event, and spends one link or counts as a session's; a
  payment that is still PENDING has had none (`ReceiptStep`).

`OutboxRelayProofs` and `NotificationSenderProofs`: `TypeCorrect`, `NoEventLost` /
`SentMeansMailed`, `AttemptsAreReal` / `GivenUpForCause`, `HoldersAreAlone`,
`PublishedStays` / `SentStays`, `Implementation` of `OutboxContract`, `CopiesPaidFor` /
`MailsPaidFor` and `BreakerHolds`.
`EveryRowMoves` and `EveryWorkerMoves` say what a step does to one row and to one process;
everything else is a case split over those. Mutual exclusion is not inductive: two
processes could hold a row if one's claim took a row the other still works on. `HolderIsLeased`
adds what rules that out: a row that is held bears its holder's token under an unexpired
lease and is PENDING, unless the row is `upset` (its lease ran out under its holder, or its
mark was written and not answered). Finality of PUBLISHED/SENT follows, because only a
holder writes a row; `SnapsWereMade`/`AttemptsWereMade` relate the attempts a tick read to
those that were made, since `scheduleRetry` counts from there.

- `CopiesPaidFor` and `MailsPaidFor` need a budget: copies already made are not enough,
  because two processes that both have a row in hand are about to make two.
  `CopiesAreBudgeted` (`MailsAreBudgeted`) counts the copies of an event, the mails of a
  note, together with where further ones can come from (`Sources`): each process that has
  yet to publish or send the row or failed to, and the row itself while it can be claimed
  with no fault. A step that adds a source without a fault takes another away (a claim takes the
  row's, a retry gives it back), and a fault pays for one; a token is on a row only while its
  process has it in hand (`TokensAreLive`), so a lease that runs out unobserved costs nothing.
- `BreakerHolds`: the calls let through by an open breaker and those left of its batch come
  from one claim of at most `batchSize` rows, of which the call that opened the breaker is
  one (`BatchCovers`); a claim is made only while the breaker is closed.

`NotificationConsumerProofs`: `TypeCorrect`, `OneEffect`, `NoneDropped`,
`DeadLettersForCause`, `SilentWhenPaused`, for any consumers, messages and limits.
`EveryMessageMoves` says what a step of anybody does to one message (it is published,
delivered, handled one stage further, dead-lettered, redriven, given back with its channel,
or untouched). The invariant adds what the properties rest on: the deaths in a message's
header come from errors of its own or from the retry queue's expiry after one
(`DeathsCounted`), a message about to be acknowledged has its notification (`AcksAreDue`),
each notification of an event is its ledger row's or one of a row that was swept
(`NotesCounted`), and a pause has a resume timer that belongs to the paused channel unless
that channel closed (`PausesInOrder`).

`CustomerSessionsProofs`: `TypeCorrect`, `OneSession`, `ClientsServed`,
`NothingForDisabled`. A session's valid tokens are counted together with those about to be
created (`Owed`): a rotation uses its token up (`UsedUp`) before it owes a new one, so the
sum only grows when two rotations revoke the same token, which `overlaps` counts.

Proved and not run: the type invariants (`NotificationConsumer`'s is both), and what a
refinement or another property already implies: `NeverLost`, `SentWasAccepted`,
`SettledIsFinal`, `RemindersInTurn`, `CompletedKeyIsFinal`, `CompletedIffOrdered`,
`BooksBalance`.

Only model-checked: liveness (`EveryClientAnswered`, `OverdueIsSettled`,
`EveryEventSettles`, `EveryNoteSettles`, `EveryMessageSettles`, `ConsumersReturn`), which
TLAPS cannot prove under fairness.

## 6. Where code and comments disagree

Shown by a run:

| Run | What the code does |
|---|---|
| `checkout_clobber` | `claim()` reads its fence token after the compare-and-swap; a stalled claimer picks up its successor's and fails the successor's reservation |
| `lifecycle_restock` | any status can follow CANCELLED, so an order can be cancelled, and restocked, again |

`PROJECT.json` quotes the lines. Neither breaks a property that is proved: `StockLedger`
accounts for the items restocked again (`Surplus`), and `AtMostOneOrderPerReservation`
holds in spite of the clobbered reservation, because the order's own finalize is fenced by
id, token and status.

Met while modelling, built into the models, and in no run of their own:

- `orders.service.ts:477`: the voucher is written before the fence is checked, so a
  superseded request can be answered 500, which the comment at line 298 rules out.
- `orders.service.ts:352`: the payment method is not part of the fingerprint, so a request
  that differs in it is replayed. `AnswersOwnOrder` speaks of the fields that are hashed.
- `admin.service.ts:354`: verifying a cash payment after delivery sets the order from
  DELIVERED back to PROCESSING.
- `payment-lifecycle.worker.ts:178`: with more overdue payments than a batch, the tick reminds
  the rest before the next one expires them, against the comment at line 76.
- `order-created-notification.consumer.ts:255`: a channel that closes in a pause comes back
  consuming with `paused` still set, while the old resume timer fires on for the closed
  channel; the next outage is then met without a pause. `PausedMeansSilent` says that this
  is the only way to consume while paused.
- `order-created-notification.consumer.ts:277`: `countDeaths` adds the counts of all queues,
  so a trip through the retry queue counts twice, and a redriven message keeps its count:
  `DeadLettersEarnedIt` states half of `maxAttempts`, not `maxAttempts`.
- `retention.worker.ts:110`: the ledger is kept for 30 days and FAILED events for 90, so an
  event redriven late is notified again; `ExactlyOnceEffect` allows one per swept row.
- `update-promo.dto.ts:25`: `Max(100)` is checked only when the update names the voucher's
  type; a percentage above 100 makes a total negative. `ChargedWithinBounds` names the case.
- `auth.service.ts:173`: the revocation is by id alone, so two rotations of one token at once
  both succeed; `SessionsDoNotMultiply` counts them.
- `notification-sender.worker.ts:15`: the comment's "exactly-once delivery effect" lasts as
  long as the provider remembers the key, which no code keeps a retry within;
  `MailsArePaidFor` is what holds without it.
- `notification-sender.worker.ts:219`: the breaker is looked at when a tick starts, so an open
  one lets the rest of a batch through; `BreakerLimitsCalls` is that bound.
- `outbox.config.ts:22`: `positiveInt` truncates after it compares, so 0.5 becomes 0. The
  modules assume limits of at least one.

## 7. What is not modelled

- Row locks and the database's deadlock detection (a victim's error is one of the failures
  above); isolation anomalies inside a transaction (each write the models rely on is a
  conditional update or a unique index, which the database evaluates on current rows).
- Some awaits that share a step: the reads of products and of toppings in `getCartPricing`
  (`orders.service.ts:160`, `:167`; no code under `src` changes a topping), `process()` up to
  its transaction (a ledger read that finds nothing is checked again by the ledger's key),
  and `consume` within `resumeConsuming`, after which the pause ends.
- `RabbitConnectionManager`: which connections and handles are open. `ensureConnection` has
  no single flight, so several may be opened; what the relay and the consumers see of it
  (failed publishes, channels that close) are faults of their modules.
- An admin's absolute write of a product's stock (`updateProduct`): no property of the code
  can hold across it. Shipments, catalogue, CMS, cart, users, addresses, roles, audit log,
  dashboards: independent single reads and writes.
- The chunking of a retention sweep (its deletes are one action per row), and the sweep of
  upload tokens, which no code looks at once they are expired.
- Token signing, Google's verification, guards: stateless or external. Mail rendering,
  uploads, metrics, health, queues, cache and configuration: formatting and I/O.

## 8. What is left

1. `RabbitConnection`: the shared connection, the relay's channel and the consumers', and
   close events that belong to an older connection.
2. A composition of the three links of the notification path, for the end-to-end promise
   that an order's event becomes one mail or a row or message an operator can redrive, and
   its proof from the contracts of the links.
