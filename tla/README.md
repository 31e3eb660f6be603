# TLA+ verification of the router's transactional core

This directory models the parts of the router in which several processes change
shared records and a mistake costs money or availability: an order is paid,
delivered, cancelled and refunded; a command is executed once per idempotency
key; a maintenance operation replaces the program under a lock; a creative run
reserves funds, is executed by a queue worker and is charged. Paths below are
relative to `src/backend/internal/`.

## 1. Inventory

| Part | State | Operations | Talks to |
|---|---|---|---|
| Order store (`payment/postgres/order_transitions.go`, `order_lifecycle.go`) | one row: `status`, `paid_at`, `updated_at` | `TransitionOrder`, `ClaimFulfillment`, `RecoverableFulfillmentIDs`, `ForceExpire`, `TouchPending`, `SaveUpstreamTradeNumber` | all payment parts |
| Fulfillment (`payment/fulfillment.go`) | audit rows, redeem code, subscription row | `HandlePaymentNotification`, `ToPaid`, `MarkPaymentProcessing`, `MarkPaymentFailed`, `ExecuteFulfillment`, `DoBalance`, `DoSub`, `MarkCompleted`, `MarkFailed`, `RetryFulfillment` | store, redeem and subscription services, rebate |
| Order lifecycle (`payment/order_lifecycle.go`) | paging cursors, audit rows | `CancelOrder`, `AdminCancelOrder`, `CancelCore`, `ForceExpireOrder`, `VerifyOrderByOutTradeNo`, `ExpireTimedOutOrders`, the three reconcilers | store, channel, fulfillment |
| Refund workflow (`payment/refund_prepare.go`, `refund_workflow.go`, `refund_helpers.go`, `payment/postgres/refund.go`) | `status`, `refund_amount`, `updated_at`, the records `REFUND_PREPARED`, `REFUND_PENDING`, `REFUND_SUCCESS` | `RequestRefund`, `PrepareRefund`, `ExecuteRefund`, `QueryAndFinalizeRefund` | store, channel, balance and subscriptions |
| Payment channel (`payment/provider/*`) | state of the payment and of the refunds at the channel | create, query, cancel, refund, query refund, notifications | external |
| Checkout (`payment/checkout.go`, `payment/postgres/checkout.go`) | the new row | `CreateOrder`, `PersistCheckoutResponse`, `FailCheckout` | store, channel |
| Background runner (`payment/expiry.go`) | leader lock | four jobs per tick | order lifecycle |
| Billing (`billing/redeem_service.go`, `billing/subscription_service.go`, `payment/postgres/rebate.go`) | redeem codes, subscriptions, balances, rebate records | `Redeem`, `AssignOrExtendSubscription`, `RevokeSubscription`, `DeductAvailableBalance`, `ApplyOrderRebate` | payment |
| Task funds (`billing/postgres/settlement.go`) | holds, `usage_billing_dedup` | `Reserve`, `Capture`, `Release` | creative runs |
| Idempotency coordinator (`idempotency/idempotency.go`, `idempotency/postgres/repository.go`, cleanup service) | one row per scope and key: fingerprint, status, response, `locked_until`, `expires_at` | `Execute`: `CreateProcessing`, `GetByScopeAndKeyHash`, `TryReclaim`, the command, `MarkSucceeded`, `MarkFailedRetryable`; `DeleteExpired` | any command |
| Maintenance lock (`ops/maintenance/lock.go`, `idempotency/postgres/operation_lease.go`) | one row of `idempotency_records`, a renewal goroutine per holder | `Acquire`, `renewLoop`, `Release` | cleanup service |
| Maintenance operations (`ops/maintenance/operations.go`, `ops/provider/binary.go`) | executable and backup of each host, set of running operations | `Update`, `Rollback`, `Restart`, `BeginStop`, `StopContext` | lock |
| Creative queue (`creative/rediscache/queue.go`) | ready list, delayed and active sets, inflight key, job lock | `Enqueue`, `Reserve`, `Ack`, `RequeueAfter`, `Heartbeat`, `MoveDueDelayedToReady`, `RecoverStaleActive`, `TryAcquireJobLock` | creative runs |
| Creative runs (`creative/public.go`, `worker.go`, `results.go`, `billing.go`, `creative/postgres/*`) | run row (status, phase, attempts, recorded result), outbox rows, transient payload and output | `CreateRun`, the worker's `Process`, `SucceedRun`, `FailRun`, the outbox reconciler | queue, task funds |

The rest of the repository (scheduler, routing, gateway and protocol conversion,
usage, team balance, batch images, tickets, identity, monitoring, frontend,
generated ent code) is listed in `PROJECT.json` with the reason it is not
modelled.

What is hard here:

* Nothing holds a lock across two database accesses of a handler. A webhook, a
  user's cancellation, a verification, an administrator's retry and the
  background jobs may all be half-way through the same order.
* A fulfillment lease is a row in `RECHARGING` whose `updated_at` is both its
  version and its clock; any other UPDATE of the row moves it.
* Delivery consists of several transactions (code, redeem or assignment, rebate,
  completion). A crash between two of them leaves work the next owner must
  neither repeat nor skip.
* The channel is asked before and after it is told to close a payment, and the
  buyer may pay in between; notifications are repeated, reordered or lost.
* A refund takes the entitlement back first and calls the channel outside any
  transaction; the answer may be late, pending or never seen.
* An idempotent command compares its record with a clock reading from before its
  first statement, while the record expires, is deleted and is created again.
* The maintenance lock is renewed by a goroutine that can be late; files are
  renamed by an operation that cannot be interrupted.
* A creative run lives in three stores (Postgres row, Redis queue and payload,
  funds) that share no transaction; workers, the creator and the outbox
  reconciler act on it at once, and only the version of the row orders them.

What makes the parts correct: an entitlement, a rebate and a success mail at most
once; none without a payment of the right amount; a recorded payment is never
undone and is eventually delivered; COMPLETED is final and means delivered; a
cancelled payment that the channel knows is closed there; a closed refund is real, final and
accounted for in the user's entitlement; a command has one owner at a time and a
replay is of the same payload; a maintenance operation has its lock for as long
as its lease lasts, leaves an executable behind and ends when the host stops; the
hold of a run is captured or released once, in agreement with the run's status,
and no open run is out of everybody's hands unless a worker has failed it.

## 2. Modules

    OrderStore     PaymentProvider
          \            /
          Fulfillment  ----- implements ----> EntitlementDelivery
         /     |     \
        /      |   MCFulfillment
       /       |
      |  OrderLifecycle ---- MCOrderLifecycle        RefundWorkflow
      |        |                                      /          \
      |  OrderLifecycleProofs              MCRefundWorkflow   RefundProofs
       \      /
    FulfillmentProofs

    IdempotencyCoordinator       MaintenanceOperations --- implements --> OperationLease
       /            \              /            \                             |
    MCIdempotency  IdempotencyProofs  MCMaintenance  MaintenanceProofs   OperationLeaseProofs

    CreativeQueue --- CreativeRun
                       /       \
                MCCreative   CreativeProofs

**OrderStore** is one row. Orders share nothing that these handlers read, so one
row is enough. `updated_at` as a version is only compared for equality with a
value read earlier: the set `holders` contains the workers whose remembered value
is still current, and `UpdateRow` empties it. `updated_at` as a clock is the
coarse `age` 0..3; the steps are the three delays the SQL compares with (one
minute before a retry, five for a lease, fifteen for the expiry back-off), and
`Tick` advances it.

**PaymentProvider** is the channel, external to the code: the payment moves
between absent (a QR code nobody has scanned), unpaid, processing, failed, paid,
paid with a wrong amount, and closed; emitted notifications stay in `notes` and
may be delivered any number of times.

**Fulfillment** has one action per database access of a handler. A worker is a
goroutine with a program counter and what it has read (`seen`, `msg`, `tries`).
Tail calls need no stack. The two services it calls are modelled by the
transaction they run: `Redeem` changes the code under its row lock, and
`AssignOrExtendSubscription` looks for its `source_order_id` under the user's
lock. Audit records on which decisions depend are kept; logging is not. Calls
under the lease may fail before or, where the code reads again after a commit,
after their effect. `Abort` is a crash, a cancelled context or a failing call
outside the lease. The end of the checkout request that created the order
(response saved, failed or abandoned) is an action of the environment: it races
with queries, cancellations and expiry. The buyer learns where to pay from the
answer of that request, which is sent after `PersistCheckoutResponse`
(`checkout.go:324`), so payments start when it has returned. The rejected case `n = "mismatch"` is
`ConfirmPayment`'s refusal.

**EntitlementDelivery** is the abstract promise: fund, deliver once, close.

**OrderLifecycle** composes Fulfillment with the handlers that look at the
channel. `goal` says what a worker is doing; `ApplyQueriedPaymentStatus` has the
step a caller takes on an open payment as parameter, as the two calls in
`CancelCore` differ in nothing else. `CancelPayment` closes an open trade; one
that the channel does not know is reported as closed and stays payable, as
Alipay's adapter does (`provider/alipay.go:365`), which the history variable
`missed` records. These handlers end in a call of
`HandlePaymentNotification` (`HandleQueriedStatus`), from where Fulfillment goes on.

**RefundWorkflow** is the refund of one completed order by several requests of
administrators. Every transaction compares `updated_at`, here a number since two
records refer to it. A plan, a receipt and a pending record are the same record
type `Facts`. Amounts are 1..`Total`, so partial refunds exist. A subscription is
whole, shortened by the deduction, revoked by it (when no days are left) or ended
by its owner. A forced plan may name days of a subscription that was not found
(`refund_prepare.go:125`): `found` says whether the deduction takes anything. The
order's `Total` and the payment `PayTotal` differ, and `GatewayAmount` converts
with the code's rounding; the channel uses the converted amount as its
idempotency key and refuses more than the payment in total. A refund query
without an id asks with the order's amount, as the code does, or is answered with
the latest refund (`LatestOnly`); `mistaken` records that a request went on with
the answer for another refund.

`OrderLifecycle` and `RefundWorkflow` meet only in COMPLETED: a refund starts
there, and the handlers of the former leave refund statuses alone. The one
exception is the unconditional `SaveUpstreamTradeNumber` of a stalled payment
query, which is `StaleTradeNumber` in the refund model.

**IdempotencyCoordinator** is `Execute` over the row of one key, one action per
statement. A request remembers its clock reading `at`, the row it read `seen` and
the row it claimed `own`; ids distinguish a row from one created again after
`DeleteExpired`. A response is the request whose command produced it, or
truncated. `ReturnedAt` is the clock when the command returned, which back-off
and expiry are computed from. `ExecutionTimeout` = 0 is a command without a time limit; with one,
the command and the write of its result have contexts that end, and
`EffectiveTTL` and `EffectiveLock` are stretched beyond them as in the code.
`Abandon` is a failing statement, a disconnected client or a crash.

**OperationLease** is the maintenance lock: claim, renewal loop, release and the
cleanup of the row, with answers that are lost after their effect. An operation
draws a fresh token, so it stands for its token. It is also the abstract
specification of what the lock promises its users. `overrun` is a history
variable: somebody outlived the lease it counts on.

**MaintenanceOperations** adds the users: update, rollback and restart, whose
work is the sequence of renames on the executable and its backup, the context
that a lost lock or a shutdown cancels, and `BeginStop`. Downloading and
verifying a release is one step. The code cancels the contexts in goroutines of
their own (`context.AfterFunc`, `operations.go:63,87`); the model cancels in the
step that causes it, and an operation that has not yet looked at its context is
an operation that looks late.

**CreativeQueue** has one action per Lua script, as they appear to one job.

**CreativeRun** composes the queue with the run row, the transient keys, the
outbox and the task funds. The creator is one process; workers and reconcilers
are agents with a program counter that share the result operations (`FailRead`
to `ReleaseDelete`), so these are written once and return to the caller's step.
Each status is entered at most once, so a version conflict is a changed status.
A heartbeat that finds the lease gone is `LoseLease`; a worker that is suspended
past its lease and comes back is `RecoverStale` with a fault. A deleted user
(`userGone`) has no funds to lock, so that every new reservation, capture and
release is refused (`Claimable`), and is missing at `AcquireUser`. `dropped` is a
history variable: a worker has acknowledged the job of a run that had not ended.
A key with a time to live goes when somebody is about to look at it
(`ExpireTransient`, `ExpireLock`, `MarkRunResultLost`): when exactly it went
before that look, nobody can tell. `attempts` does not count the error that
fails the run: a later error would fail it as well.

The map from definitions to lines is in `PROJECT.json`. Operators whose comment
begins with "Mutant of" are deliberately wrong variants used to test that the
properties can fail; no specification uses them.

## 3. Runs

| Run | Specification | What it shows |
|---|---|---|
| `MCOrderLifecycle` | `Spec`, 2 workers, 1 fault, symmetry | `TypeOK`, `EffectsAtMostOnce`, `NoGrantWithoutPayment`, `CompletedIsDelivered`, `AttemptsSuffice`, `PaymentNeverLost`, `CompletedIsFinal`, `ClosedBeforeCancelled` (3.4 million states) |
| `MCFulfillment` | `FFairSpec`, 2 workers, 1 fault | `FTypeOK`, and `KeepsPromise`: Fulfillment implements EntitlementDelivery, its liveness included (166 thousand states) |
| `MCOrderLiveness` | `FairSpec`, 1 worker, 2 faults | `OverdueLeavesPending` in spite of failing queries and the back-off; `RecordedIsDelivered`: the reconciler alone completes every recorded payment (326 thousand states) |
| `MCRefundWorkflow` | `RSpec`, 2 administrators, order amount 2 paid with 3, 1 fault, symmetry | `RTypeOK`, `RightsAccounted`, `RefundedAtChannel`, `RefundedIsFinal` (3.3 million states) |
| `MCIdempotency` | `ISpec`, 3 equal requests and 1 other, all durations 1, clock 0..4, symmetry | `ITypeOK`, `SingleOwner`, `ReplayMatchesPayload`, `BackoffHolds`, `LaterRequestReplays` (3.7 million states) |
| `MCMaintenance` | `MFairSpec`, 2 operations on 1 host, lease and retention 2, clock 0..2, 1 fault | `MTypeOK`, `LeaseIsExclusive`, `ExecutableKept`, `LeaseProtocol` (MaintenanceOperations implements OperationLease), `LossIsNoticed`, `StopDrains` (146 thousand states) |
| `MCCreativeRun` | `CSpec`, 2 workers, 1 reconciler, 1 attempt, the user may be deleted, 1 fault, symmetry | `CTypeOK`, `BillMatchesStatus`, `OpenRunIsReachable`, `InflightIsQueued`, `HoldMovesOnce`, `OnlyFailureDrops` (1.4 million states) |

Five runs state what a comment or a document says and end in a counterexample;
`PROJECT.json` quotes the sentence of each:

| Run | What happens |
|---|---|
| `MCBegunIsDelivered` | An order that failed at checkout and is paid late is fulfilled without `paid_at`. If the worker then stops, neither the reconciler nor an administrator's retry accepts the order. |
| `MCFailureIsNotGuessed` | A lost answer of the gateway is compensated like a refusal, though the money was refunded. |
| `MCStoredResultIsKept` | `TryReclaim` compares id, status and lock, but no version. Of two requests that read the same expired success, the second reclaims and executes after the first has stored a fresh one, also with an execution timeout (`ExecutionTimeout` = 1). `LaterRequestReplays` is what remains true. |
| `MCFailureFreesHold` | The reconciler fails a run that is still being created; its release finds no hold, and the hold reserved afterwards is never released. |
| `MCAckedIsTerminal` | Of two workers on one run the one with the lease fails it while the other, suspended past its lease, writes `running`: the refused transition is ignored, nothing is released, and the job of a run that has not ended is acknowledged. `OnlyFailureDrops` is what remains true. |

**Bounds.** Two workers are enough for a takeover (an old and a new owner) and
for each of the two-party races; a worker that has returned may start again as
anything else, so long sequences are covered. `MaxFaults` bounds crashes, failing
calls, leases that outlive their time while the holder is still running, and
repeated answers with an invalid amount. One fault already allows a takeover
followed by the return of the old owner; every path without faults is unbounded.
`MaxVersion` bounds the updates after which a new refund may start, which leaves
room for a second preparation after a first one was compensated. `Total` = 2 has
partial and full refunds, and with `PayTotal` = 3 the half of the payment is
rounded to 2: the gateway amount of the small refund is the order amount of the
large one, which is the confusion a query by amount can make.

In `MCIdempotency` three equal requests are one owner, one that races with it and
one that comes later; the fourth has another payload and refuses long responses
(`StrictLimit`). With all durations 1 a row lives for two units, so four units
allow a row to expire, be deleted or reclaimed and expire again; every request
may stop anywhere. In `MCMaintenance` the two operations share a host, since
operations of different hosts share only the lock, and the clock runs over a
whole lease, so that a holder can be outlived by a second claim. Answers may be
lost any number of times. In the creative runs one fault is a failing call, a
crash, a suspended worker, a deleted user or a full slot at any step; retries
without a fault are unbounded. `MCCreativeRun` has two workers, one with the
lease and one without, beside the reconciler and the creator; with one attempt
per run an execution error is final, and a retry after one differs from a
requeue only in the counter. The theorems below cover any number of workers,
reconcilers and attempts. Deadlock is checked where the system never stops
(`MCFulfillment`); the other systems may rest, and their runs say so. The safety
theorems below need none of these bounds.

**Fairness.** A running goroutine goes on (weak fairness of each worker's step)
and time passes. The payment reconciler ticks on a goroutine of its own
(`expiry.go`), so the job that looks for paid or overdue orders is strongly
fair: a worker of the model being busy at some tick does not stop it. Under
`KeepsPromise` the channel redelivers a success until it is acknowledged; the
webhook handler acknowledges a success only when the handler returned without
error. Without this assumption a payment that settles after a cancellation, and
whose notifications are all lost, is found by nobody, as no job scans cancelled
orders. `MFairness`: statements end, at the latest with their context; work whose
context is cancelled returns; the renewal ticker fires again and again and the
store does not refuse every renewal (strong fairness of `RenewOperation`). Work
whose context is alive need not end. Faults are finite.

No liveness is stated of creative runs: a run whose success is recorded need not
come to its end, since the settlement of a deleted user is refused for ever and a
job may be acknowledged early (section 5). `OpenRunIsReachable` and
`OnlyFailureDrops` say what the code does ensure: an open run is in the queue, in
an event or in its creator's hands, and a settlement is never given up.

## 4. Proofs

Seven modules hold theorems. Each is for every value of the constants that
satisfies the named assumptions of the component; a theorem with a further
hypothesis names it. `OrderLifecycleProofs` extends `FulfillmentProofs` and uses
its lemmas, since the lifecycle's steps contain those of the fulfillment.

| Module | Theorem | Property |
|---|---|---|
| `FulfillmentProofs` | `FTypeCorrect` | `FTypeOK` |
| | `FulfillmentImplementsPromise` | `Promise!DSafe`, the safety part of `KeepsPromise` |
| `OrderLifecycleProofs` | `TypeCorrect` | `TypeOK` |
| | `PaymentSafety` | `NoGrantWithoutPayment` |
| | `PaymentKept` | `PaymentNeverLost` |
| | `CompletionFinal` | `CompletedIsFinal` |
| | `CompletionSound` | `CompletedIsDelivered` |
| | `AtMostOnce` | `EffectsAtMostOnce` |
| | `LoopsSuffice` | `AttemptsSuffice` |
| | `CancellationSound` | `ClosedBeforeCancelled` |
| | `LifecycleImplementsPromise` | `Promise!DSafe`, of the whole lifecycle |
| `RefundProofs` | `RefundInvCorrect` | `RefundInv`, the inductive invariant |
| | `RTypeCorrect` | `RTypeOK` |
| | `RightsAccountedCorrect` | `RightsAccounted` |
| | `RefundedAtChannelCorrect` | `RefundedAtChannel` |
| | `RefundedIsFinalCorrect` | `RefundedIsFinal` |
| `IdempotencyProofs` | `ICorrectTypes` | `ITypeOK` |
| | `OneOwnerAtATime` | `SingleOwner` |
| | `BackoffIsKept` | `BackoffHolds` |
| | `LaterRequestsReplay` | `LaterRequestReplays` |
| | `ReplaysMatch` | `ReplayMatchesPayload` |
| `OperationLeaseProofs` | `LCorrectTypes` | `LTypeOK` |
| | `LeaseExcludes` | `LeaseIsExclusive` of the lock |
| `MaintenanceProofs` | `MaintenanceUsesLease` | `LeaseProtocol`: every step maps to a step of the lock or a stutter |
| | `MaintenanceExcludes` | `LeaseIsExclusive` of the operations |
| | `MCorrectTypes` | `MTypeOK` |
| | `ExecutableSafe` | `faults <= 1 => ExecutableKept`, for any `MaxFaults` |
| | `ExecutableKeptCorrect` | `ExecutableKept`, if `MaxFaults <= 1` |
| `CreativeProofs` | `CTypes` | `CTypeOK` |
| | `NoJobIsStranded` | `InflightIsQueued` |
| | `HoldIsMovedOnce` | `HoldMovesOnce` |
| | `BillAgrees` | `BillMatchesStatus` |
| | `OpenRunIsReached` | `OpenRunIsReachable` |
| | `EarlyAcksAreFailures` | `OnlyFailureDrops` |

**Orders** (assumptions `RebateAssumption`, `FaultsAssumption`). None of the
properties is inductive, because what a worker does next depends on what it read
earlier. The strengthening has one named part per reason:

* `GoalInv`: a worker inside `CancelCore` has the goal CANCELLED or EXPIRED, so
  the status it writes is one of these. Needed for the types.
* `PaymentInv`: every trace of a success (in the row, in a notification, in the
  message or program counter of a worker) implies that the channel settled the
  right amount, and a recorded payment excludes the unpaid statuses.
* `DeliveryInv`: `granted` is 1 exactly when the redeem code is used or the
  subscription row exists, and a worker past a step finds the step's effect, no
  matter who produced it. This is why a takeover neither repeats nor skips.
* `NoticeInv`: only the worker that wrote COMPLETED is about to send the mail.
* `RaceInv`: statuses have a `Rank` that never decreases, and a loop that lost a
  race has at most `Rank(seen)` iterations behind it. Five and three iterations
  are therefore enough for any number of workers, not just for two.

* `ClosingInv`: as long as the channel has not reported a failure, a handler
  that is about to write CANCELLED has closed the payment, was told by the
  channel that it is closed, or asked to close a trade the channel did not know
  (`missed`). The last and a report of failure are the ways around the closing,
  and the property excepts them.

`RowMoves` and `QuietSteps` collect, once, how each action may move the row and
which actions leave it alone. The refinement maps `upstream = "paid"`, `granted`
and `status = "COMPLETED"` to the promise's `funded`, `deliveries` and `closed`.
`PaymentInv` and `DeliveryInv` make the steps that change one of them the
promise's own (a grant finds the payment settled and nothing granted, a
completion finds the grant made); every other step is a stutter (`PromiseKept`).

**Refunds** (`TotalAssumption`, `BoundsAssumption`, `LatestAssumption`). The
argument is that `updated_at` works as a version: a transaction that compares it
overwrites nothing it has not read. `RightsAccounted` alone is not inductive,
since a handler gives back what its plan says, not what the row says. `RefundInv`
adds

* `RecordInv`: a receipt is no younger than the order, and a pending record names
  the refund of the amount the order records;
* `PlanInv`: what a handler remembers, at each of its steps, is the receipt or
  describes the order *if* its version is still the current one. A plan with an
  old version may say anything; the comparison stops it;
* `RightId`, in both: the id of an answer is that of the refund of the recorded
  amount, unless some answer was `mistaken`;
* `AnswerInv`: a success a handler was told of is one the channel has made;
* `ChannelInv`: an answer is mistaken only if `InexactQuery` holds, that is, if
  the channel answers with its latest refund or some order amount differs from
  its gateway amount. Where neither is the case, `RefundedAtChannel` has no
  exception;
* `BalanceInv`: subscription orders leave the balance alone.

The transactions are classified once (`Prepares`, `Completes`, `Postpones`,
`GivesUp`, `Confirms`, `Rejects`), and each part is proved per class.

**Idempotency** (`PayloadAssumption`, `TimesAssumption`, `LimitAssumption`,
`RequestAssumption`; the durations are arbitrary).

* `OwnerInv`: the contexts of an owner end before the lock and the expiry it has
  written (`ContextInv`, `RowInv`), and clock readings lie in the past
  (`ReadingsInv`), so nobody else finds the row free or expired. This is the
  argument for the stretched `EffectiveTTL` and `EffectiveLock`.
* `PayloadInv`: rows are numbered and keep their payload (`NumberInv`), and a
  stored response is of the payload of its row (`BodyInv`); a late write meets
  the row it owned or none.
* `ClaimInv` and `ReturnInv`: a success stored after a request found the row
  expired, and the return of its command, are no older than the request's clock
  reading.

**Maintenance lock** (`LeaseAssumption`: the retention is at least the lease).
`LeaseInv` is the types with `ReadingInv` (clock readings lie in the past),
`HolderInv` (a lease that lasts is backed by the row's lock and expiry) and
`RenewalInv` (a renewal under way does not shorten the lease, even if its answer
is lost). `MaintenanceUsesLease` shows that the operations refine the lock with
the identity mapping, and the lock's theorems carry over through it.

**The executable** (in addition `HostAssumption`, `VersionAssumption`: a missing
file is no version). `ExecutableKept` needs that nobody else touches the files
between the two renames, which only the lock gives. `FileInv` adds to the lock's
invariant `StageInv` (work happens under the lock), `InTime` (without an overrun
every lease of a holder runs), `ReplaceInv` (an operation between the renames has
its executable in the backup, and a host whose operation died there starts none)
and `KeptInv`. From `HolderInv` and `InTime` follow `NobodyBetween` and
`AloneBetween`: while an operation works under its lock, no other operation of
its host is between the renames. The second fault is a real
limit: a restore that fails as well leaves the host without an executable.

**Creative runs** (`WorkersAssumption`, `CreativeAssumption`). `CInv` consists of
`PcOK` and `DataOK` (types), `RouteInv` (a release has a target, a reconciler
writes an existing phase), `MoneyInv` (status, request ids and amounts agree) and
`GuardInv`: what an agent that is about to move money has established and nobody
takes away again. An agent before `Release` knows that the run is given up
without a success; one before `Capture` knows that a success is recorded. The two
exclude each other and both last (`Lasting`); this replaces the check that
`Capture` and `Release` do not make in the database. `QueueSteps` reduces the
queue invariant to the queue's own operations.

`OpenRunIsReached` and `EarlyAcksAreFailures` add `ReachInv`. `EventInv` says
that a completed outbox event leaves the run ended or its job queued and that a
recorded success has its settle event, and `StartedInv` the former of a run some
worker has started. `WorkerReach` says why a worker may acknowledge its job: the
run has ended, or its goal is a failure or a missing user. `ReconcilerReach` is
what a reconciler knows before it completes an event. The number of workers,
reconcilers, attempts and faults is arbitrary, and the user may be deleted.

Each part was model-checked before it was proved. Every step lemma has one case
per action.

Only model-checked is liveness (`OverdueLeavesPending`, `RecordedIsDelivered`,
`LossIsNoticed`, `StopDrains` and the fairness part of `KeepsPromise`), since the prover has no rules for fairness or ENABLED. Every
invariant and every action property that a passing run checks is stated by a
theorem. Nothing here needs a recursive definition.

## 5. Behaviour the models contain and the code allows

The models contain these executions. The properties above hold in spite of them;
a stronger property one might expect does not, and is therefore not stated.

Payment:

* `fulfillment.go:337` reads the lease version back after the claim, so a stalled
  claimer may pick up the version of its successor; and `fulfillment.go:390`
  grants without looking at the lease again. Two workers may deliver at once;
  the grant is still made once only.
* `provider/alipay.go:365`: cancelling a trade that Alipay does not know yet
  succeeds and closes nothing. The order is CANCELLED, its QR code can still be
  scanned and paid; the late success then recovers the order
  (`fulfillment.go:225`). Airwallex answers likewise for an order without a trade
  number, but there the query before it already refuses the empty reference
  (`order_lifecycle.go:190`).
* `fulfillment.go:361`: any error of looking up the code is taken for a missing
  code, and the code is created again, which its unique key refuses.
  `docs/domains/payments_and_entitlements.md:99` says that a failed lookup ends
  the fulfillment. Nothing is granted twice either way.
* `refund_prepare.go:125`: a forced refund whose subscription is not found
  deducts nothing, and its `REFUND_SUCCESS` record still states the days of the
  plan, where `docs/domains/payments_and_entitlements.md:119` promises the actual
  deduction. `RightsAccounted` counts what was taken (`Taken`).
* `refund_prepare.go:148`: the balance is checked before, and deducted in,
  different transactions; an unforced refund may take less than its amount.
* `refund_workflow.go:148`: the compensation of a refund whose deduction revoked
  the subscription fails, and the order stays in REFUNDING.
* `refund_workflow.go:81` asks for a refund with the order's amount, while
  `refund_helpers.go:41` has made it for the gateway amount; WeChat derives the
  refund number from it (`provider/wxpay.go:467,492`), and Stripe answers a query
  without a refund id with the latest refund (`provider/stripe.go:605`). In the
  model: a refund of 1 (gateway 2) is made, its answer is lost and it is
  compensated as a failure; a refund of 2 is prepared, its handler stops before
  the channel is called, and the recovery of another administrator asks for a
  refund of 2, finds the first one and closes the order as refunded in full,
  although 2 of 3 were paid back. `RefundedAtChannel` excepts refunds closed on a
  mistaken answer, and says that there is no other exception.

Idempotency:

* A command without an execution timeout may outlive its row; a retry then runs
  beside it. `SingleOwner` is a promise of timed commands only, and at present no
  production caller sets `ExecutionTimeout`.
* The row of an owner that died in `processing` blocks its key until
  `expires_at`, not until `locked_until`: only expired rows and failed ones are
  reclaimed.

Maintenance:

* The configuration does not compare the retention of the lock row with the
  lease. A shorter retention lets the cleanup delete a lock that is held.
* `provider/binary.go:140` removes the backup before the renames, so an update
  that then fails has no older version to roll back to; a crash between the
  renames leaves no executable. `ExecutableKept` is stated for one failing file
  operation and for as long as nobody has outlived its lease; it is proved up to
  the second fault, and fails after it when the restoring rename fails too.

Creative runs:

* `worker.go:320`: when the user is missing and the run cannot be ended, the
  error is dropped and the job acknowledged.
* `billing/postgres/settlement.go:106`: capture and release of a deleted user are
  refused whenever they are tried. The run stays in `settlement_pending` or
  `release_pending` and is queued again and again.
* `results.go:426`: `FailRun` ignores a refused transition, and `ReleaseRun` then
  finds nothing to release and returns without error, so `worker.go:518` reports
  the run as ended and its job is acknowledged (`MCAckedIsTerminal`). If the
  worker that moved the run on goes on to record a success, the outbox events of
  that success may find the job still in flight, enqueue nothing and be completed
  before the acknowledgement; the run then stays in `provider_succeeded`, and
  nobody looks at it again. What is charged stays right.
* `worker.go:364`: the last look at the run stops only at a terminal status, so a
  worker may call the provider for a run whose success another has recorded.
* `results.go:182`: any error of reading the payload is taken for its loss.
* `public.go:807` and `worker.go:392`: the creator gives up a run after it was
  queued, because a phase write failed; its worker then retries a recording that
  the status refuses, for as long as its heartbeat lasts.
* `rediscache/queue.go`: `RecoverStaleActive` deletes the inflight key, so the
  job can be queued twice, and a worker that lost its lease is not fenced in the
  database. `HoldMovesOnce` and `BillMatchesStatus` hold all the same.
* `recoverPersistedProviderResult` applies only to rows of an older version: the
  present code records a success and its status in one transaction.

## 6. Not modelled

* Contents of messages: signatures, metadata, invoice data, currencies, names.
  A notification in the model has passed verification.
* Several orders at once: the paging of the background scans, the limits on
  pending orders and on cancellations, the choice of a provider instance.
* The leader lock of the background runner; the models allow any number of
  concurrent rounds, so nothing depends on it.
* Refunds of orders without a trade number, which skip the channel; Alipay, which
  has neither an idempotency key nor a refund query in this code; the legacy
  status `REFUND_ROLLBACK_FAILED`.
* Commands without an idempotency key and the observe-only mode, which execute
  without a record; `ExtendProcessingLock`, which has no caller.
* The seven-day expiry of the inflight key; amounts, usage log and subscription
  allocation of the task funds; free groups and the legacy status `cancelled` of
  creative runs; validation, pricing and moderation before the run's row exists.
* Most of the repository by lines is generated (`ent/`), request conversion
  (`gateway`, `protocol`, `upstream`), configuration and user interface. These
  keep no state that several actors race for, or only through the parts above;
  a model of them would be a transliteration.

## 7. Plan

1. Checkout limits (several orders of one user) and the paging of the reconcilers
   over a changing set; the leader lock of the background runner.
2. Scheduler concurrency slots and batch images, which are built like the
   creative queue.
