# Formal models of the sub2api-plus gateway

sub2api-plus is an API gateway in Go: clients call it with API keys, it picks an
upstream account, forwards the call, and charges the user. Several gateway
processes run side by side over one PostgreSQL and one Redis. This project models
the parts where those processes share state and where time, crashes and lost
answers decide whether a limit or a payment is right. It has TLA+ modules, TLC
configurations and TLAPS proofs.

Paths are relative to `src/backend/internal/` unless they start with `src/`.

## 1. Inventory

| part | state | operations | what is hard | what makes it correct |
| --- | --- | --- | --- | --- |
| request concurrency slots (`service/concurrency_lease.go`, `service/concurrency_owner_recovery.go`, `repository/concurrency_cache.go`) | one Redis sorted set per user and per account; per process a table of owners it may have to remove | admission, renewal, release, retry of failed releases by admissions and by a cleanup worker, startup cleanup | replies lost after the script ran, commands executed late, crash with slots in Redis, limits edited meanwhile, table at its capacity | whoever calls upstream holds a live slot; the limit holds over all processes; no slot is leaked or resurrected |
| WebSocket ingress lease (`service/concurrency_service.go`) | one sorted set per API key; a renewal goroutine per session | acquire, refresh loop, release | renewals that fail are tolerated for a while; the member expires meanwhile | confirmed sessions stay within the cap; a lost session is closed |
| in-flight balance reservation (`service/billing_inflight_reservation.go`, `repository/billing_inflight_cache.go`, `handler/gateway_inflight_reservation.go`) | amounts per request in Redis; a reference-counted handle; the cached balance and its write queue | reserve, increase, renew, release; charge and cache deduction | handler and billing task end in any order; cached balance written asynchronously; TTL against long streams | reservations stay within the balance and last until the price is deducted |
| idempotency store (`repository/idempotency_repo.go`) | a row per scope and key | create, read, reclaim, extend, mark, delete expired | conditional updates by status and times computed earlier | used by the next two |
| system operation lock (`service/system_operation_lock_service.go`) | one row of that table | acquire, renew, release | operations that crash or restart the process; takeover | one system operation at a time |
| idempotency coordinator (`service/idempotency.go`, `service/idempotency_cleanup_service.go`) | the row of the key | claim, execute, renew, store the result, replay, cleanup | concurrent requests with one key, takeover of failed or expired rows | one execution at a time, genuine replays, keys that do not stay blocked |
| batch image jobs (`service/batch_image_*.go`, `repository/batch_image_repo.go`, `repository/batch_image_queue.go`) with unfinished task reservations and balance holds (`repository/usage_billing_repo.go`) | a job row, frozen balance and claimed request ids, a reservation row, a Redis queue with a lock per job, the provider's batch | submit, cancel, idempotent retry, stale submission scan, poll, index, settle | five stores and no transaction over two of them; provider answers that are lost; workers that outlive their lock | running work is funded and counted; a hold is captured or released once; queued jobs settle |
| payment fulfilment (`service/payment_fulfillment.go`, `service/payment_order_lifecycle.go`, `service/redeem_service.go`) | order row with a lease by version, redeem code, balance, audit log | webhook, verify, cancel, expire, retry; confirm, lease, redeem, rebate, complete | repeated and late webhooks, lease takeover, lost replies | one payment, one credit, one rebate; an acknowledged webhook is credited |
| refunds (`service/payment_refund.go`) | the order row, refunded amount, audit log | request, prepare, execute, roll back, finalize a pending one | gateway answers that come later, failed rollbacks, several partial refunds | order, cash and credit agree; pending refunds are decided |
| execution domains, Live sessions, worker slots | cancellation domain of an execution with several slots | delegate, hand over, cancel | a slot lost under one of several owners | one domain is cancelled as a whole |
| usage billing, worker pool | billing transactions, a bounded pool | submit, apply with a request fingerprint | a full queue, retries | charged at most once |
| OAuth refresh, user message queue, RPM, session limit, leader lock | locks and counters in Redis | lock, refresh, unlock, count | expiry under a slow holder | a refresh token is used once |
| account scheduler, rate limiting and failover | snapshots, cool-downs | select, mark, rebuild | stale snapshots | policy |
| image tasks, admin, settings, provider adapters, monitoring, frontend | database rows, none, metrics | CRUD, translation | little concurrency of its own | not in the core |

Interactions: a gateway handler takes the user's slot, reserves balance, picks an
account, takes the account's slot, raises the reservation to the account's price,
calls upstream while both leases are renewed, submits the billing task, and gives
the slots and its reference to the reservation back. The billing task charges in
PostgreSQL, lowers the cached balance and gives the last reference back. Admin
requests go through the coordinator, system operations through the lock; both are
clients of the store. A batch image job freezes its price with a billing command,
reserves capacity in the unfinished-task table, is created at the provider and goes
through the Redis queue. A paid recharge order becomes a redeem code whose
redemption credits the balance; a refund works on the same order row.

`PROJECT.json` lists all parts ("components") and the hazards of the code, each at
its line with the properties that would catch it going wrong.

## 2. Modules

| module | models | proofs |
| --- | --- | --- |
| `ConcurrencyLease` | slots, renewals, recovery table, cleanup worker | `ConcurrencyLeaseProofs` |
| `WSIngressLease` | the lease of a WebSocket session | `WSIngressLeaseProofs` |
| `InflightReservation` | reservations, handle, billing task, cached balance | `InflightReservationProofs` |
| `IdempotencyStore` | a row and the repository's statements, as operators | `IdempotencyStoreProofs` |
| `SystemOperationLock` (extends the store) | the lock of system operations | `SystemOperationLockProofs` |
| `IdempotencyCoordinator` (extends the store) | requests with one key | `IdempotencyCoordinatorProofs` |
| `BatchImageJob` | a batch image job with its hold, reservation, queue and provider batch | `BatchImageJobProofs` |
| `RechargeContract` | abstract: what a recharge order promises | |
| `PaymentOrder` (implements `RechargeContract`) | a recharge order and everybody who works on it | `PaymentProofs` |
| `PaymentRefund` (extends `PaymentOrder`) | refunds of that order, composed with its fulfilment | `PaymentProofs` |
| `MC*` | the small instances TLC checks | |

Conventions. An action is one atomic step of the code: a Redis script, an SQL
statement, a critical section of a mutex, or the local code between two of them.
Time is discrete and relative: a countdown such as `slot[r]` is the number of ticks
before a Redis member is too old, so that states do not grow with time; `Tick` is
the only action that lowers countdowns and it is disabled while a command or a
renewal would miss its timeout. A command that fails at the client has been
executed, or is put in `late` and may be executed at any later time
(`DeliverLate`) or be lost (`DropLate`). Operators such as
`AdmitsOneTooMany`, which stand before the definition they resemble and which no
action uses, are faulty variants: with one of them in the definition's place, the
property it is listed with in `PROJECT.json` fails.

**ConcurrencyLease.** `phase[r]` is the position of request `r` in
`acquireRequestSlot` and after it. The admission is `ResolveLimit` (the limit read
from the database, or the account's snapshot), `ClaimGroup` and `RecoverOne`
(`recoverConcurrencyOwners`), `Reserve` (`reserveConcurrencyOwner`), `ExecAcquire`
(the Lua script), `ReplyAcquire` or `AcquireError`. `Refresh` and `RefreshError`
are an iteration of `refreshRequestLease`; a renewal that is not confirmed ends the
execution. `Finish`, `Reclaim`, `ReclaimError` are the `ReleaseFunc`.
`CleanerClaim` and `CleanerRecover` are the cleanup worker. `owners`, `pending`,
`busy`, `left` are the maps of `concurrencyOwnerRecovery` of all instances
together; `Crash` empties those of one instance. Expired and absent members are
the same, since every script purges before it looks. A history variable, `stray`,
marks the slots written by a command that Redis executed after its client gave up
and after everything that would remove it had ended.

**WSIngressLease.** `Send`, `Exec...`, `Reply...`/`...Error` split each command at
Redis. `TooLong` is the comparison of the elapsed time in `refresh`. The code makes
it only after a failed renewal, and renewals start at ticks of 20 s, so a session
may stay open for up to `LeaseTTL + Interval + OpTimeout` without confirmation
(the bound in `TypeOK`, proved), and not only for the "one full lease TTL" of the
comment on `refresh`.

**InflightReservation.** Two layers: the Redis scripts (`ReserveScript`,
`UpdateScript`, `RenewScript`, `ReleaseScript`) and the handle (`refs`, `amount`,
`owed`), with the renewal goroutine and the billing task (`Submit`, `Charge` or
`NotCharged`, `Sync`, `TaskDone`). `ReadBalance`/`Reserve` and
`BeginIncrease`/`Increase` are separate steps because the balance is read before
the script runs. The cached balance has its asynchronous writers (`CacheWrite`)
and may disappear (`Evict`). A second attempt to reserve has a new reservation ID
and is another member of `Requests`.

**IdempotencyStore, SystemOperationLock, IdempotencyCoordinator.** A statement is
its WHERE clause (`Reclaimable`, `Extendable`, `Marks`, `Deletable`) and the row it
leaves. A caller takes `time.Now()` once; `age` is the time since, at most `Slack`,
and every time it writes or compares is relative to it. In the coordinator,
requests in `Detached` have an `ExecutionTimeout` and renew their claim until
`TimeOut`; the others never renew. `pc[r] = "failed"` stands for every outcome
without an execution (conflict, in progress, backing off, store unavailable,
process died), since no property tells them apart.

**BatchImageJob.** `job`, `money`, `task`, `queue`, `upstream` are the five stores:
the job row, the billing tables (balance, frozen balance and the request ids that
were claimed), the row of `gateway_unfinished_tasks`, the Redis queue, and the
provider. `Submit...` are the calls of `Submit` in their order, with its failure
paths; `CancelRead`/`Cancel...` and `ResubmitRead`/... a later request of the owner;
`Recover...` the scanner `ReleaseStaleUnsubmittedOnce`; `Worker...`, `Process...` and
`Settle...` a queue worker with the provider processor and the settlement. A failed
call has taken effect or not. The row of a submission may become stale at any time
(`JobAges`). `Missed` is the stall of a worker that is alive: it loses its lock and,
since one goroutine refreshes both, its active entry. `stalled` remembers that this
happened.

**PaymentOrder, RechargeContract.** A handler (`handler[h]`) is a webhook delivery,
a verification, a cancellation, an expiry or an admin's retry; each enters at its
own place and goes through `Confirm`, `Lease`, `Version`, `Lookup`, `Create`,
`Redeem`, `ApplyRebate`, `Complete`, or the failure path. `order.aged` stands for
both five-minute periods measured from `updated_at`, grace and lease; `holders` are
the handlers whose lease version is the row's `updated_at`. `order.tradeNo` says
whether the provider's number of the payment is stored: an order starts with or
without one, a query may store it (`SaveTradeNo`), and `toPaid` overwrites it with
what the notification carries, which may be nothing. Under the mapping
`paid <- order.paid`, `done <- order.status \in Settled`, `PaymentOrder` implements
`RechargeContract` (`ImplementsContract`): the contract has four atomic steps, the
code statements on three tables by several actors.

**PaymentRefund.** Shares the order row with `PaymentOrder`, whose actions go on
beside it. An admin's plan (`admin[a]`) is what `PrepareRefund` read; `Lock`,
`Deduct`, `Gateway`, then `MarkRefundOk`, `MarkRefundPending` or
`Rollback`/`Restore`/`RefundFailed` are `ExecuteRefund`. `query[q]` is
`QueryAndFinalizeRefund`. `audits` is the set of actions in the audit log, since its
unique index decides whether a transaction commits; an entry that is written outside
a transaction may fail, which the code only logs (`WriteAudit`, `Rollback`).
`Gateway` has three branches. `Skip`: the plan has no trade number, so no gateway is
asked and the refund counts as made. `Repeat`: `gateway.keyed` is a gateway whose
idempotency key is order and amount, and it repeats its first answer to an equal
refund. `Refund`: the gateway is asked and pays, defers, refuses or fails.
Three auxiliary variables, which no action reads, add up what the code's own books
do not show: `skipped`, `repeated`, and `untold`, a deduction for which both the
rollback and the audit entry that should record it failed. Assumptions: a gateway
call whose answer is lost made the refund; paid amount and credit are the same
number. `astray` remembers that a reply or a process was lost between two stores,
after which the code has no recovery.

## 3. Runs

Every number below is from one run with two workers.

| run | instance | checks | states |
| --- | --- | --- | --- |
| `lease` | 2 requests of one user on 2 instances, limit 1, table of 1, 2 faults, fair | `ExecutionsWithinLimit`, `NoResurrection`, `EndedSlotsVanish`, `RecordsDrain` | 15 k |
| `lease_recovery` | 1 instance, a user with 2 requests and an account with 1, limits 0 and 1, table of 2, batch of 1, 2 faults | `ExecutionHoldsSlot`, `SlotsAreRecorded`, `RecordOutlivesSlot`, `BusyHasOneWorker`, `OwnersWithinCapacity`, `LoweredLimitSeesEarlierWork` | 1.8 M |
| `ws_lease` | 2 sessions, cap 1, any number of faults, fair | `ConfirmedWithinCap`, `NoResurrection`, `LostSessionsClose`, `LeakedLeasesVanish` | 46 k |
| `inflight` | 2 requests, amounts 1 and 2, balance 2, 1 fault | `HeldWithinBalance`, `HeldUntilSettled`, `NoLapseWhileServed`, `HoldOnlyGrowsOrEnds`, types | 3.7 M |
| `inflight_liveness` | 1 request, 2 faults, fair | `ReservationsEnd` | 15 k |
| `system_lock` | 3 operations, two with one ID, 1 fault, fair | `OneOperationAtATime`, `CreatorKeepsLock`, `LockOpens` | 0.15 M |
| `system_lock_renewal` | the same, no fault | violated: `RenewedWhileHeld` | |
| `idempotency` | 3 requests, 1 detached, the third with the same or another payload, 1 fault, fair | `OneExecution`, `ReplayIsGenuine`, `DetachedKeepsRow`, `SuccessIsFinal`, `KeyIsFreed` | 1.3 M |
| `batch_image` | 1 job, 1 later request of the owner, 2 workers, the scanner, 1 fault or worker stall, submissions as slow as they like, another job's hold beside it, a result cheaper or dearer than the hold, fair | `SubmittedIsFunded`, `HoldEndsOnce`, `LiveBatchKeepsCapacity`, `QueueKeepsJob`, `EndIsFinal`, `QueuedJobsSettle` | 0.9 M |
| `payment` | 2 handlers of any kind, 2 faults, fair | `AckedIsSettled`, `ImplementsContract`, `PaidIsCredited` | 62 k |
| `refund` | 1 handler, 1 admin, 2 queries, amount 2, 1 fault, both kinds of gateway, with and without trade number, fair | `RefundBooksAgree`, `PendingKeepsDeduction`, `FirstPendingConverges` | 1.1 M |
| `refund_pending` | 1 handler, 1 admin, 1 query, no fault, fair | violated: `PendingConverges` | |

Why the bounds are enough. Two requests on two instances, or two on one with a third
in another pool, give every relation two requests can have. A limit
or cap of 1 is the tightest; a table of 1 or 2 and a batch of 1 make the full
table and the partial batch happen. A slot TTL of 3 with a timeout and a renewal
of 1 each is the smallest that satisfies `RenewalAssumption`; the lease of a
session lasts three intervals, as in the code. `MaxFaults` bounds failed commands
and crashes in one behaviour: one fault reaches every error branch, a second one
an error during the recovery from the first. The session model needs no such
bound. Three requests on one key are needed for a first one to leave a row and two
to fight over it. Two workers are a straggler and its successor; one stall makes
both lapse. `OtherFrozen` equal to the hold lets a second payment out of the frozen
balance go unnoticed by the database, so that the model has to notice it. Two
handlers with an unlimited number of calls each are any two of webhook,
verification, cancellation, expiry and retry at once; the proofs are for any number.
An amount of 2 allows a partial refund, a second one and a full one; with two
queries the same outcome is finalized twice. `RefundBooksAgree` is exact: between
refunds the order's refund amount is the cash paid back plus `skipped` plus
`repeated` (none of the latter with a gateway without keys), and the credit taken,
less `untold`, is no more than that, unless a kept deduction is on record. So the
code can count a refund without cash on the two paths that are named, lose credit on
the third, and on no other path. The run has one refunding admin at a
time: the code has no version check against two. Requests and operations
are used once, so behaviours end and deadlock is not checked, except in
`WSIngressLease`, where the clock always runs. Symmetry is used only in
safety runs, over requests with the same instance and pool.

Fairness. Weak fairness of the clock, of the steps of goroutines between two
commands, and of "a command is answered or fails" (every command has a timeout:
`regularLeaseOperationTimeout`, `openAIWSIngressLeaseOperationTO`, the reserve and
renew timeouts; `ContextTimeoutEnabled` is set for the Redis client), of late
commands being executed or lost, of the cleanup workers and of the restart of a
process. Nothing is assumed of clients, handlers and executions: requests need not
arrive, executions and sessions need not end. In the coordinator only the claim's
statements, the clock and the cleanup are fair. In `BatchImageJob` the submitting
request, the workers' loops, the timers of the queue and the scanner are weakly fair
and the provider finishes what it accepted; the owner's later requests need not
come. In `PaymentOrder` handlers run to their end (each has a context with a
timeout), and a webhook that was not answered with success is delivered again: strong
fairness, since a delivery needs a free handler; that is the documented behaviour of
the providers, and the reason the handler answers with errors. In `PaymentRefund`
the gateway decides what it accepted and somebody asks for a pending refund.

What the violated runs show (quotations and lines in `PROJECT.json`, "findings"):

- `system_lock_renewal`: an operation that takes over the row of an earlier one
  cannot renew it, because the row keeps the earlier fingerprint. Its lock opens
  after one lease although it is still running. `CreatorKeepsLock` checks the
  other half: whenever the operation's own ID is in the row, renewals keep it.
- `refund_pending`: the outcome of a pending refund is written in one transaction
  with an audit entry that is unique per order and action. After an earlier refund
  of the order succeeded, the second outcome can never be written and the order
  stays pending. `FirstPendingConverges` checks the other half.

Statements that TLC refutes and that have no run of their own. Each is defined in
its module and can be reproduced by putting it in place of the properties of the
named configuration:

| statement | configuration | what happens |
| --- | --- | --- |
| `InflightReservation!ReleasedWorkIsDeducted` | `InflightReservation.cfg`, `MaxFaults = 0` | a balance read from the database on a cache miss is written to the cache after a deduction that found no key, so the cached balance is too high after the reservation was given back |
| `IdempotencyCoordinator!SingleSideEffect` | `IdempotencyCoordinator.cfg` with `Spec`, `Assignments <- MCSamePayload`, `Detached = {}`, `Slack = 0`, `MaxFaults = 0` | the takeover of an expired row does not look at the expiry again, so a request that read the row before takes over a success stored meanwhile; `SuccessIsFinal` checks that this is the only way |
| `BatchImageJob!RunningBatchIsCounted` | `BatchImageJob.cfg` | Cancel reads the job before the provider's batch is adopted and ends it afterwards: capacity and hold are free, the batch runs |
| `BatchImageJob!NoStrandedHold` | `BatchImageJob.cfg` | Cancel of a created job releases a hold that is not there yet and claims the release id; Submit then takes the hold, and every later release is a duplicate |
| `BatchImageJob!StragglerPaysNobody` | `BatchImageJob.cfg` | a worker that lost its lock refunds while its successor captures: both take from the frozen balance |
| `QueuedJobsSettle` without `stalled` | `BatchImageJob.cfg` | a worker that chose the provider processor before its predecessor moved the job to settling acknowledges it: the job leaves the queue unsettled, and nothing enqueues it again |
| `RefundBooksAgree` for two admins | `PaymentRefund.cfg` with `Spec`, `Admins = {a1, a2}`, `Queriers = {q1}` | both plan from the same refunded amount; the second one waits for the first to end and then books its own total over it, so more cash is gone than the order counts |

## 4. Proofs

The theorems hold for all values of the constants that satisfy the named
assumptions; TLC evaluates the assumptions in every run. The non-temporal part of
each is an inductive invariant, one proof step per action, which TLC checked on
the instances above before it was proved.

- `ConcurrencyLeaseProofs`. `LeaseInvariant` has the types, `Bookkeeping` (which
  phases have a record, which requests retries and late releases are about:
  nothing but a request's own call touches its slot while it runs), `Renewal` (the
  member lives longer than the command under way and the next renewal may take;
  this is where `RenewalAssumption` is used), `Refusal`, `MembersWithinLimit`,
  `RecordOutlivesSlot` and `SlotsAreRecorded`. None of the properties is inductive
  alone: that an execution holds its slot needs `Renewal` against the clock and
  `Bookkeeping` against releases. From it follow `SlotIsHeld`, `LimitIsKept`,
  `MembersAreRecorded`, `RecordsOutliveSlots`, `MembersStayGone` and
  `LoweredLimitHolds` (action properties). `TableIsBounded` and
  `BusyRecordsHaveOneWorker` (with `Retries`) are separate inductions.
- `WSIngressLeaseProofs`. The invariant relates the time since the last
  confirmation, the ticker, the command under way and the life of the member.
  `ConfirmedSessionsWithinCap` follows since every member was admitted under the
  cap; `LostMembersStayLost` is an action property.
- `InflightReservationProofs`. `ReservationInvariant` counts the references of a
  handle (`HandleIsCounted`), says what is held before there is one
  (`NothingBeforeReserve`) and that a served request is renewed before its TTL
  (`RenewedInTime`). From it follow `GrantsAreKept`: a grant can only be lost to a
  release, and a release needs the last reference, which the billing task gives up
  after its price is settled. `ServedRequestsDoNotLapse` and
  `ReleasedCapacityStaysReleased` rest on the same invariant.
  `HeldStaysWithinBalance` is a separate induction with `BalanceOnlyFalls`: no
  balance on its way to a script is above the one at the start, and a script that
  grants beside other reservations compares the sum with such a balance. The sum of
  the reserved amounts is the cardinality of a set of units (`Units`, `Held`), so
  that the library's facts on cardinalities apply.
- `IdempotencyStoreProofs`. Types and fields of the rows and of the times that
  statements compute; used by the next two.
- `SystemOperationLockProofs`. `RunningIsLocked`, `RowOutlivesLock` and the types
  give `OneOperation`. A takeover needs a lock that is not later than the caller's
  own `now`, which is at most the real time. `CreatorLockIsKept` needs
  `RenewedInTime` in addition: while the store answers, the operation whose ID is
  in the row is renewed before the lock opens.
- `IdempotencyCoordinatorProofs`. `ActiveHasRow`, `FailureWasRead`,
  `ExpiredReadIsTooEarly` and `ResultIsKnown` give `ExecutionsDoNotOverlap` and
  `StoredSuccessIsFinal`. The delicate part is a request that read an expired row
  before another one claimed it: its `now` lies before the lock of that claim
  because a claim takes less time than the lock it writes (`Slack < Lease`), so its
  own reclaim fails while the other executes. `ReplaysAreGenuine` is an induction of
  its own (`ResponseInvariant`): the row has the payload of its creator, every
  request that reads or claims it has the same one, and the stored response belongs
  to a request that is done. `DetachedRowsAreKept` needs `RenewedInTime`.
- `BatchImageJobProofs`. `BatchInvariant` follows the job through its owners. The
  name of the provider's batch divides its life (`SubmitStage`): before it, Submit
  may change its mind; after it, only workers move the job on. `RefundStage` says
  who may be about to refund, `WorkerStage` what a worker that polled or settles
  knows of the provider and the row, `CapacityStage` and `FundedStage` tie the
  reservation and the hold to these stages. They give `JobsAreFunded`,
  `LiveBatchesKeepCapacity`, `QueuedJobsAreKept` and `EndsAreFinal`, also when a
  stalled worker goes on without its lock. `HoldsEndOnce` needs the lock
  (`LockStage`, `HoldBooks`) and therefore `~stalled`. For any number of workers,
  requests, retries and faults.
- `PaymentProofs`, fulfilment. `RefinesContract` (`PaySpec => Contract!Spec`) and
  `AcknowledgedIsCredited`, for any number of handlers and faults. Neither is
  inductive: that a credit happens once needs the redeem code (`credits` is 1
  exactly when it is used), that it happens only for a payment needs that every
  handler past the check works on a paid order, and that a completed order has its
  rebate needs that whoever stands at `complete` has seen it booked. `PayInv`
  collects these facts about where handlers stand; the refinement then follows
  action by action, each being a step of the contract or a stutter. The lease is not
  part of the argument: it saves work, while the code and the audit entry keep the
  promises.
- `PaymentProofs`, refunds. `RefundInvariant` (`Plans`, `OneRefund`: REFUNDING is
  the lock of the order; `PendingStage`, `DeductionStage`) holds for any number of
  refunding requests and gives `PendingDeductionsAreKept`; with it, every step of a
  refund is a stutter of the recharge contract, so the composed system implements it
  too (`RefundsKeepContract`). `RefundBooksAreKept` needs `RefundBooks`: which cash
  and credit fit the order at each step of a plan, at a pending refund, and at rest.
  Cash is counted together with `skipped` and `repeated`, credit without `untold`,
  so the theorem covers orders without a trade number, keyed gateways and failing
  audit writes.
  It has the hypothesis `OneAdmin`, that one request refunds at a time. Without it
  the property is false: TLC finds two requests that plan from the same refunded
  amount, the second of which is executed after the first and books its own total
  over it (the hazard at `payment_refund.go:217`).

`overrun` in the lock and the coordinator is the assumption they need: a lease (or
a row) was outlived by its owner. After that the code promises nothing, since marks
go by ID alone. `stalled` and `astray` play this part for the batch image job and
the refund: a worker outlived its lock; a reply or a process was lost between two
stores.

Every safety property of a passing run, invariant or action property, is a theorem.
Only model-checked: the liveness properties, since fairness is out of reach of the
prover.

## 5. Not modelled

- Clock skew between instances: Redis scripts of the slots use Redis time, but the
  scripts of the reservations are given the local clock. The models have one clock.
- Delegation of a worker's user slot, wait counters, load figures and the index of
  active keys (`concurrency_lease.go` 44-161 and 211-218, parts of
  `concurrency_cache.go`).
- The estimate of a price and the subscription and API key scopes of reservations
  (the scripts are the same, the amounts are inputs of the model). Balances are
  integers, not floating-point numbers. An increase or a renewal that Redis executes
  late takes the amount and the expiry from the moment of its execution; the client
  computes both when it sends the command (`billing_inflight_cache.go` 131, 251-252),
  so its late command may raise less and end sooner. No property turns on it: `HeldUntilSettled` leaves
  a lapsed reservation out, and `NoLapseWhileServed` is about commands in time.
- Batch images: deletion of outputs after retention, downloads, prices, item
  contents, the expiry of the inflight key after seven days, and the count of a
  user's unfinished tasks under the advisory lock (its answer is a choice).
- Payments: subscription orders, creation and limits of orders, signatures, amounts
  (a mismatch is a refusal), notifications; refunds of subscription days, rounding,
  and orders older than the detail of the `REFUND_PENDING` entry. A provider that
  cannot be queried (`REFUND_QUERY_UNSUPPORTED`, `payment_refund.go` 529-532): the
  query returns an error and changes nothing; the providers that leave a refund
  pending all support it. Public redemption of codes and its failure counter.
- Requests without an idempotency key, the observe-only mode and the admin
  handlers' fail-open mode, all of which execute without a row.
- The parts listed as `not_modelled` in `PROJECT.json`: planned ones, and those
  without protocol of their own (payload translation, CRUD, monitoring, frontend,
  generated code).

## 6. Plan

Done, in this order: slots, session lease, reservation, store, lock, coordinator,
batch image jobs, recharge orders with their contract, refunds, and the proofs of
their safety properties. Next:

1. An abstract lease (granted members, expiry, no resurrection) and refinements of
   it, proved, by `ConcurrencyLease` and `WSIngressLease`.
2. Execution domains and worker slots, as an extension of `ConcurrencyLease`
   composed of a user and an account slot per request, then the Live handover.
3. OAuth refresh, usage billing deduplication of ordinary requests, the worker pool
   and the asynchronous image tasks.
