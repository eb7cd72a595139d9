# Formal model of the mobile-money bridge

TLA+ specifications of the transaction core of this repository: how a deposit or
withdrawal is requested under an idempotency key, becomes a queued job, survives
outages and provider pauses, is paid by a worker or in a batch, refunded and disputed,
how Stellar payments share channel accounts, and how the treasury contract guards its
reserve. TLC checks the modules on small instances; TLAPS proves their safety properties,
and one refinement, for every instance.

## 1. The system

The server (`src/src`, about 138 000 lines of TypeScript) bridges mobile-money
providers (MTN, Airtel, Orange, ...) and the Stellar network. Beside it are Soroban
contracts in Rust (`src/contracts`), two ingest services, an operator CLI, SDKs,
edge workers and web front ends.

A transaction takes this path:

    HTTP request --> transactions row (PostgreSQL) --> addTransactionJob
                                                         |        \ Redis down
                                   provider paused       v         v
                    hold queue <----------------- BullMQ queue <-- outbox_events
                        \__ resume ___________________^   |        (relay loop)
                                                          v
                                      processTransaction: claim the row, screen,
                                      Stellar payment, provider call, status,
                                      webhooks and messages

Everybody shares three stores and no lock spans two of them: PostgreSQL (rows,
outbox; reads may go to a replica), Redis (BullMQ queues, the set of paused
providers, release locks) and the outside world (Horizon, provider APIs), where
an error does not say that nothing happened. The API server, the workers, the
relay loop and the cron jobs are separate async activities, often in separate
processes; every `await` is a point where another one may run.

### Inventory

| Component | State | Operations | Interacts with | What is hard | What makes it correct |
|---|---|---|---|---|---|
| Outbox and relay (`queue/transactionOutbox.ts`) | `outbox_events` rows: status, attempts, next attempt, age | enqueue with fallback, insert, claim, publish, release, fail | queue, PostgreSQL | lost replies, late adds, stale takeover, crash between claim and publish | an accepted job does not vanish and has one row to replay |
| Backpressure (`queue/redisBackpressure.ts`) | active flag per process | memory check with two watermarks, refusal | queue, outbox | a transient refusal counted as a failure | refusals do not lose jobs |
| Transaction queue (`queue/transactionQueue.ts`) | BullMQ jobs by id | add, dispatch, retention | everything | ids are unique only while a record is kept | one job per transaction |
| Provider pause (`queue/providerQueueControl.ts`) | paused set, hold queue, release lock | pause, hold, divert, resume, drain | queue, worker | pause/resume/divert races, lock expiry | held jobs come back, once each |
| Worker (`queue/worker.ts`, `services/retry.ts`) | progress of a job | claim, screen, pay, update, announce | rows, Horizon, providers, webhooks | duplicate delivery, crash after payment, ambiguous errors | paid once, status agrees with money |
| Row and status table (`models/transaction.ts`) | status, metadata | updateStatus, claim, metadata writes | all status writers | unguarded late writes, read-modify-write | final statuses stay final |
| Handlers (`controllers/transactionController.ts`) | intake of a request | create, cancel, refund, time out | rows, queue, AML | check, then act | handlers act on the state they checked |
| AML hold (`services/amlVelocityService.ts`) | `pending_review` rows | hold, release, reject | rows, queue | alert fails after the hold | held rows are not paid |
| Watchdogs (`jobs/staleTransactionWatchdog.ts`) | none of their own | ask the provider, settle | rows | race with a running worker | never undo a final status |
| Operator CLI (`scripts/momo-cli.ts`) | none of its own | retry-batch | rows, queue | re-queues a half-paid row | no second payment |
| Request with a key (`middleware/idempotency.ts`, `utils/lock.ts`, handler) | cached response, three Redis locks, rows with the key | look up, lock, re-check, handle, persist, release | rows, Redis, request timeout | TTL shorter than the section, client gone, Redis gone, replica behind | one operation per key, and everybody told of it |
| Payout batches (`queue/payoutBatchWorker.ts`) | none of their own | fetch, check float, send, record, hold | rows, provider | no claim, loop left half-way | paid once |
| Refund worker (`queue/refundWorker.ts`) | refund marker in the metadata, BullMQ job | scan, mark, refund, record | rows, Stellar, ledger | crash after the refund, marker overwritten | refunded once, and in the end |
| Channel pool (`services/channelPool.ts`, `services/stellar/stellarService.ts`) | idle list and waiters per process, leases and sequence cache in Redis | acquire, wait, submit, record or forget, release, hand off | Redis, Horizon | lease outlived by its user, waiter timing out, lost answers | no payment twice, no channel lost |
| Disputes (`services/dispute.ts`, `services/disputeStateMachine.ts`) | disputes, deadlines | open, assign, move, decide, SLA pass with payout | rows, provider | check then act, two engines, crash before the payout | one active dispute, verdicts stand |
| Timelock contract (`contracts/timelock`) | requests, votes, governance, reserve | initiate, vote, execute, configure, withdraw | token | admins replaced with votes open, u64 edge | value is conserved, a quorum can always cancel |
| Provider callbacks, ledger, circuit breaker, webhook retries, lockout, two-factor withdrawals | own tables or Redis keys | settle, post, count | rows | timeouts, concurrent updates | transitions and totals stay legal |
| Other Soroban contracts | contract storage, balances | escrow, HTLC, bridge, batch payout, fee pool, vault, ... | each other | deadlines, authorisation, rounding | value is conserved |

`PROJECT.json` lists every component with its status, and the hazards line by line.

## 2. Plan

1. **TransactionOutbox** - the hand-over of an accepted transaction to the queue.
   *Done; four theorems proved.*
2. **ProviderQueueControl** - pausing and resuming one provider. *Done.*
3. **TransactionWorker** - the life of a row and its payments. *Done.*
4. **PayoutRefund** - payout batches, the queue worker and the refund worker on the
   same rows. *Done.*
5. **IdempotentRequest** - a request with a key, through the middleware and the handler,
   and **IdempotentOperation**, the promise it implements. *Done.*
6. **ChannelPool** - Stellar payments through leased channel accounts. *Done.*
7. **Timelock** - the treasury contract. *Done.*
8. **Disputes** - disputes, verdicts and the SLA engine. *Done.*
9. Proofs, one module per component. *Done: every invariant and every action property
   that a passing run checks, and the refinement of IdempotentOperation, is a theorem.*
10. Not begun: the other contracts, provider callbacks, webhook retries, lockout.

## 3. Modules

Each component module declares its parameters and bounds as CONSTANTS with named
assumptions, has one action per step between two awaits, and ends with its
properties. Definitions marked `Mutant` are deliberately wrong variants of the
definition that follows them; substituting one must make TLC report the named
property, which shows that the property depends on that line of code. The `MC`
modules add the symmetry sets.

### TransactionOutbox

A *call* is one `addTransactionJob`: `StartCall`, then a dispatch that succeeds
(`CallDispatchOk`), is refused by backpressure (`CallRefused`) or ends in a Redis
error (`CallRedisError`), after which the outbox row is written. The `INSERT ...
WHERE NOT EXISTS` is two steps (`InsertSnapshot`, `InsertWrite`), because under READ
COMMITTED two of them do not see each other. A Redis error may come after the add
has landed (lost reply), without it, or with the add left in the client's offline
queue, from where `FlushOffline` lands it later.

A *relay* is the `setInterval` loop of a process: `Claim` (one statement with `FOR
UPDATE SKIP LOCKED`), then per row a dispatch and `MarkPublished`, `MarkFailed` or
`Release`, each able to throw. `Crash` forgets the process's calls, relay and
offline queue. Clock comparisons are the three-valued `next` and the two-valued
`age` of a row, moved by `NextAttemptDue` and `GoStale`. BullMQ is one job state per
id; `JobStalls` hands a job out again and `RemoveFinished` is its retention, so a job may
run more than once whatever the outbox does; `overlapped` records the transactions for
which two inserts were under way at once.

### ProviderQueueControl

A *thread* is one async call: a dispatch, an administrator's resume or a worker's
run of a job. All three can end up in `releaseHeldJobs`, whose loop is `ReleaseCheck`,
`AcquireLock`, `DrainPage`, then per job `InspectMain`, `RemoveOld`, `AddBack` or
`AddFresh`, `Unhold`, and finally `ReleaseLock` and `LookAgain`. The lock may expire
(`LockExpires`), a move may throw (`MoveFails`), a thread may die (`Crash`). Job ids are
pairs: the transaction, and the number of the `-resumed-` copy.

### TransactionWorker

A row has its status, the metadata keys the worker consults, and a replica copy. The
creating request is `Create`, `VerifySep08`, `VelocityHold` or `VelocityClear`,
`Enqueue`. `resolveHold` is `ResolveRelease` followed by `EnqueueReleased`, or
`ResolveReject`. A worker runs `TakeJob`, `CheckIp`, `claimForProcessing`,
`RereadAfterFailedClaim`, `Screen`, `SendStellar`, `ReadMetadata`, `UpdateMetadata`,
`Branch`, `CallProvider`, `PatchMetadata`, `MarkCompleted`, `AnnounceCompleted`, or the
catch block `MarkFailed`, `AnnounceFailed`. A `sendPayment` that resolves without a hash
(mock mode, or the high-throughput pool, which turns its errors into an answer) is
`SendWithoutHash`: nothing is stored (`worker.ts:429`), and the deposit branch sends again.
Handlers that check and then act are a `ReadRow` and a write: `CancelTransaction`,
`TimeOutTransaction`, `RefundTransaction`, `WatchdogAsks`/`WatchdogResolves`,
`RetryBatchUpdates`/`RetryBatchRequeues`. `EditMetadata` is the three routes
PUT, PATCH and DELETE `/:id/metadata`; other read-modify-writes of the whole metadata
object (fee-bump and SEP-31 jobs) can do to the two keys what these routes can.

`stellar` counts Stellar payments that took effect. `momo` counts collections and payouts
that a provider's adapter *accepted*, which is all that the worker learns: MTN's
`requesttopay` succeeds when the request is taken (`mtn.ts:217-251`), and its single
`sendPayout` answers success without sending (`mtn.ts:271-275`). No property here says that
mobile money moved. `unsure` has the transactions for which a call took effect and then
reported an error, inside `withRetry` or before a failover to the other provider
(`ProviderFailsOver`).

A *scenario* is the set of features a behaviour's environment has: faults, Horizon
rejecting a payment for good, alerts that throw, the operator's retry-batch, refunds, a
read replica, payments without a hash, clients that edit metadata. It is chosen once, by
`Init`. Each of the last six breaks some property
that holds without it, and the properties name the scenarios they hold in: that
separates what the code guarantees from what it needs.

The statement that a job may be delivered more than once is not an assumption out of
nowhere: TransactionOutbox (a replay after retention) and ProviderQueueControl (a
`-resumed-` copy after a fault) both reach it, and `DuplicateJob` stands for them.

### IdempotentRequest and IdempotentOperation

All requests of the model carry one Idempotency-Key; each has a payload and thereby a phone
number and a *scope*: the user, method and path by which `buildCacheKey` tells caches and
middleware locks apart (`Cached`, `MwLock`), while the handler's lock and lookups go by the
bare key. `Lookup`, `Lock` and `Recheck` are the middleware, from which a Redis error leads
straight to the handler. `KeyLock`, `Find`, `PhoneLock`, `FindAgain`, `Create`,
`UnlockPhone`, `UnlockKey` are the handler; `FindRow` reads through a replica that may be
behind. A response is sent by `Tell`, and if the response object is wrapped (`guarded`),
`Persist` starts the background work `Save` and `Release`. `Timeout`, `Disconnect` and
`Crash` end a request from outside; the handler of a timed-out request runs on. Locks
expire at any time; `missed` records which of them did so under a working owner, and
which reads were stale.

IdempotentOperation knows performed operations and answers only. IdempotentRequest
implements it with the rows of the key as the performed operations, the replies as the
answers, and "late" once the key's lock has run out or a read was stale: the phone lock
and the whole middleware are not needed for it.

### PayoutRefund

A *batch* is one `POST /bulk/batch-payout/trigger`: `Fetch`, `FloatTooLow` with one
`HoldRow` per row, or `Send` with one `Record` per row, a loop that `RecordThrows` leaves
half-way. `MtnMomoProvider.sendBatchPayout` reports all rows accepted or all failed; in the
second case the provider may have taken any of them. A *delivery* is one run of
`processTransaction` on a withdrawal (a stalled or resumed job has several):
`WorkerClaim`, the second look of a refused run (`WorkerRereads`), `WorkerPays`, which may
be answered with an error and then be repeated by the retry or the failover, `WorkerEnds`,
and `WorkerThrows` and `WorkerDies` after or instead of them. `HandlerEnds` is the status
timeout or the watchdog. The refund queue is `Enqueue` (the scan), `JobStarts`, `JobPays`,
`JobRecords`, `JobNotifies`, with `JobThrows`, `JobStalls` and `JobForgotten` for BullMQ's
retries, stalled jobs and retention; a worker that stalled and lives goes on in `LatePays`
and `LateRecords`. The reads of `Fetch`, `WorkerRereads`, `Enqueue` and `JobStarts` go to a
replica: each may also be answered with an old row, which counts as a fault.

`paid` counts payouts that a provider's adapter accepted, `refunded` Stellar refunds.
`mishaps` records for each row which of the named causes has happened to it, when it
happens and whether it does harm or not; the properties say which causes can have which
effect, and that there are no others.

### ChannelPool

A *call* is one payment through `withChannel`: `TakeIdle` or `Wait`, `Claim`, `Load` from
the cache or, when it has no number or errs, `Ask` of Horizon, then the loop of `submitWithSequenceRecovery` (`Submit`, `PaymentFails`, `AnswerLost`,
`BadSequence`, `Reload`, `BuildFails`), `Record` or `Forget`, `Release`, `HandOff`. `store`
has the leases and cached numbers of Redis and of every replica's fallback memory. The
ledger takes a transaction whose number is the next one; one whose answer was lost may
be taken later (`Land`).

### Timelock

One action per entry point of the contract that writes; a refused call changes nothing
and has no action. `MaxTime` stands for the largest u64 timestamp, at which
`SaturatingAdd` stops.

### Disputes

A *request* is one call of `openDispute`, `resolvePayment`, `updateStatus` or
`assignToAgent`, each a read followed by the writes one by one; the writes ask for no
status, as in the code. `IndexAllows` is the partial unique index. An *engine* is the SLA
interval of one process: `PassBegins` reads the disputes without a deadline, `PassDates`
gives each of them one, `PassSelects` reads the overdue ones, or `PassSelectsStale` an old
list of them from a replica that is behind, and `PassResolves` and `PassPays` run for every
dispute of the list. One `PassPays` may reach none, one or, by failover, several providers
(`MaxReached`). `extra` counts what a stale list or a failover has added to a dispute's
payouts.

## 4. Runs

| Run | Bounds | Checks |
|---|---|---|
| MCTransactionOutbox | 1 transaction, 2 calls, 2 processes, 2 attempts, 2 faults | `TypeOK`, `NeverVanishes`, `ExclusiveClaim`, `OneOutstandingRow` |
| MCOutboxSettled | 1 call, 2 processes, 2 faults, all memory levels, failing statements | `EventuallySettled` |
| MCProviderQueueControl | 1 transaction, 3 threads, 2 pauses, 1 fault | `TypeOK`, `KeptUnlessSwallowed`, `RunsAsDispatched` |
| MCHoldDrains | 2 transactions, 2 threads, 2 pauses, no faults | `HoldDrains` |
| MCTransactionWorker | 1 transaction, 2 workers, 1 handler, 1 duplicate, 2 faults, seven scenarios (1.9 million states) | `TypeOK`, `PaidOnce`, `NoSecondSend`, `HoldKeptOnPrimary`, `CompletedMeansAccepted`, `FinalStatusStays` |
| MCWorkerSettles | 1 transaction, 2 workers, 1 duplicate, no faults | `EveryTransactionSettles` |
| MCIdempotentRequest | 2 requests, 2 scopes, 3 payloads with 2 phones, 2 faults (1.2 million states) | `OneRowPerKey`, `ReuseRefused`, `LocksReturned`, `CacheKept`, `EveryRequestEnds`, `ImplementsOperation` |
| MCPayoutRefund | 1 withdrawal, 2 deliveries of it, 2 batches, 2 attempts, 2 faults (1.3 million states) | `PaidOnce`, `PaidOrRefunded`, `RefundedOnce`, `FailedIsRefunded` |
| MCChannelPool | 2 replicas, 1 channel, 3 payments, 2 attempts, 1 inner retry, 2 faults (0.8 million states) | `TypeOK`, `ToldTheTruth`, `ChannelAccounted`, `NoCollision` |
| MCTimelock | 3 addresses, 4 lists of admins, 2 requests, amounts up to 2, delay 2, largest time 3 (0.8 million states) | `TypeOK`, `CancellationPossible`, `CancelledByQuorum`, `WaitedTheDelay`, `FundsAccounted`, `ResolvedOnce` |
| MCDisputes | 1 transaction with or without a dispute of an earlier day, 2 requests, 2 engines, 2 disputes, 2 providers reached, 2 faults (0.5 million states) | `OneActiveDispute`, `PaidOncePerOpening`, `MovedByVerdict`, `OverdueIsClosed` |

What they show:

* **Outbox.** No order of outages, lost replies, late adds, crashes, failing statements
  and competing relays makes an accepted transaction vanish; live relays share no row
  until a stale one is taken over, and a transaction has one row to replay unless two
  inserts of it overlapped or such a takeover was written back. As long as
  no process refuses jobs for lack of Redis memory, every accepted transaction reaches
  a worker; otherwise it reaches one or is dead-lettered.
* **Pausing.** While the release lock keeps drains apart, a job is lost in one way only,
  the swallowed divert described below; without faults no job runs more often than it
  was dispatched, and nothing stays parked for a provider that is not paused.
* **Worker.** In the ordinary scenarios (with faults, rejections and refunds) a row is
  paid once, whatever is delivered twice, sends without a hash included. The second
  `sendPayment` of the deposit branch is reached in three ways: the first one gave no hash,
  a replica that lags does not show it, or a client edited it out of the metadata. A held
  row is not paid even if the failed alert lets it into the queue, as long
  as the worker reads the primary. Completed, in the row or in an announcement, means
  that a provider's adapter accepted the operation, unless an administrator refunded or a
  client wrote the provider's success into the metadata. Late
  writers never undo a final status; only retry-batch could.
* **Keys.** Two locks and two lookups protect a key twice over: a second row takes a
  stale read, or the key's lock and the phone's lock both running out under one owner (or
  the first of them, when the bodies name different phones). No outage of Redis alone
  makes a second row, nor does another scope. Within a scope, a request is told of another
  body's transaction only after a named loss; across scopes it may always be. A cached answer
  is final unless the middleware's lock ran out. Every
  request is answered, a thrown error only by the request timeout.
* **Payout and refund.** Four things can pay a withdrawal twice: two payers held it at once,
  a payer that had paid did not come to write it down, an accepted payout was answered
  with an error, or a payer read an old pending row. These, a batch whose answer was lost and a
  handler that failed the row under its payer can leave it paid and refunded. Two
  things can refund it twice: it was left without the completed marker, or its job was
  taken from a worker that lives on. A refunded withdrawal is never reported completed. A
  failed one is refunded unless its job died for good with the marker at "processing".
* **Channels.** Retrying on `tx_bad_seq` never pays twice, because a cached number is never
  ahead of the ledger; a caller that is not told of success or of an unknown outcome was
  not paid; a channel is never lost between idle list, waiters and calls.
* **Timelock.** Whatever admins are configured when, a pending request can be cancelled by
  the admins of the moment and by nobody else; each request ends once; every unit that
  left is accounted for.
* **Disputes.** One active dispute per transaction, even through stale writes that reopen
  a closed one. Crashes alone never pay a dispute twice: each engine pays it at most once
  each time it is active, and every further payout is a failover that reached a second
  provider, or comes from a list that a replica gave out late. A reversal stands; an overdue
  dispute is closed.

**Why the bounds are enough.** Transactions share nothing but queue order, so one is
the interesting number everywhere except in the hold queue's page, where
MCHoldDrains has two. Two calls give a doubled outbox row, two processes a stale
takeover, two attempts the difference between a failed and a dead-lettered row. Three
threads are a releasing one, a worker and a dispatcher. Two workers and a duplicate let
the duplicate arrive during and after the first run. The worker run was also done once
with two handlers and once with two duplicates (about four minutes each), with the same
result. The scenarios with retry-batch, a replica or edited metadata have no faults in the
kept run, to keep it short. Payment
counters saturate at 2, since the properties only ask for "twice". Faults are counted against `MaxFaults`, enough for one fault
while another one is being handled.

Two requests are enough for the key, whose locks are held by one of them at a time; the
three pairs of payloads (`Cases`) are a retry, a reused key with another phone, and the key in
another scope with the same phone. Two batches and two deliveries give every
pair of payers; the rows of a batch meet nowhere but in its loop, and a row behind the one
at which the loop was left is one for which `RecordThrows` writes nothing. Three payments on one
channel are two of one replica, so that one waits for the other, and one of another
replica. With one channel every claim contends. In MCTimelock three admins allow a
threshold of two with an admin to spare and a change to disjoint admins; two requests
share one reserve; the largest time is one delay and a tick, so that the sum saturates.
In MCDisputes the two requests are an opener and a decider, or, with the dispute of an earlier
day, two that decide on what they have read; a fault is a failing statement, a stop or a stale
list. The safety properties were also checked once with three requests and one fault (1.4
million states up to symmetry), with the same result.

`TypeOK` of IdempotentRequest, PayoutRefund and Disputes is proved; it
holds on the same instances, but is not kept in the runs.

All runs but MCTimelock switch the deadlock check off: the environment of each model is bounded, and
once all requests are served the real system waits for new ones too.

**Fairness.** Promises settle (a started call, relay tick, job or request goes on),
`setInterval` keeps ticking in live processes, an idle worker takes a waiting job,
clocks advance, and an outage ends. These are weak fairness conditions on exactly
those steps. Nobody is assumed to resume a provider, decide a review, cancel, or
run the CLI, and no fault is fair. In IdempotentRequest the steps of a live handler, the
request timeout and the expiry of locks are fair; in PayoutRefund the refund scan, its
jobs and retention, and no batch has to be triggered; in Disputes the interval of the
SLA engines. ChannelPool and Timelock have safety properties only: a payment may wait
behind other replicas until its deadline, and nobody has to execute a withdrawal.

### An expected violation, and other differences between text and code

MCWorkerRetryTwice states what `worker.ts:528` says, that a retry does not send the
Stellar payment again; TLC shows that a row re-queued by retry-batch gets a second one,
because the first send does not look at the stored hash. `PROJECT.json` quotes it.

The models reach these behaviours too, each against a comment or a document:

* `transactionOutbox.ts:9-12` promises that an accepted job is never lost and needs no
  intervention; backpressure spends the attempts of a replayed row until it is
  dead-lettered (`RelayRefused`, `MarkFailed`).
* `providerQueueControl.ts:15-16` promises that resuming moves every held job back; a job
  diverted again between add and remove of its earlier copy is ignored, then removed
  (`Park`, `Unhold`).
* `src/README.md:403` has "Cancel pending transaction"; the check is stale when
  `CancelTransaction` writes, and the row may be paid by then.
* `amlVelocityService.ts:188` says that a failing alert can never let a held payment
  through; with a lagging replica it does (`RereadAfterFailedClaim`).
* `amlVelocityService.ts:235` has a released row re-enqueued; BullMQ ignores the add while
  it keeps the record of the skipped job (`EnqueueReleased`).
* `idempotency.ts:157-158` has a key reused with another body rejected with 422; after a
  lost client, a crash or an outage the handler hands out the row of the key to any body
  (the exceptions of `ReuseRefused`). In another scope it always does:
  `idempotency.ts:110-111` scopes the cached response by identity, but `Find` looks up the
  bare key (`transactionController.ts:332`), so a withdrawal under a deposit's key, or another
  user's request, is answered with that row's id and status and creates none.
* `payoutBatchWorker.ts:142` says "update individual transactions atomically"; the loop
  can be left half-way (`RecordThrows`).
* `dispute.ts:11` calls the closed states of a dispute terminal; a request that read it
  open, and an SLA pass that listed it, write over them (`Write`, `PassResolves`).

The side conditions of the passing properties stand for behaviours of the same kind:

* `Ordinary` in `PaidOnce`: with a replica the deposit branch may miss the hash its own
  worker has just stored and send again (`worker.ts:477`, `:530`); with failing alerts a
  row released between a failed claim and the reread is paid by a worker that did not
  claim it (`worker.ts:339`); and a client may edit metadata. PUT, PATCH and DELETE
  `/:id/metadata` (`routes/transactions.ts:336-357`) have no guard of their own and ask for
  no status: a hash erased between `worker.ts:440` and `:477` means a second payment, and a
  `mobileMoney.success` written there means that the collection is skipped (`worker.ts:484`).
* The three exceptions of `NoSecondSend`: besides the replica and the edits, a first
  `sendPayment` without a hash. The worker does not look at its `success`, so where the
  high-throughput pool answered an error twice, a deposit completes with no Stellar payment.
* `overlapped` and `reclaimed` in `OneOutstandingRow`: `INSERT ... WHERE NOT EXISTS` under
  READ COMMITTED, and a relay that outlives its 120 s and releases or fails a row that
  another one has published (`transactionOutbox.ts:66` says "no-op if one
  is already outstanding for the id").
* `unsure` in `PaidOnce`: `withRetry` repeats a call that took effect and then failed, and
  inside one call the service tries another provider after a timeout
  (`mobileMoneyService_impl.js:532-605`).
* `refund` in `CompletedMeansAccepted`: the refund handler writes Completed without an
  expected status (`transactionController.ts:1166`); the table refuses it for a failed
  row, but not for one that screening has moved to review since. `metadataEdits` there: see
  `mobileMoney.success` above.
* `Scope` in `ReuseRefused`: see above.
* `missed` in the properties of IdempotentRequest: 15 s and 60 s locks under sections that
  have no time limit of their own, and reads through `queryRead`.
* The causes in PayoutRefund. *raced*: the batch takes no claim. *unrecorded*: its loop has no
  transaction, and in the worker a progress update may throw after the payout
  (`worker.ts:631`), which fails the row. *lost*, *unheard*: an answer that did not come counts as a
  failure, and `withRetry` and the failover repeat a payout that was accepted. *behind*: the list of
  pending withdrawals (`transaction.ts:1165`) and the reread of a refused run are `queryRead`.
  *overruled*: timeout and watchdog write without asking who works on the row. *redone*: the
  handler of a failed refund overwrites the marker, and `findById` (`refundWorker.ts:106`) is
  `queryRead` too. *doubled*: the check of the marker and the refund are not one step.
* `reopened`, the number of engines and `extra` in `PaidOncePerOpening`: an engine resolves a
  dispute before it pays, but two engines may both have it on their lists, and a stale
  assignment opens it again; the list is a `queryRead` (`disputeStateMachine.ts:41`), so the
  next pass may still see the dispute that the last one closed; and `sendPayout` fails over
  to another provider after a timeout (`mobileMoneyService_impl.js:532-605`).
* `swallowed` and `overtaken` in `KeptUnlessSwallowed`: the divert that the hold queue
  ignores, and a drain that outlives its lock.

Three more differences between text and code show in the definitions themselves:
`SendStellar` precedes `CallProvider` for deposits, where `docs/QUEUE_SYSTEM.md:119-125`
has the reverse; `AnnounceCompleted` can lead to `AnnounceFailed` for a completed row;
and after `MoveFails` the release loop meets the same job again, although
`providerQueueControl.ts:206` says it stops instead of spinning.

## 5. Proofs

Eight modules, each extending its component's module, prove `Spec => []P` for every
invariant a passing run checks, `Spec => P` for the action properties and for the
refinement: for all values of the constants that satisfy the named `ASSUME`s, not
only the ones of section 4. Each has the same shape: an inductive invariant `IInv` as a
conjunction of named parts; lemmas on what the actions do to a record, field by field;
one lemma per part that every step preserves it, with a case per action or group of
actions that touches its variables; `Init => IInv`, `IInv /\ [Next]_vars => IInv'`; and
the theorems. Every `IInv` was first checked by TLC on the component's instance.

**Assumptions.** Bounds are natural numbers (attempts, the batch size and the delay
positive); names that stand for "nobody" are not names of somebody; homes, phones and
queued rows are functions or subsets of what they are about. Sets that the proofs count
are finite: the calls of TransactionOutbox, the channels of ChannelPool (a list the
process reads from its configuration) and the SLA engines of Disputes. IdempotentRequest
assumes that request names differ from the texts of refusals, as the answers of the model
are either one or the other, and what requests ask for (`Cases`) are functions from requests
to payloads. TLC evaluates all of them in the runs.

**TransactionOutboxProofs.**

* `TypeCorrect` is inductive as it stands; the delicate part is that
  `attempts` stays within `max_attempts` through claim, release and markFailed.
* `ClaimsExclusive` (`ExclusiveClaim`). Added: a relay holds only rows of the
  table, and none between ticks (`RelayShape`), and a call has no row before it is
  accepted (`RowAfterAccept`), so a new row is held by nobody.
* `NothingVanishes` (`NeverVanishes`). The argument follows the job: a relay
  about to mark a row published has had its job delivered, and so has every published
  row (`PublishAfterDispatch`); a pending or processing row has a next attempt
  (`RetryScheduled`), hence a row without one is published or dead-lettered; and an
  accepted call has been delivered or has left some row (`AcceptedSomewhere`). Being
  delivered is stable (`DeliveredStable`), which is why retention and stale takeovers do
  no harm.
* `OneRowToReplay` (`OneOutstandingRow`). Added: behind the snapshot of an insert there is
  no row to replay (`WriteClear`) and no second snapshot (`WritesOverlap`) that is not
  counted. A relay writes back 'processing' rows only (`ExclusiveClaim`), which have a next
  attempt, so no step but an insert makes a row outstanding unless it was taken over.

**ProviderQueueControlProofs.** `TypeCorrect`, `NoAcceptedJobLost`
(`KeptUnlessSwallowed`), `NeverMultiplied` (`RunsAsDispatched`). While no lock has expired
under its drain, one thread drains at a time (`LockInv`, `DrainInv`), an active job has one
worker (`WorkInv`), and the job a drain is about to remove from the hold queue has a copy
elsewhere that stays (`MoveInv`): that is what keeps every started transaction alive
(`AliveInv`). `TokenInv` counts, without faults, the places from which a run can still
start (a call, a waiting job, a held job that is not being removed) together with the
runs, and bounds the sum by the dispatches.

**TransactionWorkerProofs.** `TypeCorrect`, `PaidOnlyOnce` (`PaidOnce`),
`NeverSentAgain` (`NoSecondSend`), `HoldKept` (`HoldKeptOnPrimary`), `CompletedIsAccepted`
(`CompletedMeansAccepted`), `FinalStays` (`FinalStatusStays`). The parts need more and more of
the environment. Always: whoever has heard of a row, it exists (`RowInv`: the status table
is only defined for rows that do). Without metadata edits: the mobile-money operation has been
accepted wherever metadata, replica, worker, watchdog or announcement rely on it (`MoneyInv`).
With reads from the primary too, and a hash from every payment: the hash is in the metadata
from `branch` on (`HashInv`), since every
read-modify-write of the metadata puts it in and none takes it out. Without retry-batch
too: the velocity check is over for every row in work, so no worker past the claim sees the
row held (`HeldInv`). In the ordinary scenarios: a row is claimed once in its life
(`ClaimInv`): a worker past the claim means that the row is not open any more, there is one
such worker, its place says what it has paid, and once it has sent a payment with a hash it
finds that hash. `StatusMoves` lists all that one step can
do to a status; `FinalStays` follows from it.

**IdempotentRequestProofs.** `TypeCorrect`, `AtMostOneRow` (`OneRowPerKey`),
`OwnTransactionTold` (`ReuseRefused`), `NoLockLeftBehind` (`LocksReturned`),
`CachedAnswerStays` (`CacheKept`) and `OperationImplemented`, the refinement. Whoever is in a
section holds its lock unless it ran out (`SectionInv`); whoever is about to insert has seen
no row of the key while the key's lock was kept, and none of its phone while the phone's was
(`FreshInv`), hence one row. For `ReuseRefused` the middleware's lock of a scope is followed from the
second look at its cache to the SET (`MiddlewareInv`), every answered request has its answer
in the cache of its scope or on its way there (`CachedInv`), and no answer about a row reaches
another body of the scope on any of its ways (`ReuseInv`). In the refinement `Create` performs the operation, a
step that sends a response answers, the first missed time limit of the key's lock and the
first stale read are `Miss`, and every other step is a stutter.

**PayoutRefundProofs.** `TypeCorrect`, `PaidOnlyOnce` (`PaidOnce`), `NotPaidAndRefunded`
(`PaidOrRefunded`), `RefundedOnlyOnce` (`RefundedOnce`). A row that met none of the four causes
of a second payout has one payer, its status says which kind, and a payer that finds it failed
was overruled (`SoleHolder`); who has still to pay is the first (`Unsent`), and a paid row can be
traced to the payer that has still to write it down or to the status it wrote (`Traced`). Only
failed rows have refund jobs and they stay failed (`FailedInv`). A refunded row is about to get
its marker or has it (`RefundOf`), so no run that reads the row as it is refunds again.

**ChannelPoolProofs.** `TypeCorrect`, `CallerToldTheTruth` (`ToldTheTruth`),
`ChannelNeverLost` (`ChannelAccounted`), `NoCollisionByItself` (`NoCollision`). No number in a
cache or in the hands of a call is ahead of the ledger (`NumbersInv`); a call that goes on has
not been paid (`PaymentInv`) and a submission without an answer is the only one of its payment
(`InflightInv`). A channel is in the idle list once and in no hand, or in one hand
(`HandsInv`), with waiters queued once (`WaitersInv`). Until something is lost, whoever works
on a channel is named by its lease (`LeaseInv`) and all numbers are the ledger's
(`SequenceInv`).

**TimelockProofs.** `TypeCorrect` (with: the balance never exceeds what was paid in),
`CancelledOnlyByQuorum`, `CancellationStaysPossible`, `DelayKept`, `ResolvedForGood`
(`ResolvedOnce`), `FundsAlwaysAccounted`. The last one is about a sum over a set of requests of
any size. Induction over finite sets cannot be instantiated by the provers, so the lemmas on
that sum argue by a minimal counterexample: among the subsets for which a lemma fails there
is one all of whose proper subsets satisfy it (`MinimalSubset`), and removing an element
from it contradicts that choice.

**DisputesProofs.** `TypeCorrect`, `AtMostOneActive` (`OneActiveDispute`), `PaidPerOpening`
(`PaidOncePerOpening`), `MovedOnlyByVerdict` (`MovedByVerdict`). The heart is `PayoutBound`: an
active dispute was paid for its earlier openings only, `extra` aside; once closed, the passes
that have it on their lists may add one payout each, and another pass lists it only from a
stale read, which `extra` counts.

**Model-checked only.** Liveness (`EventuallySettled`,
`HoldDrains`, `EveryTransactionSettles`, `EveryRequestEnds`, `FailedIsRefunded`,
`OverdueIsClosed`) rests on fairness, which is outside the prover's reach. The expected
violation of MCWorkerRetryTwice is a counterexample and has nothing to prove.

## 6. What is not modelled

* Other writers of `transactions.status`: provider callbacks (`routes/webhooks.ts`,
  M-Pesa and Wave handlers), admin and bulk routes, the Airtel and Stellar
  reconciliation jobs, fraud, fee-bump and SEP-31 jobs. They go through the same guarded
  `updateStatus`.
* The scheduled cycle of the payout batches and `batchPayoutWorker.ts`, which nothing
  starts; `replenish` of the channel pool, which moves the funder's lumens under a lease of
  its own and touches no channel's sequence number; notes, evidence, priorities and SLA
  warnings of disputes; the 24-hour expiry of keys and cached answers; the archival of
  contract storage.
* PayoutRefund leaves out what takes a withdrawal elsewhere: the exits of the queue worker before the
  claim and into review or the hold queue, `cancelled` and `expired`, the operator's
  retry-batch, which puts a failed row back to pending even while it is refunded, and the
  re-drive of a row left at processing. Nor does it have the scan's `LIMIT` of 100: `enqueue` touches the rows it
  lists, which moves them to the end of the next list. BullMQ's transaction jobs and the process of a
  batch are not restarted by the model; a new delivery or a new call is another element of
  `Deliveries` or `Batches`.
* In Disputes a replica's lag is not a variable. The first reads of requests are steps of
  their own, so a stale one is an early one, and a stale check in `openDispute` is no more than
  a check that the index repeats. The engine's list is different, since an engine may read
  what it has itself undone: `PassSelectsStale` takes any disputes of the table, among them
  some that were closed before they had a deadline, which is more than a replica can show.
* In Timelock the contract itself is not a recipient of a withdrawal.
* In IdempotentRequest a rejection that nobody handles leaves the process alive; where the
  runtime ends it instead, that is `Crash`. `haltOnTimedout` is part of `FailChecks`: the
  handler of a request that timed out before it may still run in the model, as it does in the
  code when the timeout comes one step later.
* Liveness of the channel pool: a waiter is woken first-in first-out, but the lease is free
  in Redis before it claims it, and another replica may take it each time.
* The other contracts, ledger postings, the circuit breaker (a library), webhook retries,
  lockout and two-factor withdrawals, anchor flows, front ends, SDKs.
* The size limit of metadata, which may refuse an edit (`EditMetadata` may not happen, but
  the answer is not modelled).
* Validation, KYC and limits, fee and velocity arithmetic, tracing, metrics, progress
  reports, formatting.
* The flag that routes jobs to per-provider rate-limited queues; it is off by default.
* `workers/outboxWorker.ts`: the file holds two merged versions of a class and does not
  parse.
* BullMQ, Redis, PostgreSQL, Horizon and the providers are modelled as the code uses
  them and marked external in the map.
