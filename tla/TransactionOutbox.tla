-------------------------- MODULE TransactionOutbox --------------------------
(***************************************************************************)
(* The PostgreSQL outbox of src/queue/transactionOutbox.ts, with the       *)
(* enqueue path of src/queue/transactionQueue.ts that falls back to it and *)
(* the Redis-memory backpressure of src/queue/redisBackpressure.ts that    *)
(* can refuse a dispatch.                                                  *)
(*                                                                         *)
(* An API process that accepts a transaction dispatches a BullMQ job for   *)
(* it.  When Redis is unreachable the request is written to outbox_events  *)
(* instead, and the relay loop of any process replays the row later.  Every *)
(* await is a step boundary: processes, the SQL statements of different    *)
(* relays, Redis outages, lost replies and crashes interleave between them. *)
(*                                                                         *)
(* A row is identified by the call of addTransactionJob that inserts it    *)
(* (a call inserts at most one).  Time is reduced to what the SQL compares: *)
(* whether next_attempt_at is NULL, in the future or due, and whether      *)
(* updated_at is older than STALE_PROCESSING_SECONDS.                      *)
(***************************************************************************)
EXTENDS Integers, FiniteSets

CONSTANTS
    Txns,         \* transaction ids
    Calls,        \* calls of addTransactionJob; also the ids of outbox rows
    Procs,        \* server processes, each with its own relay loop
    MaxAttempts,  \* outbox_events.max_attempts
    BatchSize,    \* OUTBOX_BATCH_SIZE
    MemLevels,    \* Redis memory levels the run visits
    PgErrors,     \* whether a store write of the relay may throw
    MaxFaults     \* bound: outages, lost replies, crashes, store errors, rises

ASSUME CallsAssumption == IsFiniteSet(Calls)
ASSUME MaxAttemptsAssumption == MaxAttempts \in Nat \ {0}
ASSUME BatchSizeAssumption == BatchSize \in Nat \ {0}
ASSUME MaxFaultsAssumption == MaxFaults \in Nat
ASSUME PgErrorsAssumption == PgErrors \in BOOLEAN

VARIABLES
    call,     \* [Calls -> progress of one addTransactionJob]
    row,      \* [Calls -> outbox_events row, or an absent one]
    relay,    \* [Procs -> progress of one drainTransactionOutbox]
    job,      \* [Txns -> state of the BullMQ job whose jobId is that id]
    started,  \* transactions whose job a worker has picked up
    overlapped,  \* transactions two calls were inserting a row for at once, ever
    reclaimed,  \* rows taken over from another relay as stale, ever
    offline,  \* [Procs -> adds left in the Redis client's offline queue]
    redis,    \* whether Redis can be reached: "up" or "down"
    memory,   \* Redis memory: "low" < low watermark, "high" > high watermark
    paused,   \* processes whose state.active (redisBackpressure.ts) is set
    faults    \* faults that have happened, against MaxFaults

vars == <<call, row, relay, job, started, overlapped, reclaimed, offline, redis,
          memory, paused, faults>>

CallPcs == {"idle", "dispatch", "insert", "write", "accepted", "rejected"}
RowStatuses == {"absent", "pending", "processing", "published", "failed"}
NextAttempts == {"null", "later", "due"}
RelayPcs == {"idle", "loop", "publish", "markFailed", "release"}
JobStates == {"none", "waiting", "active", "finished"}

CallType == [pc : CallPcs, proc : Procs, tx : Txns]

\* The columns of outbox_events that the store reads.
RowType == [tx : Txns, status : RowStatuses, attempts : 0..MaxAttempts,
            next : NextAttempts, age : {"fresh", "stale"}, born : Nat]

\* A tick: the claimed rows not yet written back, and the one in hand.
RelayType == [pc : RelayPcs, rows : SUBSET Calls, cur : SUBSET Calls]

Outstanding(r) ==
    /\ r.status \in {"pending", "processing", "failed"}
    /\ r.next # "null"

DeadLettered(r) == r.status = "failed" /\ r.next = "null"

Inserted == {i \in Calls : row[i].status # "absent"}

-----------------------------------------------------------------------------
(* Redis and BullMQ *)

\* Queue.add with jobId = transaction id: an id that BullMQ still knows, in
\* any state, is left alone.
Land(t) == job' = [job EXCEPT ![t] = IF @ = "none" THEN "waiting" ELSE @]

\* isBackpressureActive() && !isCriticalPriority(...): a transaction of this
\* model is non-critical (priority above 2), the case the check is about.
Refuses(p) == p \in paused

\* A dispatch that ends in an error isRedisUnavailableError recognises: the
\* connection is refused; or the command stays in the client's offline queue
\* and withEnqueueTimeout gives up on it; or Redis did the add and the answer
\* came too late.
RedisError(p, t) ==
    \/ /\ redis = "down"
       /\ UNCHANGED <<job, offline, faults>>
    \/ /\ redis = "down"
       /\ offline' = [offline EXCEPT ![p] = @ \cup {t}]
       /\ UNCHANGED <<job, faults>>
    \/ /\ redis = "up"
       /\ faults < MaxFaults
       /\ faults' = faults + 1
       /\ Land(t)
       /\ UNCHANGED offline

-----------------------------------------------------------------------------
(* addTransactionJob / enqueueWithOutboxFallback *)

\* A request handler, the AML review or the operator's CLI enqueues t.
StartCall(c, p, t) ==
    /\ call[c].pc = "idle"
    /\ call' = [call EXCEPT ![c] = [pc |-> "dispatch", proc |-> p, tx |-> t]]
    /\ UNCHANGED <<row, relay, job, started, overlapped, reclaimed, offline,
                   redis, memory, paused, faults>>

CallDispatchOk(c) ==
    /\ call[c].pc = "dispatch"
    /\ ~Refuses(call[c].proc)
    /\ redis = "up"
    /\ Land(call[c].tx)
    /\ call' = [call EXCEPT ![c].pc = "accepted"]
    /\ UNCHANGED <<row, relay, started, overlapped, reclaimed, offline, redis,
                   memory, paused, faults>>

\* The backpressure error is not a Redis error, so it reaches the caller.
CallRefused(c) ==
    /\ call[c].pc = "dispatch"
    /\ Refuses(call[c].proc)
    /\ call' = [call EXCEPT ![c].pc = "rejected"]
    /\ UNCHANGED <<row, relay, job, started, overlapped, reclaimed, offline,
                   redis, memory, paused, faults>>

\* Mutant: the answer is sent without waiting for the outbox insert.
CallRedisErrorUnawaited(c) ==
    /\ call[c].pc = "dispatch"
    /\ ~Refuses(call[c].proc)
    /\ RedisError(call[c].proc, call[c].tx)
    /\ call' = [call EXCEPT ![c].pc = "accepted"]
    /\ UNCHANGED <<row, relay, started, overlapped, reclaimed, redis, memory,
                   paused>>

CallRedisError(c) ==
    /\ call[c].pc = "dispatch"
    /\ ~Refuses(call[c].proc)
    /\ RedisError(call[c].proc, call[c].tx)
    /\ call' = [call EXCEPT ![c].pc = "insert"]
    /\ UNCHANGED <<row, relay, started, overlapped, reclaimed, redis, memory,
                   paused>>

\* Another INSERT for the transaction t of c is between its snapshot and its
\* commit.
Overlaps(c, t) ==
    call[c].tx = t /\ \E d \in Calls : call[d].pc = "write" /\ call[d].tx = t

\* Mutant: a row that is waiting for its retry after a failure is overlooked.
InsertSnapshotUnfailed(c) ==
    /\ call[c].pc = "insert"
    /\ call' = [call EXCEPT ![c].pc =
          IF \E i \in Inserted : /\ row[i].tx = call[c].tx
                                 /\ row[i].status \in {"pending", "processing"}
          THEN "accepted" ELSE "write"]
    /\ overlapped' = overlapped \cup {t \in Txns : Overlaps(c, t)}
    /\ UNCHANGED <<row, relay, job, started, reclaimed, offline, redis, memory,
                   paused, faults>>

\* INSERT ... WHERE NOT EXISTS: under READ COMMITTED the sub-select sees a
\* snapshot, and a concurrent insert for the same id is not in it.  This step
\* is the snapshot; an outstanding row makes the insert a no-op.
InsertSnapshot(c) ==
    /\ call[c].pc = "insert"
    /\ call' = [call EXCEPT ![c].pc =
          IF \E i \in Inserted : row[i].tx = call[c].tx /\ Outstanding(row[i])
          THEN "accepted" ELSE "write"]
    /\ overlapped' = overlapped \cup {t \in Txns : Overlaps(c, t)}
    /\ UNCHANGED <<row, relay, job, started, reclaimed, offline, redis, memory,
                   paused, faults>>

InsertWrite(c) ==
    /\ call[c].pc = "write"
    /\ row' = [row EXCEPT ![c] =
          [tx |-> call[c].tx, status |-> "pending", attempts |-> 0,
           next |-> "due", age |-> "fresh",
           born |-> Cardinality(Inserted)]]
    /\ call' = [call EXCEPT ![c].pc = "accepted"]
    /\ UNCHANGED <<relay, job, started, overlapped, reclaimed, offline, redis,
                   memory, paused, faults>>

-----------------------------------------------------------------------------
(* drainTransactionOutbox, one relay per process *)

\* Every row the relay of p has claimed and not yet written back.
Held(p) == relay[p].rows

Idle == [pc |-> "idle", rows |-> {}, cur |-> {}]

\* The relay is done with row i: the next one, or the end of the tick.
Advance(p, i) ==
    LET left == relay[p].rows \ {i} IN
    relay' = [relay EXCEPT ![p] =
        IF left = {} THEN Idle
        ELSE [pc |-> "loop", rows |-> left, cur |-> {}]]

Claimable(i) ==
    \/ row[i].status \in {"pending", "failed"} /\ row[i].next = "due"
    \/ row[i].status = "processing" /\ row[i].age = "stale"

\* The oldest BatchSize claimable rows.
OldestBatch(S) ==
    /\ S # {}
    /\ S \subseteq {i \in Inserted : Claimable(i)}
    /\ Cardinality(S) <= BatchSize
    /\ \A j \in {i \in Inserted : Claimable(i)} \ S :
          /\ Cardinality(S) = BatchSize
          /\ \A i \in S : row[i].born <= row[j].born

\* Mutant: the rows are selected but their status is left as it is.
ClaimUnmarked(p) ==
    /\ relay[p].pc = "idle"
    /\ \E S \in SUBSET Inserted :
          /\ OldestBatch(S)
          /\ reclaimed' = reclaimed \cup {i \in S : row[i].status = "processing"}
          /\ relay' = [relay EXCEPT ![p] =
                          [pc |-> "loop", rows |-> S, cur |-> {}]]
    /\ UNCHANGED <<call, row, job, started, overlapped, offline, redis, memory,
                   paused, faults>>

Claim(p) ==
    /\ relay[p].pc = "idle"
    /\ \E S \in SUBSET Inserted :
          /\ OldestBatch(S)
          /\ row' = [i \in Calls |->
                IF i \in S
                THEN [row[i] EXCEPT !.status = "processing", !.age = "fresh"]
                ELSE row[i]]
          /\ reclaimed' = reclaimed \cup {i \in S : row[i].status = "processing"}
          /\ relay' = [relay EXCEPT ![p] =
                          [pc |-> "loop", rows |-> S, cur |-> {}]]
    /\ UNCHANGED <<call, job, started, overlapped, offline, redis, memory,
                   paused, faults>>

RelayDispatchOk(p) ==
    /\ relay[p].pc = "loop"
    /\ ~Refuses(p)
    /\ redis = "up"
    /\ \E i \in relay[p].rows :
          /\ Land(row[i].tx)
          /\ relay' = [relay EXCEPT
                ![p] = [@ EXCEPT !.pc = "publish", !.cur = {i}]]
    /\ UNCHANGED <<call, row, started, overlapped, reclaimed, offline, redis,
                   memory, paused, faults>>

\* Hand this row and every unprocessed one back.
RelayRedisError(p) ==
    /\ relay[p].pc = "loop"
    /\ ~Refuses(p)
    /\ \E i \in relay[p].rows : RedisError(p, row[i].tx)
    /\ relay' = [relay EXCEPT ![p] = [@ EXCEPT !.pc = "release", !.cur = {}]]
    /\ UNCHANGED <<call, row, started, overlapped, reclaimed, redis, memory,
                   paused>>

\* Backpressure during a replay is an ordinary failure of the row.
RelayRefused(p) ==
    /\ relay[p].pc = "loop"
    /\ Refuses(p)
    /\ \E i \in relay[p].rows :
          relay' = [relay EXCEPT
                ![p] = [@ EXCEPT !.pc = "markFailed", !.cur = {i}]]
    /\ UNCHANGED <<call, row, job, started, overlapped, reclaimed, offline, redis,
                   memory, paused, faults>>

MarkPublished(p) ==
    /\ relay[p].pc = "publish"
    /\ \E i \in relay[p].cur :
          /\ row' = [row EXCEPT ![i] = [@ EXCEPT
                !.status = "published", !.next = "null", !.age = "fresh"]]
          /\ Advance(p, i)
    /\ UNCHANGED <<call, job, started, overlapped, reclaimed, offline, redis,
                   memory, paused, faults>>

\* markPublished is inside the try: its own error is classified like one of
\* the dispatch, so the row is released or counted as failed.
PublishThrows(p) ==
    /\ PgErrors
    /\ relay[p].pc = "publish"
    /\ faults < MaxFaults
    /\ faults' = faults + 1
    /\ \/ relay' = [relay EXCEPT
                ![p] = [@ EXCEPT !.pc = "release", !.cur = {}]]
       \/ relay' = [relay EXCEPT ![p].pc = "markFailed"]
    /\ UNCHANGED <<call, row, job, started, overlapped, reclaimed, offline, redis,
                   memory, paused>>

\* Count an attempt; the last one dead-letters the row.  attempts stops at
\* MaxAttempts here: a stale release can revive a dead-lettered row, whose
\* further failures the comparison with max_attempts no longer tells apart.
Failed(r) ==
    [r EXCEPT !.status = "failed",
              !.attempts = IF r.attempts < MaxAttempts THEN r.attempts + 1
                           ELSE MaxAttempts,
              !.next = IF r.attempts + 1 >= MaxAttempts THEN "null"
                       ELSE "later",
              !.age = "fresh"]

\* No guard on the row's status: the relay writes back what it claimed, even
\* when another relay has claimed and published the row since.
MarkFailed(p) ==
    /\ relay[p].pc = "markFailed"
    /\ \E i \in relay[p].cur :
          /\ row' = [row EXCEPT ![i] = Failed(@)]
          /\ Advance(p, i)
    /\ UNCHANGED <<call, job, started, overlapped, reclaimed, offline, redis,
                   memory, paused, faults>>

\* Mutants: a release that gives an attempt back, and one that burns one.
ReleaseRefunds(p) ==
    /\ relay[p].pc = "release"
    /\ \E i \in relay[p].rows :
          /\ row' = [row EXCEPT ![i] = [@ EXCEPT !.status = "pending",
                !.attempts = @ - 1, !.next = "later", !.age = "fresh"]]
          /\ relay' = [relay EXCEPT ![p] =
                IF @.rows = {i} THEN Idle
                ELSE [pc |-> "release", rows |-> @.rows \ {i}, cur |-> {}]]
    /\ UNCHANGED <<call, job, started, overlapped, reclaimed, offline, redis,
                   memory, paused, faults>>

ReleaseBurns(p) ==
    /\ relay[p].pc = "release"
    /\ \E i \in relay[p].rows :
          /\ row' = [row EXCEPT ![i] = Failed(@)]
          /\ relay' = [relay EXCEPT ![p] =
                IF @.rows = {i} THEN Idle
                ELSE [pc |-> "release", rows |-> @.rows \ {i}, cur |-> {}]]
    /\ UNCHANGED <<call, job, started, overlapped, reclaimed, offline, redis,
                   memory, paused, faults>>

Release(p) ==
    /\ relay[p].pc = "release"
    /\ \E i \in relay[p].rows :
          /\ row' = [row EXCEPT ![i] = [@ EXCEPT
                !.status = "pending", !.next = "later", !.age = "fresh"]]
          /\ relay' = [relay EXCEPT ![p] =
                IF @.rows = {i} THEN Idle
                ELSE [pc |-> "release", rows |-> @.rows \ {i}, cur |-> {}]]
    /\ UNCHANGED <<call, job, started, overlapped, reclaimed, offline, redis,
                   memory, paused, faults>>

\* release or markFailed throws: the tick is over, its rows stay 'processing'.
StoreThrows(p) ==
    /\ PgErrors
    /\ relay[p].pc \in {"release", "markFailed"}
    /\ faults < MaxFaults
    /\ faults' = faults + 1
    /\ relay' = [relay EXCEPT ![p] = Idle]
    /\ UNCHANGED <<call, row, job, started, overlapped, reclaimed, offline, redis,
                   memory, paused>>

-----------------------------------------------------------------------------
(* Time, the worker, retention, and faults *)

NextAttemptDue(i) ==
    /\ i \in Inserted
    /\ row[i].next = "later"
    /\ row' = [row EXCEPT ![i] = [@ EXCEPT !.next = "due"]]
    /\ UNCHANGED <<call, relay, job, started, overlapped, reclaimed, offline,
                   redis, memory, paused, faults>>

\* STALE_PROCESSING_SECONDS pass.  The relay that claimed the row may be alive:
\* a batch of 50 dispatches of up to 3 s each outlasts 120 s.
GoStale(i) ==
    /\ row[i].status = "processing"
    /\ row[i].age = "fresh"
    /\ row' = [row EXCEPT ![i] = [@ EXCEPT !.age = "stale"]]
    /\ UNCHANGED <<call, relay, job, started, overlapped, reclaimed, offline,
                   redis, memory, paused, faults>>

WorkerStart(t) ==
    /\ redis = "up"
    /\ job[t] = "waiting"
    /\ job' = [job EXCEPT ![t] = "active"]
    /\ started' = started \cup {t}
    /\ UNCHANGED <<call, row, relay, overlapped, reclaimed, offline, redis,
                   memory, paused, faults>>

WorkerFinish(t) ==
    /\ redis = "up"
    /\ job[t] = "active"
    /\ job' = [job EXCEPT ![t] = "finished"]
    /\ UNCHANGED <<call, row, relay, started, overlapped, reclaimed, offline,
                   redis, memory, paused, faults>>

\* BullMQ hands a job out again when its worker stops renewing the job's lock.
JobStalls(t) ==
    /\ redis = "up"
    /\ job[t] = "active"
    /\ job' = [job EXCEPT ![t] = "waiting"]
    /\ UNCHANGED <<call, row, relay, started, overlapped, reclaimed, offline,
                   redis, memory, paused, faults>>

\* removeOnComplete / removeOnFail: by age, or once 1000 newer jobs completed.
RemoveFinished(t) ==
    /\ redis = "up"
    /\ job[t] = "finished"
    /\ job' = [job EXCEPT ![t] = "none"]
    /\ UNCHANGED <<call, row, relay, started, overlapped, reclaimed, offline,
                   redis, memory, paused, faults>>

RedisFails ==
    /\ redis = "up"
    /\ faults < MaxFaults
    /\ faults' = faults + 1
    /\ redis' = "down"
    /\ UNCHANGED <<call, row, relay, job, started, overlapped, reclaimed, offline,
                   memory, paused>>

RedisRecovers ==
    /\ redis = "down"
    /\ redis' = "up"
    /\ UNCHANGED <<call, row, relay, job, started, overlapped, reclaimed, offline,
                   memory, paused, faults>>

\* The client reconnects and sends what its offline queue holds.
FlushOffline(p) ==
    /\ redis = "up"
    /\ \E t \in offline[p] :
          /\ Land(t)
          /\ offline' = [offline EXCEPT ![p] = @ \ {t}]
    /\ UNCHANGED <<call, row, relay, started, overlapped, reclaimed, redis,
                   memory, paused, faults>>

\* Redis memory use moves; a rise to "high" counts as a fault.
MemoryMoves(m) ==
    /\ m # memory
    /\ IF m = "high" THEN /\ faults < MaxFaults
                          /\ faults' = faults + 1
                     ELSE UNCHANGED faults
    /\ memory' = m
    /\ UNCHANGED <<call, row, relay, job, started, overlapped, reclaimed, offline,
                   redis, paused>>

\* checkRedisMemory: hysteresis between the two watermarks; a failing INFO
\* keeps the state.
CheckRedisMemory(p) ==
    /\ redis = "up"
    /\ \/ p \notin paused /\ memory = "high" /\ paused' = paused \cup {p}
       \/ p \in paused /\ memory = "low" /\ paused' = paused \ {p}
    /\ UNCHANGED <<call, row, relay, job, started, overlapped, reclaimed, offline,
                   redis, memory, faults>>

\* The process dies and restarts: its calls get no answer, its relay forgets
\* what it claimed, and its offline commands and backpressure state are gone.
Crash(p) ==
    /\ faults < MaxFaults
    /\ faults' = faults + 1
    /\ call' = [c \in Calls |->
          IF call[c].proc = p /\ call[c].pc \in {"dispatch", "insert", "write"}
          THEN [call[c] EXCEPT !.pc = "rejected"] ELSE call[c]]
    /\ relay' = [relay EXCEPT ![p] = Idle]
    /\ offline' = [offline EXCEPT ![p] = {}]
    /\ paused' = paused \ {p}
    /\ UNCHANGED <<row, job, started, overlapped, reclaimed, redis, memory>>

-----------------------------------------------------------------------------
Init ==
    \E p0 \in Procs, t0 \in Txns :
    /\ call = [c \in Calls |-> [pc |-> "idle", proc |-> p0, tx |-> t0]]
    /\ row = [c \in Calls |->
          [tx |-> t0, status |-> "absent", attempts |-> 0, next |-> "null",
           age |-> "fresh", born |-> 0]]
    /\ relay = [p \in Procs |-> Idle]
    /\ job = [t \in Txns |-> "none"]
    /\ started = {}
    /\ overlapped = {}
    /\ reclaimed = {}
    /\ offline = [p \in Procs |-> {}]
    /\ redis = "up"
    /\ memory = "low"
    /\ paused = {}
    /\ faults = 0

CallStep(c) ==
    \/ CallDispatchOk(c)
    \/ CallRefused(c)
    \/ CallRedisError(c)
    \/ InsertSnapshot(c)
    \/ InsertWrite(c)

RelayStep(p) ==
    \/ Claim(p)
    \/ RelayDispatchOk(p)
    \/ RelayRedisError(p)
    \/ RelayRefused(p)
    \/ MarkPublished(p)
    \/ MarkFailed(p)
    \/ Release(p)

QueueStep(t) == WorkerStart(t) \/ WorkerFinish(t)

Next ==
    \/ \E c \in Calls, p \in Procs, t \in Txns : StartCall(c, p, t)
    \/ \E c \in Calls : CallStep(c)
    \/ \E p \in Procs :
          \/ RelayStep(p)
          \/ PublishThrows(p)
          \/ StoreThrows(p)
          \/ FlushOffline(p)
          \/ CheckRedisMemory(p)
          \/ Crash(p)
    \/ \E i \in Calls : NextAttemptDue(i) \/ GoStale(i)
    \/ \E t \in Txns : QueueStep(t) \/ JobStalls(t) \/ RemoveFinished(t)
    \/ RedisFails
    \/ RedisRecovers
    \/ \E m \in MemLevels : MemoryMoves(m)

Spec == Init /\ [][Next]_vars

(* Promises settle, setInterval keeps ticking in every live process, clocks *)
(* advance, workers run and an outage ends: weak fairness of exactly those. *)
Fairness ==
    /\ \A c \in Calls : WF_vars(CallStep(c))
    /\ \A p \in Procs : WF_vars(RelayStep(p))
    /\ \A i \in Calls : WF_vars(NextAttemptDue(i)) /\ WF_vars(GoStale(i))
    /\ \A t \in Txns : WF_vars(QueueStep(t))
    /\ WF_vars(RedisRecovers)

FairSpec == Spec /\ Fairness

-----------------------------------------------------------------------------
(* Properties *)

Accepted(t) == \E c \in Calls : call[c].pc = "accepted" /\ call[c].tx = t

\* BullMQ holds a job for t that a worker has yet to finish, or one has run.
Delivered(t) == job[t] \in {"waiting", "active"} \/ t \in started

InOutbox(t) == \E i \in Inserted : row[i].tx = t /\ Outstanding(row[i])
GivenUp(t) == \E i \in Inserted : row[i].tx = t /\ DeadLettered(row[i])

\* Every variable stays in its range; in particular the attempts of a row stay
\* within max_attempts whatever claim, release and markFailed write.
TypeOK ==
    /\ call \in [Calls -> CallType]
    /\ row \in [Calls -> RowType]
    /\ relay \in [Procs -> RelayType]
    /\ job \in [Txns -> JobStates]
    /\ started \in SUBSET Txns
    /\ overlapped \in SUBSET Txns
    /\ reclaimed \in SUBSET Calls
    /\ offline \in [Procs -> SUBSET Txns]
    /\ redis \in {"up", "down"}
    /\ memory \in MemLevels \cup {"low"}
    /\ paused \in SUBSET Procs
    /\ faults \in 0..MaxFaults

\* An accepted transaction has reached a worker's queue, is still in the
\* outbox, or its row was dead-lettered by markFailed: no order of outages,
\* timeouts, crashes and competing relays makes it vanish.
NeverVanishes == \A t \in Txns : Accepted(t) => Delivered(t) \/ InOutbox(t) \/ GivenUp(t)

\* Until a claim takes over a stale row, FOR UPDATE SKIP LOCKED plus the status
\* change give each row to one relay, and nobody still holds a published or a
\* dead-lettered row that it could write back.
ExclusiveClaim ==
    \A i \in Calls : i \notin reclaimed =>
        /\ \A p, q \in Procs : i \in Held(p) \cap Held(q) => p = q
        /\ \A p \in Procs : i \in Held(p) => row[i].status = "processing"

\* insert is a "no-op if one is already outstanding for the id": a transaction
\* has two rows to replay only after two inserts of it overlapped under READ
\* COMMITTED, or after a relay whose row was taken over wrote the row back.
OneOutstandingRow ==
    \A i, j \in Calls :
        /\ row[i].tx = row[j].tx
        /\ Outstanding(row[i])
        /\ Outstanding(row[j])
        => i = j \/ row[i].tx \in overlapped \/ {i, j} \cap reclaimed # {}

\* A relay that dies between claim and publish does not strand its rows: every
\* accepted transaction is picked up by a worker or dead-lettered.  Outages,
\* timeouts, crashes and failing statements alone dead-letter nothing: as long
\* as no process refuses jobs for lack of Redis memory, a worker gets it.
EventuallySettled ==
    /\ \A t \in Txns : Accepted(t) ~> (t \in started \/ GivenUp(t))
    /\ [](paused = {}) => \A t \in Txns : Accepted(t) ~> t \in started
=============================================================================
