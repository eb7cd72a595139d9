-------------------------- MODULE TransactionWorker --------------------------
(***************************************************************************)
(* The life of a transaction row from the request that creates it to the   *)
(* worker that pays it: processTransactionRequest and the cancel, refund    *)
(* and status handlers of controllers/transactionController.ts, the AML    *)
(* velocity hold of services/amlVelocityService.ts, the status table and   *)
(* claim of models/transaction.ts, processTransaction of queue/worker.ts   *)
(* with withRetry of services/retry.ts, the stale-transaction watchdog of  *)
(* jobs/staleTransactionWatchdog.ts, and the operator's retry-batch of     *)
(* scripts/momo-cli.ts (all under src/src).                                *)
(*                                                                         *)
(* Every await is a step boundary.  A job may be delivered more than once: *)
(* TransactionOutbox and ProviderQueueControl show how.  stellar counts    *)
(* the bridge's Stellar payments that took effect; momo the collections or *)
(* payouts that a provider's adapter accepted, which is all the worker     *)
(* knows of them: an accepted request may still fail at the provider.      *)
(***************************************************************************)
EXTENDS Integers, FiniteSets

CONSTANTS
    Txns,            \* transaction ids
    NoTx,            \* what an idle worker or request is about
    Workers,         \* concurrent runs of processTransaction
    Requests,        \* concurrent handlers that read, then write
    MaxDuplicates,   \* bound: extra deliveries of one transaction's job
    MaxAttempts,     \* withRetry's maxAttempts
    MaxFaults,       \* bound: transient errors, crashes, failed publishes
    Scenarios        \* the sets of features a behaviour may have

ASSUME NoTxAssumption == NoTx \notin Txns
ASSUME WorkerBoundsAssumption ==
    /\ MaxDuplicates \in Nat
    /\ MaxAttempts \in Nat \ {0}
    /\ MaxFaults \in Nat

\* Calls may fail and processes may die; Horizon may reject a payment for good;
\* raising an AML alert may be the call that fails; an operator runs momo-cli
\* retry-batch; an administrator refunds; DATABASE_READ_URL names a read replica;
\* sendPayment may resolve without a hash (mock mode, or the high-throughput pool,
\* which turns its errors into an answer); clients edit metadata by its routes.
AllFeatures == {"faults", "horizonRejects", "alertThrows", "retryBatch",
                "refund", "replicaReads", "noHash", "metadataEdits"}
ASSUME ScenariosAssumption == Scenarios \subseteq SUBSET AllFeatures

VARIABLES
    features, \* what the environment of this behaviour does, never changes
    type,     \* [Txns -> transactions.type]
    status,   \* [Txns -> transactions.status; "none" before the row exists]
    meta,     \* [Txns -> the keys of transactions.metadata the worker uses]
    replica,  \* [Txns -> the row as the read replica has it]
    intake,   \* [Txns -> progress of the creating request]
    released, \* rows whose hold resolveHold lifted and did not enqueue yet
    known,    \* transactions BullMQ has been given a job for
    jobs,     \* [Txns -> jobs waiting for a worker]
    dups,     \* [Txns -> duplicates of its job delivered so far]
    worker,   \* [Workers -> progress of one processTransaction]
    request,  \* [Requests -> progress of one read-then-write handler]
    stellar,  \* [Txns -> Stellar payments that took effect]
    momo,     \* [Txns -> collections or payouts a provider's adapter accepted]
    unsure,   \* transactions with a call that took effect and then errored
    events,   \* [Txns -> outcomes the worker announced]
    faults    \* faults so far

vars == <<features, type, status, meta, replica, intake, released, known, jobs,
          dups, worker, request, stellar, momo, unsure, events, faults>>

Statuses == {"pending", "pending_review", "processing", "review", "completed",
             "failed", "cancelled", "dispute", "reversed", "clawed_back",
             "expired"}
Intakes == {"new", "created", "verified", "held", "clear", "queued", "refused"}
WorkerPcs == {"idle", "ip", "claim", "reread", "screen", "stellar", "readMeta",
              "writeMeta", "branch", "provider", "patchMeta", "resend",
              "rereadMeta", "rewriteMeta", "rereadBare", "rewriteBare",
              "complete", "announce", "fail", "announceFail"}
MetaKeys == {"stellar", "mobileMoney"}
Answers == {"none", "completed", "failed", "expired"}
Kinds == {"none", "cancel", "timeout", "refund", "watchdog", "retry", "requeue"}

-----------------------------------------------------------------------------
FaultBudget == IF "faults" \in features THEN MaxFaults ELSE 0

(* models/transaction.ts *)

\* Mutant: a completed transaction may still fail.
CompletedMayFail ==
    [pending        |-> {"pending", "processing", "completed", "failed",
                         "cancelled", "review", "pending_review", "expired"},
     pending_review |-> {"pending_review", "pending", "cancelled", "failed"},
     processing     |-> {"processing", "completed", "failed", "cancelled",
                         "review", "pending", "expired"},
     review         |-> {"review", "processing", "completed", "failed",
                         "cancelled"},
     completed      |-> {"completed", "dispute", "reversed", "clawed_back",
                         "failed"},
     failed         |-> {"failed", "review"},
     cancelled      |-> {"cancelled"},
     dispute        |-> {"dispute", "completed", "reversed", "clawed_back",
                         "failed"},
     reversed       |-> {"reversed"},
     clawed_back    |-> {"clawed_back"},
     expired        |-> {"expired", "failed"}]

ALLOWED_STATUS_TRANSITIONS ==
    [pending        |-> {"pending", "processing", "completed", "failed",
                         "cancelled", "review", "pending_review", "expired"},
     pending_review |-> {"pending_review", "pending", "cancelled", "failed"},
     processing     |-> {"processing", "completed", "failed", "cancelled",
                         "review", "pending", "expired"},
     review         |-> {"review", "processing", "completed", "failed",
                         "cancelled"},
     completed      |-> {"completed", "dispute", "reversed", "clawed_back"},
     failed         |-> {"failed", "review"},
     cancelled      |-> {"cancelled"},
     dispute        |-> {"dispute", "completed", "reversed", "clawed_back",
                         "failed"},
     reversed       |-> {"reversed"},
     clawed_back    |-> {"clawed_back"},
     expired        |-> {"expired", "failed"}]

\* updateStatus without expected statuses: one guarded UPDATE that silently
\* does nothing when the table forbids the change.
updateStatus(t, s) ==
    status' = [status EXCEPT ![t] =
        IF s = @ \/ s \in ALLOWED_STATUS_TRANSITIONS[@] THEN s ELSE @]

\* findById goes through queryRead: the primary's row, or the copy of a replica
\* that lags behind it ("none" when the row has not arrived yet).
Primary(t) == [status |-> status[t], meta |-> meta[t]]
findById(t) ==
    {Primary(t)} \cup (IF "replicaReads" \in features THEN {replica[t]} ELSE {})

Replicate(t) ==
    /\ "replicaReads" \in features
    /\ replica[t] # Primary(t)
    /\ replica' = [replica EXCEPT ![t] = Primary(t)]
    /\ UNCHANGED <<features, type, status, meta, intake, released, known, jobs,
                   dups, worker, request, stellar, momo, unsure, events,
                   faults>>

-----------------------------------------------------------------------------
(* The creating request and the AML review *)

Create(t) ==
    /\ intake[t] = "new"
    /\ intake' = [intake EXCEPT ![t] = "created"]
    /\ \E ty \in {"deposit", "withdraw"} : type' = [type EXCEPT ![t] = ty]
    /\ status' = [status EXCEPT ![t] = "pending"]
    /\ UNCHANGED <<features, replica, meta, released, known, jobs, dups,
                   worker, request, stellar, momo, unsure, events, faults>>

\* applySEP08Verification fails a deposit that is not approved and aborts the
\* request; an error on the way (no code) is only logged and the request goes on.
VerifySep08(t) ==
    /\ intake[t] = "created"
    /\ \/ /\ intake' = [intake EXCEPT ![t] = "verified"]
          /\ UNCHANGED <<status, faults>>
       \/ /\ type[t] = "deposit"
          /\ updateStatus(t, "failed")
          /\ \/ /\ intake' = [intake EXCEPT ![t] = "refused"]
                /\ UNCHANGED faults
             \/ /\ faults < FaultBudget
                /\ faults' = faults + 1
                /\ intake' = [intake EXCEPT ![t] = "verified"]
    /\ UNCHANGED <<features, replica, type, meta, released, known, jobs, dups,
                   worker, request, stellar, momo, unsure, events>>

\* AMLVelocityService.enforce: a breach holds the row if it is still pending.
\* When raising the alert then throws, applyAMLVelocityHold answers "not held":
\* the request enqueues the held row.
VelocityHold(t) ==
    /\ intake[t] = "verified"
    /\ status[t] = "pending"
    /\ status' = [status EXCEPT ![t] = "pending_review"]
    /\ \/ /\ intake' = [intake EXCEPT ![t] = "held"]
          /\ UNCHANGED faults
       \/ /\ "alertThrows" \in features
          /\ faults < FaultBudget
          /\ faults' = faults + 1
          /\ intake' = [intake EXCEPT ![t] = "clear"]
    /\ UNCHANGED <<features, replica, type, meta, released, known, jobs, dups,
                   worker, request, stellar, momo, unsure, events>>

\* No breach, or the status has changed since.
VelocityClear(t) ==
    /\ intake[t] = "verified"
    /\ intake' = [intake EXCEPT ![t] = "clear"]
    /\ UNCHANGED <<features, replica, type, status, meta, released, known,
                   jobs, dups, worker, request, stellar, momo, unsure, events,
                   faults>>

\* resolveHold: updateStatus with expected status pending_review; the status
\* change and the enqueue are two steps.
ResolveRelease(t) ==
    /\ status[t] = "pending_review"
    /\ status' = [status EXCEPT ![t] = "pending"]
    /\ released' = released \cup {t}
    /\ UNCHANGED <<features, replica, type, meta, intake, known, jobs, dups,
                   worker, request, stellar, momo, unsure, events, faults>>

ResolveReject(t) ==
    /\ status[t] = "pending_review"
    /\ status' = [status EXCEPT ![t] = "cancelled"]
    /\ UNCHANGED <<features, replica, type, meta, intake, released, known,
                   jobs, dups, worker, request, stellar, momo, unsure, events,
                   faults>>

\* BullMQ has a waiting or active job for t.
Busy(t) == jobs[t] > 0 \/ \E w \in Workers : worker[w].tx = t

\* addTransactionJob with jobId = t: ignored while BullMQ has that job, and
\* afterwards until retention has removed its record.
AddJob(t) ==
    /\ known' = known \cup {t}
    /\ \/ /\ ~Busy(t)
          /\ jobs' = [jobs EXCEPT ![t] = @ + 1]
       \/ /\ t \in known
          /\ UNCHANGED jobs

Enqueue(t) ==
    /\ intake[t] = "clear"
    /\ intake' = [intake EXCEPT ![t] = "queued"]
    /\ AddJob(t)
    /\ UNCHANGED <<features, replica, type, status, meta, released, dups,
                   worker, request, stellar, momo, unsure, events, faults>>

\* resolveHold reads the row again and enqueues it if it finds one.
EnqueueReleased(t) ==
    /\ t \in released
    /\ released' = released \ {t}
    /\ \E seen \in findById(t) :
          IF seen.status = "none" THEN UNCHANGED <<known, jobs>> ELSE AddJob(t)
    /\ UNCHANGED <<features, replica, type, status, meta, intake, dups, worker,
                   request, stellar, momo, unsure, events, faults>>

\* The creating request or resolveHold throws or dies before it has enqueued:
\* a lost connection, a backpressure error of addTransactionJob, a crash.
RequestThrows(t) ==
    /\ faults < FaultBudget
    /\ faults' = faults + 1
    /\ \/ /\ intake[t] \in {"created", "verified", "clear"}
          /\ intake' = [intake EXCEPT ![t] = "refused"]
          /\ UNCHANGED released
       \/ /\ t \in released
          /\ released' = released \ {t}
          /\ UNCHANGED intake
    /\ UNCHANGED <<features, replica, type, status, meta, known, jobs, dups,
                   worker, request, stellar, momo, unsure, events>>

\* A replay after BullMQ forgot the job, or a "-resumed-" copy of it.
DuplicateJob(t) ==
    /\ t \in known
    /\ dups[t] < MaxDuplicates
    /\ jobs' = [jobs EXCEPT ![t] = @ + 1]
    /\ dups' = [dups EXCEPT ![t] = @ + 1]
    /\ UNCHANGED <<features, replica, type, status, meta, intake, released,
                   known, worker, request, stellar, momo, unsure, events,
                   faults>>

\* The metadata routes act on any row, whatever its status: PUT replaces the
\* metadata, PATCH merges keys into it (a key without a hash or a success in it
\* clears, and so does the undo of a patch that makes the row too large), DELETE
\* removes keys.
EditMetadata(t, keys) ==
    /\ "metadataEdits" \in features
    /\ status[t] # "none"
    /\ meta' = [meta EXCEPT ![t] = keys]
    /\ UNCHANGED <<features, replica, type, status, intake, released, known,
                   jobs, dups, worker, request, stellar, momo, unsure, events,
                   faults>>

updateMetadataHandler(t) == \E keys \in SUBSET MetaKeys : EditMetadata(t, keys)

patchMetadataHandler(t) ==
    \E set, clear \in SUBSET MetaKeys : EditMetadata(t, (meta[t] \ clear) \cup set)

deleteMetadataKeysHandler(t) ==
    \E keys \in SUBSET MetaKeys : EditMetadata(t, meta[t] \ keys)

-----------------------------------------------------------------------------
(* processTransaction *)

IdleWorker == [pc |-> "idle", tx |-> NoTx, claimed |-> FALSE, attempt |-> 1,
               snap |-> {}]

At(w, pc) == worker[w].pc = pc
Goto(w, pc) == worker' = [worker EXCEPT ![w].pc = pc, ![w].attempt = 1]
Done(w) == worker' = [worker EXCEPT ![w] = IdleWorker]

TakeJob(w, t) ==
    /\ At(w, "idle")
    /\ jobs[t] > 0
    /\ jobs' = [jobs EXCEPT ![t] = @ - 1]
    /\ worker' = [worker EXCEPT ![w] = [IdleWorker EXCEPT !.pc = "ip",
                                                          !.tx = t]]
    /\ UNCHANGED <<features, replica, type, status, meta, intake, released,
                   known, dups, request, stellar, momo, unsure, events,
                   faults>>

\* A blacklisted origin fails the row before any claim.
CheckIp(w) ==
    /\ At(w, "ip")
    /\ \/ Goto(w, "claim") /\ UNCHANGED status
       \/ updateStatus(worker[w].tx, "failed") /\ Goto(w, "announceFail")
    /\ UNCHANGED <<features, replica, type, meta, intake, released, known,
                   jobs, dups, request, stellar, momo, unsure, events, faults>>

\* Mutant: the claim also takes rows that are already processing.
claimAnyOpen(w) ==
    /\ At(w, "claim")
    /\ IF status[worker[w].tx] \in {"pending", "processing"}
       THEN /\ status' = [status EXCEPT ![worker[w].tx] = "processing"]
            /\ worker' = [worker EXCEPT ![w].pc = "screen",
                                        ![w].claimed = TRUE]
       ELSE Goto(w, "reread") /\ UNCHANGED status
    /\ UNCHANGED <<features, replica, type, meta, intake, released, known,
                   jobs, dups, request, stellar, momo, unsure, events, faults>>

claimForProcessing(w) ==
    /\ At(w, "claim")
    /\ IF status[worker[w].tx] = "pending"
       THEN /\ status' = [status EXCEPT ![worker[w].tx] = "processing"]
            /\ worker' = [worker EXCEPT ![w].pc = "screen",
                                        ![w].claimed = TRUE]
       ELSE Goto(w, "reread") /\ UNCHANGED status
    /\ UNCHANGED <<features, replica, type, meta, intake, released, known,
                   jobs, dups, request, stellar, momo, unsure, events, faults>>

\* Mutant: a failed claim is not looked at.
IgnoreFailedClaim(w) ==
    /\ At(w, "reread")
    /\ Goto(w, "screen")
    /\ UNCHANGED <<features, replica, type, status, meta, intake, released,
                   known, jobs, dups, request, stellar, momo, unsure, events,
                   faults>>

\* Not claimed: skip, unless the row is not found or reads as pending, in which
\* case the code falls through to the payment.
RereadAfterFailedClaim(w) ==
    /\ At(w, "reread")
    /\ \E seen \in findById(worker[w].tx) :
          IF seen.status \notin {"none", "pending"} THEN Done(w)
          ELSE Goto(w, "screen")
    /\ UNCHANGED <<features, replica, type, status, meta, intake, released,
                   known, jobs, dups, request, stellar, momo, unsure, events,
                   faults>>

\* holdWithdrawalIfSanctioned, for withdrawals only.
Screen(w) ==
    /\ At(w, "screen")
    /\ \/ Goto(w, "stellar") /\ UNCHANGED status
       \/ /\ type[worker[w].tx] = "withdraw"
          /\ updateStatus(worker[w].tx, "review")
          /\ Done(w)
    /\ UNCHANGED <<features, replica, type, meta, intake, released, known,
                   jobs, dups, request, stellar, momo, unsure, events, faults>>

\* A payment counter, saturating at 2: the properties only ask for "twice".
Count(f, t) == [f EXCEPT ![t] = IF @ = 2 THEN 2 ELSE @ + 1]

\* The payment to the customer's Stellar account: made for both types, before
\* the try block and without looking at the metadata ("stellar"); and once more
\* for a deposit whose metadata shows no hash ("resend").
SendStellar(w) ==
    /\ worker[w].pc \in {"stellar", "resend"}
    /\ stellar' = Count(stellar, worker[w].tx)
    /\ Goto(w, IF At(w, "stellar") THEN "readMeta" ELSE "rereadMeta")
    /\ UNCHANGED <<features, replica, type, status, meta, intake, released,
                   known, jobs, dups, request, momo, unsure, events, faults>>

\* The call resolves without a hash: nothing was sent, or the pool submitted the
\* payment and reports the error that followed as an answer.  The first send then
\* stores nothing; the second one stores its empty answer.
SendWithoutHash(w) ==
    /\ "noHash" \in features
    /\ worker[w].pc \in {"stellar", "resend"}
    /\ \/ UNCHANGED <<stellar, unsure>>
       \/ /\ stellar' = Count(stellar, worker[w].tx)
          /\ unsure' = unsure \cup {worker[w].tx}
    /\ Goto(w, IF At(w, "stellar") THEN "branch" ELSE "rereadBare")
    /\ UNCHANGED <<features, replica, type, status, meta, intake, released,
                   known, jobs, dups, request, momo, events, faults>>

\* The first payment throws past the handler: the job fails and the row stays as
\* it is.  The second one throws into the catch block.
StellarThrows(w) == IF At(w, "stellar") THEN Done(w) ELSE Goto(w, "fail")

\* Mutant: withRetry tries once too often.
StellarOneMoreTry(w) ==
    /\ worker[w].pc \in {"stellar", "resend"}
    /\ faults < FaultBudget
    /\ faults' = faults + 1
    /\ IF worker[w].attempt <= MaxAttempts
       THEN worker' = [worker EXCEPT ![w].attempt = @ + 1]
       ELSE StellarThrows(w)
    /\ UNCHANGED <<features, replica, type, status, meta, intake, released,
                   known, jobs, dups, request, stellar, momo, unsure, events>>

\* withRetry: a transient error (with or without effect) is tried again up to
\* maxAttempts.
StellarTransient(w) ==
    /\ worker[w].pc \in {"stellar", "resend"}
    /\ faults < FaultBudget
    /\ faults' = faults + 1
    /\ \/ UNCHANGED <<stellar, unsure>>
       \/ /\ stellar' = Count(stellar, worker[w].tx)
          /\ unsure' = unsure \cup {worker[w].tx}
    /\ IF worker[w].attempt < MaxAttempts
       THEN worker' = [worker EXCEPT ![w].attempt = @ + 1]
       ELSE StellarThrows(w)
    /\ UNCHANGED <<features, replica, type, status, meta, intake, released,
                   known, jobs, dups, request, momo, events>>

StellarRejected(w) ==
    /\ "horizonRejects" \in features
    /\ worker[w].pc \in {"stellar", "resend"}
    /\ StellarThrows(w)
    /\ UNCHANGED <<features, replica, type, status, meta, intake, released,
                   known, jobs, dups, request, stellar, momo, unsure, events,
                   faults>>

\* The answer is stored by reading the metadata and writing all of it back: after
\* the first send only if it has a hash, after the second one in any case, and
\* without a hash ("bare") that leaves the row with none.
WriteBack(pc) == CASE pc = "readMeta" -> "writeMeta"
                   [] pc = "rereadMeta" -> "rewriteMeta"
                   [] OTHER -> "rewriteBare"

ReadMetadata(w) ==
    /\ worker[w].pc \in {"readMeta", "rereadMeta", "rereadBare"}
    /\ \E seen \in findById(worker[w].tx) :
          worker' = [worker EXCEPT ![w].pc = WriteBack(@), ![w].snap = seen.meta]
    /\ UNCHANGED <<features, replica, type, status, meta, intake, released,
                   known, jobs, dups, request, stellar, momo, unsure, events,
                   faults>>

UpdateMetadata(w) ==
    /\ worker[w].pc \in {"writeMeta", "rewriteMeta", "rewriteBare"}
    /\ meta' = [meta EXCEPT ![worker[w].tx] =
           IF At(w, "rewriteBare") THEN worker[w].snap \ {"stellar"}
           ELSE worker[w].snap \cup {"stellar"}]
    /\ Goto(w, IF At(w, "writeMeta") THEN "branch" ELSE "complete")
    /\ UNCHANGED <<features, replica, type, status, intake, released, known,
                   jobs, dups, request, stellar, momo, unsure, events, faults>>

\* After the collection a deposit looks for the hash; a withdrawal is done.
AfterProvider(t, keys) ==
    IF type[t] = "deposit" /\ "stellar" \notin keys THEN "resend"
    ELSE "complete"

\* Mutant: the Stellar hash is taken as the sign that the deposit is collected.
BranchOnStellar(w) ==
    /\ At(w, "branch")
    /\ \E seen \in findById(worker[w].tx) :
          worker' = [worker EXCEPT
              ![w].pc = IF type[worker[w].tx] = "deposit"
                           /\ "stellar" \in seen.meta
                        THEN AfterProvider(worker[w].tx, seen.meta)
                        ELSE "provider",
              ![w].snap = seen.meta]
    /\ UNCHANGED <<features, replica, type, status, meta, intake, released,
                   known, jobs, dups, request, stellar, momo, unsure, events,
                   faults>>

\* Inside the try: the metadata decides what a deposit still has to do.
Branch(w) ==
    /\ At(w, "branch")
    /\ \E seen \in findById(worker[w].tx) :
          worker' = [worker EXCEPT
              ![w].pc = IF type[worker[w].tx] = "deposit"
                           /\ "mobileMoney" \in seen.meta
                        THEN AfterProvider(worker[w].tx, seen.meta)
                        ELSE "provider",
              ![w].snap = seen.meta]
    /\ UNCHANGED <<features, replica, type, status, meta, intake, released,
                   known, jobs, dups, request, stellar, momo, unsure, events,
                   faults>>

\* initiatePayment (deposit) or sendPayout (withdrawal) answers success: MTN's
\* requesttopay was accepted, MTN's sendPayout sends nothing of its own.
CallProvider(w) ==
    /\ At(w, "provider")
    /\ momo' = Count(momo, worker[w].tx)
    /\ Goto(w, IF type[worker[w].tx] = "deposit" THEN "patchMeta"
               ELSE "complete")
    /\ UNCHANGED <<features, replica, type, status, meta, intake, released,
                   known, jobs, dups, request, stellar, unsure, events,
                   faults>>

ProviderTransient(w) ==
    /\ At(w, "provider")
    /\ faults < FaultBudget
    /\ faults' = faults + 1
    /\ \/ UNCHANGED <<momo, unsure>>
       \/ /\ momo' = Count(momo, worker[w].tx)
          /\ unsure' = unsure \cup {worker[w].tx}
    /\ IF worker[w].attempt < MaxAttempts
       THEN worker' = [worker EXCEPT ![w].attempt = @ + 1]
       ELSE Goto(w, "fail")
    /\ UNCHANGED <<features, replica, type, status, meta, intake, released,
                   known, jobs, dups, request, stellar, events>>

\* Inside one call the service fails over to the next provider after an error of
\* the first, which may have accepted the operation; without effect it is no step.
ProviderFailsOver(w) ==
    /\ At(w, "provider")
    /\ faults < FaultBudget
    /\ faults' = faults + 1
    /\ momo' = Count(momo, worker[w].tx)
    /\ unsure' = unsure \cup {worker[w].tx}
    /\ UNCHANGED <<features, replica, type, status, meta, intake, released,
                   known, jobs, dups, worker, request, stellar, events>>

ProviderRejected(w) ==
    /\ At(w, "provider")
    /\ Goto(w, "fail")
    /\ UNCHANGED <<features, replica, type, status, meta, intake, released,
                   known, jobs, dups, request, stellar, momo, unsure, events,
                   faults>>

\* Mutant: the patch replaces the metadata instead of merging into it.
ReplaceMetadata(w) ==
    /\ At(w, "patchMeta")
    /\ meta' = [meta EXCEPT ![worker[w].tx] = {"mobileMoney"}]
    /\ Goto(w, AfterProvider(worker[w].tx, worker[w].snap))
    /\ UNCHANGED <<features, replica, type, status, intake, released, known,
                   jobs, dups, request, stellar, momo, unsure, events, faults>>

\* patchMetadata merges in one statement, and takes its keys out again when the
\* row has become too large; its failure is only logged.
PatchMetadata(w) ==
    /\ At(w, "patchMeta")
    /\ \/ /\ meta' = [meta EXCEPT ![worker[w].tx] = @ \cup {"mobileMoney"}]
          /\ UNCHANGED faults
       \/ /\ faults < FaultBudget
          /\ faults' = faults + 1
          /\ \E lost \in SUBSET {"mobileMoney"} :
                meta' = [meta EXCEPT ![worker[w].tx] = @ \ lost]
    /\ Goto(w, AfterProvider(worker[w].tx, worker[w].snap))
    /\ UNCHANGED <<features, replica, type, status, intake, released, known,
                   jobs, dups, request, stellar, momo, unsure, events>>

\* updateStatus(Completed); its result is not looked at.
MarkCompleted(w) ==
    /\ At(w, "complete")
    /\ updateStatus(worker[w].tx, "completed")
    /\ Goto(w, "announce")
    /\ UNCHANGED <<features, replica, type, meta, intake, released, known,
                   jobs, dups, request, stellar, momo, unsure, events, faults>>

\* Webhook, notification and RabbitMQ, still inside the try: when one of them
\* throws, the catch block treats the transaction as failed.
AnnounceCompleted(w) ==
    /\ At(w, "announce")
    /\ \/ /\ events' = [events EXCEPT ![worker[w].tx] = @ \cup {"completed"}]
          /\ Done(w)
          /\ UNCHANGED faults
       \/ /\ faults < FaultBudget
          /\ faults' = faults + 1
          /\ Goto(w, "fail")
          /\ \E sent \in SUBSET {"completed"} :
                events' = [events EXCEPT ![worker[w].tx] = @ \cup sent]
    /\ UNCHANGED <<features, replica, type, status, meta, intake, released,
                   known, jobs, dups, request, stellar, momo, unsure>>

\* Mutant: the catch block announces the failure but leaves the row alone.
FailWithoutStatus(w) ==
    /\ At(w, "fail")
    /\ Goto(w, "announceFail")
    /\ UNCHANGED <<features, replica, type, status, meta, intake, released,
                   known, jobs, dups, request, stellar, momo, unsure, events,
                   faults>>

MarkFailed(w) ==
    /\ At(w, "fail")
    /\ updateStatus(worker[w].tx, "failed")
    /\ Goto(w, "announceFail")
    /\ UNCHANGED <<features, replica, type, meta, intake, released, known,
                   jobs, dups, request, stellar, momo, unsure, events, faults>>

AnnounceFailed(w) ==
    /\ At(w, "announceFail")
    /\ \/ /\ events' = [events EXCEPT ![worker[w].tx] = @ \cup {"failed"}]
          /\ UNCHANGED faults
       \/ /\ faults < FaultBudget
          /\ faults' = faults + 1
          /\ \E sent \in SUBSET {"failed"} :
                events' = [events EXCEPT ![worker[w].tx] = @ \cup sent]
    /\ Done(w)
    /\ UNCHANGED <<features, replica, type, status, meta, intake, released,
                   known, jobs, dups, request, stellar, momo, unsure>>

\* A statement of the worker throws.  Before the try block and in the catch block
\* that fails the BullMQ job and leaves the row as it is; inside the try it leads
\* to the catch block.
DatabaseThrows(w) ==
    /\ faults < FaultBudget
    /\ faults' = faults + 1
    /\ \/ /\ worker[w].pc \in {"ip", "claim", "reread", "screen", "readMeta",
                               "writeMeta", "fail"}
          /\ Done(w)
       \/ /\ worker[w].pc \in {"branch", "rereadMeta", "rewriteMeta",
                               "rereadBare", "rewriteBare", "complete"}
          /\ Goto(w, "fail")
    /\ UNCHANGED <<features, replica, type, status, meta, intake, released,
                   known, jobs, dups, request, stellar, momo, unsure, events>>

\* The worker process dies; BullMQ delivers the stalled job once more.
Crash(w) ==
    /\ ~At(w, "idle")
    /\ faults < FaultBudget
    /\ faults' = faults + 1
    /\ jobs' = [jobs EXCEPT ![worker[w].tx] = @ + 1]
    /\ Done(w)
    /\ UNCHANGED <<features, replica, type, status, meta, intake, released,
                   known, dups, request, stellar, momo, unsure, events>>

-----------------------------------------------------------------------------
(* Handlers that read a row and write it later *)

IdleRequest == [kind |-> "none", tx |-> NoTx, answer |-> "none"]

\* cancelTransactionHandler and getTransactionHandler (past the timeout) act on
\* a row that findById shows as pending, refundTransactionHandler on a failed
\* withdrawal; the watchdog selects pending rows and retry-batch pending and
\* failed ones, both on the primary.
Selects(k, t) ==
    \/ k \in {"cancel", "timeout"}
       /\ \E seen \in findById(t) : seen.status = "pending"
    \/ k = "refund" /\ "refund" \in features /\ type[t] = "withdraw"
       /\ \E seen \in findById(t) : seen.status = "failed"
    \/ k = "watchdog" /\ status[t] = "pending"
    \/ k = "retry" /\ "retryBatch" \in features
       /\ status[t] \in {"pending", "failed"}

ReadRow(r, k, t) ==
    /\ request[r].kind = "none"
    /\ Selects(k, t)
    /\ request' = [request EXCEPT ![r] = [IdleRequest EXCEPT !.kind = k,
                                                             !.tx = t]]
    /\ UNCHANGED <<features, replica, type, status, meta, intake, released,
                   known, jobs, dups, worker, stellar, momo, unsure, events,
                   faults>>

\* The unconditional updateStatus that follows the check.
CancelTransaction(r) ==
    /\ request[r].kind = "cancel"
    /\ updateStatus(request[r].tx, "cancelled")
    /\ request' = [request EXCEPT ![r] = IdleRequest]
    /\ UNCHANGED <<features, replica, type, meta, intake, released, known,
                   jobs, dups, worker, stellar, momo, unsure, events, faults>>

TimeOutTransaction(r) ==
    /\ request[r].kind = "timeout"
    /\ updateStatus(request[r].tx, "failed")
    /\ request' = [request EXCEPT ![r] = IdleRequest]
    /\ UNCHANGED <<features, replica, type, meta, intake, released, known,
                   jobs, dups, worker, stellar, momo, unsure, events, faults>>

\* The refund's updateStatus(Completed); the answer is "Refund processed
\* successfully" whether it changes the row or not.
RefundTransaction(r) ==
    /\ request[r].kind = "refund"
    /\ updateStatus(request[r].tx, "completed")
    /\ request' = [request EXCEPT ![r] = IdleRequest]
    /\ UNCHANGED <<features, replica, type, meta, intake, released, known,
                   jobs, dups, worker, stellar, momo, unsure, events, faults>>

\* What the provider says of a transaction's mobile-money operation: one that was
\* accepted may have failed since; "expired" stands for every answer the 12-hour
\* watchdog turns into that status.
ProviderAnswers(t) ==
    {"failed", "expired"} \cup (IF momo[t] > 0 THEN {"completed"} ELSE {})

\* The MTN watchdog leaves a row alone that is pending at the operator or out of
\* attempts, and both of them one whose query throws.
WatchdogAsks(r) ==
    /\ request[r].kind = "watchdog"
    /\ request[r].answer = "none"
    /\ \/ \E a \in ProviderAnswers(request[r].tx) :
             request' = [request EXCEPT ![r].answer = a]
       \/ request' = [request EXCEPT ![r] = IdleRequest]
    /\ UNCHANGED <<features, replica, type, status, meta, intake, released,
                   known, jobs, dups, worker, stellar, momo, unsure, events,
                   faults>>

WatchdogResolves(r) ==
    /\ request[r].kind = "watchdog"
    /\ request[r].answer # "none"
    /\ updateStatus(request[r].tx, request[r].answer)
    /\ request' = [request EXCEPT ![r] = IdleRequest]
    /\ UNCHANGED <<features, replica, type, meta, intake, released, known,
                   jobs, dups, worker, stellar, momo, unsure, events, faults>>

\* retry-batch writes 'pending' with no condition on the status ...
RetryBatchUpdates(r) ==
    /\ request[r].kind = "retry"
    /\ status' = [status EXCEPT ![request[r].tx] = "pending"]
    /\ request' = [request EXCEPT ![r].kind = "requeue"]
    /\ UNCHANGED <<features, replica, type, meta, intake, released, known,
                   jobs, dups, worker, stellar, momo, unsure, events, faults>>

\* ... and then enqueues under the transaction's id.
RetryBatchRequeues(r) ==
    /\ request[r].kind = "requeue"
    /\ AddJob(request[r].tx)
    /\ request' = [request EXCEPT ![r] = IdleRequest]
    /\ UNCHANGED <<features, replica, type, status, meta, intake, released,
                   dups, worker, stellar, momo, unsure, events, faults>>

-----------------------------------------------------------------------------
Init ==
    /\ features \in Scenarios
    /\ type = [t \in Txns |-> "deposit"]
    /\ status = [t \in Txns |-> "none"]
    /\ meta = [t \in Txns |-> {}]
    /\ replica = [t \in Txns |-> [status |-> "none", meta |-> {}]]
    /\ intake = [t \in Txns |-> "new"]
    /\ released = {}
    /\ known = {}
    /\ jobs = [t \in Txns |-> 0]
    /\ dups = [t \in Txns |-> 0]
    /\ worker = [w \in Workers |-> IdleWorker]
    /\ request = [r \in Requests |-> IdleRequest]
    /\ stellar = [t \in Txns |-> 0]
    /\ momo = [t \in Txns |-> 0]
    /\ unsure = {}
    /\ events = [t \in Txns |-> {}]
    /\ faults = 0

IntakeStep(t) ==
    \/ Create(t)
    \/ VerifySep08(t)
    \/ VelocityHold(t)
    \/ VelocityClear(t)
    \/ Enqueue(t)
    \/ EnqueueReleased(t)

WorkerStep(w) ==
    \/ CheckIp(w)
    \/ claimForProcessing(w)
    \/ RereadAfterFailedClaim(w)
    \/ Screen(w)
    \/ SendStellar(w)
    \/ SendWithoutHash(w)
    \/ StellarRejected(w)
    \/ ReadMetadata(w)
    \/ UpdateMetadata(w)
    \/ Branch(w)
    \/ CallProvider(w)
    \/ ProviderRejected(w)
    \/ PatchMetadata(w)
    \/ MarkCompleted(w)
    \/ AnnounceCompleted(w)
    \/ MarkFailed(w)
    \/ AnnounceFailed(w)

Next ==
    \/ \E t \in Txns : \/ IntakeStep(t)
                       \/ ResolveRelease(t)
                       \/ ResolveReject(t)
                       \/ RequestThrows(t)
                       \/ DuplicateJob(t)
                       \/ Replicate(t)
                       \/ updateMetadataHandler(t)
                       \/ patchMetadataHandler(t)
                       \/ deleteMetadataKeysHandler(t)
    \/ \E w \in Workers : \/ \E t \in Txns : TakeJob(w, t)
                          \/ WorkerStep(w)
                          \/ StellarTransient(w)
                          \/ ProviderTransient(w)
                          \/ ProviderFailsOver(w)
                          \/ DatabaseThrows(w)
                          \/ Crash(w)
    \/ \E r \in Requests : \/ \E k \in Kinds, t \in Txns : ReadRow(r, k, t)
                           \/ CancelTransaction(r)
                           \/ TimeOutTransaction(r)
                           \/ RefundTransaction(r)
                           \/ WatchdogAsks(r)
                           \/ WatchdogResolves(r)
                           \/ RetryBatchUpdates(r)
                           \/ RetryBatchRequeues(r)

Spec == Init /\ [][Next]_vars

\* Requests and jobs that have started go on, and an idle worker takes a
\* waiting job.
FairSpec ==
    /\ Spec
    /\ \A t \in Txns : WF_vars(IntakeStep(t))
    /\ \A w \in Workers : /\ WF_vars(WorkerStep(w))
                          /\ WF_vars(\E t \in Txns : TakeJob(w, t))

-----------------------------------------------------------------------------
(* Properties *)

\* Every variable stays in its range; in particular withRetry counts no further
\* than maxAttempts.
TypeOK ==
    /\ features \in Scenarios
    /\ type \in [Txns -> {"deposit", "withdraw"}]
    /\ status \in [Txns -> Statuses \cup {"none"}]
    /\ meta \in [Txns -> SUBSET MetaKeys]
    /\ replica \in [Txns -> [status : Statuses \cup {"none"},
                             meta : SUBSET MetaKeys]]
    /\ intake \in [Txns -> Intakes]
    /\ released \in SUBSET Txns
    /\ known \in SUBSET Txns
    /\ jobs \in [Txns -> Nat]
    /\ dups \in [Txns -> 0..MaxDuplicates]
    /\ worker \in [Workers -> [pc : WorkerPcs, tx : Txns \cup {NoTx},
                               claimed : BOOLEAN, attempt : 1..MaxAttempts,
                               snap : SUBSET MetaKeys]]
    /\ request \in [Requests -> [kind : Kinds, tx : Txns \cup {NoTx},
                                 answer : Answers]]
    /\ stellar \in [Txns -> 0..2]
    /\ momo \in [Txns -> 0..2]
    /\ unsure \in SUBSET Txns
    /\ events \in [Txns -> SUBSET {"completed", "failed"}]
    /\ faults \in 0..MaxFaults

\* Alerts do not throw, nobody runs retry-batch or edits the metadata of a
\* transaction, and reads go to the primary.
Ordinary ==
    features \cap {"alertThrows", "retryBatch", "replicaReads", "metadataEdits"} = {}

\* "duplicate/parallel worker instances do not execute payments or side-effects
\* twice for the same transaction" (worker.ts:333): whatever is delivered twice,
\* cancelled, timed out, refunded or crashes, a row is paid at most once, as long
\* as no external call took effect and still reported an error.  The second
\* sendPayment, which follows a first one without a hash, is the only payment then.
PaidOnce ==
    Ordinary => \A t \in Txns \ unsure : stellar[t] <= 1 /\ momo[t] <= 1

\* The same promise for the retries of worker.ts:528, "Check if Stellar payment
\* was already submitted on a previous attempt/retry": also when an operator
\* re-queues a failed transaction, the customer gets one Stellar payment.
RetrySendsStellarOnce == \A t \in Txns \ unsure : stellar[t] <= 1

\* The second sendPayment of the deposit branch is reached in three ways only:
\* through a lagging replica, after a first answer without a hash (worker.ts:429
\* then stores nothing), or when a client has edited the hash away.  Otherwise the
\* hash is there when the branch reads the metadata, whatever two workers of one
\* re-queued row do to it with their read-modify-writes.
NoSecondSend ==
    features \cap {"replicaReads", "noHash", "metadataEdits"} = {} =>
        \A w \in Workers : worker[w].pc # "resend"

\* "Hold first so a failure while alerting can never let the payment through"
\* (amlVelocityService.ts:188): while a row is held no worker is about to pay
\* it, even though a failed alert lets the request enqueue it.
HeldIsNotPaid ==
    \A w \in Workers : worker[w].pc \in {"stellar", "provider", "resend"}
                           => status[worker[w].tx] # "pending_review"

\* That promise is kept when the worker's reread after the failed claim goes to
\* the primary and nobody re-queues the row behind the worker's back.
HoldKeptOnPrimary ==
    features \cap {"replicaReads", "retryBatch"} = {} => HeldIsNotPaid

\* What is said of a transaction agrees with what the providers were asked: one
\* that is completed, whoever set the status, or that customers were told is
\* completed, has had its collection or payout accepted by a provider's adapter;
\* unless an administrator "refunded" it or a client wrote mobileMoney.success into
\* its metadata, which makes the worker skip the collection (worker.ts:484).
CompletedMeansAccepted ==
    features \cap {"refund", "metadataEdits"} = {} =>
        \A t \in Txns : status[t] = "completed" \/ "completed" \in events[t]
                            => momo[t] > 0

\* No late writer (catch block, timeout, watchdog, cancel, refund, duplicate job)
\* takes a completed or cancelled transaction back; only retry-batch could.
FinalStatusStays ==
    [][\A t \in Txns : /\ status[t] \in {"completed", "cancelled"}
                       /\ "retryBatch" \notin features
                       => status'[t] = status[t]]_vars

\* If Horizon does not reject and nothing crashes, every created transaction
\* leaves 'pending' and 'processing', or waits for a compliance decision.
EveryTransactionSettles ==
    \A t \in Txns : t \in released \/ intake[t] \in {"clear", "queued"}
                        ~> status[t] \notin {"pending", "processing"}
=============================================================================
