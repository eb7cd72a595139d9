---------------------------- MODULE PayoutRefund ----------------------------
(***************************************************************************)
(* Withdrawals paid in batches and refunded when they failed:              *)
(* executeProviderBatchPayout of src/queue/payoutBatchWorker.ts, called by *)
(* POST /batch-payout/trigger of src/routes/bulk.ts without any exclusion, *)
(* the queue worker that pays the same rows one by one (the payout branch  *)
(* of src/queue/worker.ts; TransactionWorker has the rest of it), and the  *)
(* refund queue of src/queue/refundWorker.ts.                              *)
(*                                                                         *)
(* Every await is a step boundary.  A payout counts as paid when a         *)
(* provider's adapter accepted it, whether its answer arrived or not.      *)
(* Lists and rereads go to a replica that may lag.  The transaction queue  *)
(* may deliver a job several times; a refund job is retried until its      *)
(* attempts are used up, run again when its worker died or stalled, and    *)
(* forgotten by retention afterwards.                                      *)
(***************************************************************************)
EXTENDS Integers, FiniteSets

CONSTANTS
    Txns,         \* withdrawal rows
    Deliveries,   \* runs of processTransaction the transaction queue makes
    RowOf,        \* [Deliveries -> Txns]
    Batches,      \* calls of executeProviderBatchPayout
    MaxAttempts,  \* attempts of a refund job
    MaxFaults     \* bound: lost answers, exceptions, crashes, stale reads

ASSUME RowOfAssumption == RowOf \in [Deliveries -> Txns]
ASSUME MaxAttemptsAssumption == MaxAttempts \in Nat \ {0}
ASSUME MaxFaultsAssumption == MaxFaults \in Nat

VARIABLES
    status,    \* [Txns -> transactions.status]
    refund,    \* [Txns -> metadata.refund.status, "none" without the key]
    batch,     \* [Batches -> progress of one call]
    claim,     \* [Deliveries -> progress of the queue worker's run]
    job,       \* [Txns -> the refund job whose jobId is the transaction]
    late,      \* [Txns -> what a worker that lost the refund job is still doing]
    paid,      \* [Txns -> payouts accepted for the row, 2 = two or more]
    refunded,  \* [Txns -> Stellar refunds that took effect, 2 = two or more]
    mishaps,   \* what has gone wrong so far, <<cause, row>>
    faults     \* faults that have happened, against MaxFaults

vars == <<status, refund, batch, claim, job, late, paid, refunded, mishaps, faults>>

(***************************************************************************)
(* The causes, each noted when it happens and not when it does harm:       *)
(*   raced      two payers held the row at the same time                   *)
(*   unrecorded a payer that had paid did not write it down                *)
(*   lost       a batch that paid was told that it had not                 *)
(*   unheard    a worker's payout was accepted and the answer an error     *)
(*   behind     a payer read an old pending row at the replica             *)
(*   overruled  a handler failed the row while a payer held it             *)
(*   redone     a refunded row was left without the completed marker       *)
(*   doubled    the refund job was taken from a worker that lives on       *)
(***************************************************************************)
Causes == {"raced", "unrecorded", "lost", "unheard", "behind", "overruled",
           "redone", "doubled"}
Statuses == {"pending", "processing", "completed", "failed"}
RefundMarks == {"none", "processing", "completed", "failed"}
BatchType == [pc : {"idle", "fetched", "hold", "record", "over"},
              todo : SUBSET Txns, outcome : {"success", "failure"}]
JobType == [pc : {"none", "waiting", "pay", "record", "notify",
                  "finished", "exhausted"},
            attempts : 0..MaxAttempts, stalled : BOOLEAN]

\* The ranges of the variables.
TypeOK ==
    /\ status \in [Txns -> Statuses]
    /\ refund \in [Txns -> RefundMarks]
    /\ batch \in [Batches -> BatchType]
    /\ claim \in [Deliveries -> {"queued", "refused", "claimed", "paid", "over"}]
    /\ job \in [Txns -> JobType]
    /\ late \in [Txns -> {"none", "pay", "record"}]
    /\ paid \in [Txns -> 0..2]
    /\ refunded \in [Txns -> 0..2]
    /\ mishaps \subseteq Causes \X Txns
    /\ faults \in 0..MaxFaults

Fault == faults < MaxFaults /\ faults' = faults + 1

Mark(cause, rows) == mishaps' = mishaps \cup ({cause} \X rows)

Befell(causes, t) == \E c \in causes : <<c, t>> \in mishaps

Twice(n) == IF n < 2 THEN n + 1 ELSE 2

----------------------------------------------------------------------------
\* Rows.

\* ALLOWED_STATUS_TRANSITIONS, between the statuses of this module.
Allowed == [pending |-> {"pending", "processing", "completed", "failed"},
            processing |-> {"processing", "completed", "failed", "pending"},
            completed |-> {"completed"},
            failed |-> {"failed"}]

\* updateStatus: no row matches when the transition is not allowed.
Updated(t, new) == IF new \in Allowed[status[t]] THEN new ELSE status[t]

\* The payers of a row: they hold it until they have written the outcome down.
InBatch(b, t) == batch[b].pc # "over" /\ t \in batch[b].todo
Holds(d, t) == RowOf[d] = t /\ claim[d] \in {"claimed", "paid"}
Held(t) == (\E b \in Batches : InBatch(b, t)) \/ (\E d \in Deliveries : Holds(d, t))

\* The status timeout and the stale-transaction watchdog.
HandlerEnds(t) ==
    /\ status[t] \in {"pending", "processing"}
    /\ \E s \in {"completed", "failed"} :
          /\ status' = [status EXCEPT ![t] = s]
          /\ Mark("overruled", {u \in {t} : s = "failed" /\ Held(u)})
    /\ UNCHANGED <<refund, batch, claim, job, late, paid, refunded, faults>>

----------------------------------------------------------------------------
\* executeProviderBatchPayout.

batchOnly == <<refund, claim, job, late, refunded>>

\* fetchPendingPayoutsForProvider selects, and claims nothing.  Rows beyond its
\* LIMIT, or not at the replica yet, are not found; a lagging replica may also
\* list rows that are pending no more.
Fetch(b) ==
    /\ batch[b].pc = "idle"
    /\ \E found \in SUBSET Txns :
          LET old == {t \in found : status[t] # "pending"} IN
          /\ batch' = [batch EXCEPT ![b].pc = IF found = {} THEN "over" ELSE "fetched",
                                    ![b].todo = found]
          /\ IF old = {} THEN UNCHANGED faults ELSE Fault
          /\ mishaps' = mishaps \cup ({"behind"} \X old)
                                \cup ({"raced"} \X {t \in found : Held(t)})
    /\ UNCHANGED <<batchOnly, status, paid>>

\* The float inquiry says there is not enough; a failed inquiry lets the batch go.
FloatTooLow(b) ==
    /\ batch[b].pc = "fetched"
    /\ batch' = [batch EXCEPT ![b].pc = "hold"]
    /\ UNCHANGED <<batchOnly, status, paid, mishaps, faults>>

\* The row is done with; the call is over after the last one.
RowDone(b, t) ==
    batch' = [batch EXCEPT ![b].todo = @ \ {t},
                           ![b].pc = IF batch[b].todo = {t} THEN "over" ELSE @]

\* holdTransactionsInPendingFloat, one row: back to pending, from processing too.
HoldRow(b, t) ==
    /\ batch[b].pc = "hold" /\ t \in batch[b].todo
    /\ status' = [status EXCEPT ![t] = Updated(t, "pending")]
    /\ RowDone(b, t)
    /\ UNCHANGED <<batchOnly, paid, mishaps, faults>>

PaidAlso(S) == [t \in Txns |-> IF t \in S THEN Twice(paid[t]) ELSE paid[t]]

\* sendBatchPayout reports all rows accepted, or all failed: also when the
\* provider took some or all of them and its answer did not come.
Send(b) ==
    /\ batch[b].pc = "fetched"
    /\ \/ /\ batch' = [batch EXCEPT ![b].pc = "record", ![b].outcome = "success"]
          /\ paid' = PaidAlso(batch[b].todo)
          /\ UNCHANGED <<mishaps, faults>>
       \/ /\ batch' = [batch EXCEPT ![b].pc = "record", ![b].outcome = "failure"]
          /\ \E taken \in SUBSET batch[b].todo :
                /\ paid' = PaidAlso(taken)
                /\ Mark("lost", taken)
                /\ IF taken = {} THEN UNCHANGED faults ELSE Fault
    /\ UNCHANGED <<batchOnly, status>>

\* Mutant: the results are looked up under another id, and none is found.
VerdictMissed(b) == "failed"

Verdict(b) == IF batch[b].outcome = "success" THEN "completed" ELSE "failed"

\* processBatchPayoutResults, one row of the loop.
Record(b, t) ==
    /\ batch[b].pc = "record" /\ t \in batch[b].todo
    /\ status' = [status EXCEPT ![t] = Updated(t, Verdict(b))]
    /\ RowDone(b, t)
    /\ UNCHANGED <<batchOnly, paid, mishaps, faults>>

WasPaid(b, t) == batch[b].outcome = "success" \/ Befell({"lost"}, t)

\* A row's update, webhook or publish throws: the loop is left, and with it
\* the rows it had not come to.
RecordThrows(b, t) ==
    /\ batch[b].pc = "record" /\ t \in batch[b].todo
    /\ Fault
    /\ \E written \in BOOLEAN :
          /\ status' = IF written THEN [status EXCEPT ![t] = Updated(t, Verdict(b))]
                       ELSE status
          /\ Mark("unrecorded",
                  {u \in batch[b].todo : WasPaid(b, u) /\ ~(written /\ u = t)})
    /\ batch' = [batch EXCEPT ![b].pc = "over", ![b].todo = {}]
    /\ UNCHANGED <<batchOnly, paid>>

\* The process of the call dies between two steps; paid rows stay as they are.
BatchDies(b) ==
    /\ batch[b].pc \in {"fetched", "hold", "record"}
    /\ Fault
    /\ Mark("unrecorded",
            {t \in batch[b].todo : batch[b].pc = "record" /\ WasPaid(b, t)})
    /\ batch' = [batch EXCEPT ![b].pc = "over", ![b].todo = {}]
    /\ UNCHANGED <<batchOnly, status, paid>>

----------------------------------------------------------------------------
\* The queue worker, one delivery of a withdrawal's job.

workerOnly == <<refund, batch, job, late, refunded>>

\* The run goes on to pay.
TakesRow(d) ==
    /\ claim' = [claim EXCEPT ![d] = "claimed"]
    /\ Mark("raced", {t \in {RowOf[d]} : Held(t)})

\* Mutant: the claim does not ask for a pending row.
WorkerClaimAny(d) ==
    /\ claim[d] = "queued"
    /\ status' = [status EXCEPT ![RowOf[d]] = "processing"]
    /\ TakesRow(d)
    /\ UNCHANGED <<workerOnly, paid, faults>>

\* claimForProcessing
WorkerClaim(d) ==
    /\ claim[d] = "queued"
    /\ IF status[RowOf[d]] = "pending"
       THEN status' = [status EXCEPT ![RowOf[d]] = "processing"] /\ TakesRow(d)
       ELSE claim' = [claim EXCEPT ![d] = "refused"] /\ UNCHANGED <<status, mishaps>>
    /\ UNCHANGED <<workerOnly, paid, faults>>

\* A refused run reads the row again and leaves it alone, unless it reads
\* pending: because the row is pending again, or at a lagging replica.
WorkerRereads(d) ==
    /\ claim[d] = "refused"
    /\ \/ /\ status[RowOf[d]] # "pending"
          /\ claim' = [claim EXCEPT ![d] = "over"]
          /\ UNCHANGED <<mishaps, faults>>
       \/ /\ status[RowOf[d]] = "pending"
          /\ TakesRow(d)
          /\ UNCHANGED faults
       \/ /\ status[RowOf[d]] # "pending" /\ Fault
          /\ claim' = [claim EXCEPT ![d] = "claimed"]
          /\ Mark("behind", {RowOf[d]})
    /\ UNCHANGED <<workerOnly, status, paid>>

\* sendPayout is accepted; when the answer is an error, a failover or a retry
\* may pay once more, or the run gives up.
WorkerPays(d) ==
    /\ claim[d] = "claimed"
    /\ paid' = PaidAlso({RowOf[d]})
    /\ \/ /\ claim' = [claim EXCEPT ![d] = "paid"]
          /\ UNCHANGED <<mishaps, faults>>
       \/ /\ Fault /\ Mark("unheard", {RowOf[d]})
          /\ UNCHANGED claim
    /\ UNCHANGED <<workerOnly, status>>

\* updateStatus after the payout, or in the catch block after a refusal.
WorkerEnds(d) ==
    /\ claim[d] \in {"claimed", "paid"}
    /\ LET t == RowOf[d] IN
       status' = [status EXCEPT ![t] =
                    Updated(t, IF claim[d] = "paid" THEN "completed" ELSE "failed")]
    /\ claim' = [claim EXCEPT ![d] = "over"]
    /\ UNCHANGED <<workerOnly, paid, mishaps, faults>>

\* A progress update or the Completed write throws after the payout: the catch
\* block fails the row.
WorkerThrows(d) ==
    /\ claim[d] = "paid"
    /\ Fault
    /\ status' = [status EXCEPT ![RowOf[d]] = Updated(RowOf[d], "failed")]
    /\ Mark("unrecorded", {RowOf[d]})
    /\ claim' = [claim EXCEPT ![d] = "over"]
    /\ UNCHANGED <<workerOnly, paid>>

\* The worker dies, or its catch block throws too; the row stays as it is.
WorkerDies(d) ==
    /\ claim[d] \in {"claimed", "paid"}
    /\ Fault
    /\ Mark("unrecorded", {t \in {RowOf[d]} : claim[d] = "paid"})
    /\ claim' = [claim EXCEPT ![d] = "over"]
    /\ UNCHANGED <<workerOnly, status, paid>>

----------------------------------------------------------------------------
\* The refund queue.

refundOnly == <<batch, claim, status, paid>>

\* Mutant: the scan asks for rows no refund was ever started for.
RefundableUntouched(t) == status[t] = "failed" /\ refund[t] = "none"

\* findRefundableFailedPayouts
Refundable(t) == status[t] = "failed" /\ refund[t] \notin {"processing", "completed"}

\* Mutant: a job that is run again does not look for an earlier refund.
NeedsRefundAlways(t) == status[t] = "failed"

\* The check at the head of processRefundJob.
NeedsRefund(t) == status[t] = "failed" /\ refund[t] # "completed"

\* enqueueFailedPayoutRefunds: adding a jobId the queue still knows does
\* nothing.  A lagging replica also lists rows with a marker by now.
Enqueue(t) ==
    /\ status[t] = "failed" /\ job[t].pc = "none"
    /\ IF Refundable(t) THEN UNCHANGED faults ELSE Fault
    /\ job' = [job EXCEPT ![t].pc = "waiting"]
    /\ UNCHANGED <<refundOnly, late, refund, refunded, mishaps>>

\* A refund took effect and the marker, never written or overwritten, does
\* not say so.
Forgotten(t) == refunded[t] > 0 /\ refund'[t] # "completed"

\* findById and the processing marker; a lagging replica may show the row
\* before it failed, or before its completed marker.
JobStarts(t) ==
    /\ job[t].pc = "waiting"
    /\ \E needed \in BOOLEAN :
          /\ IF needed = NeedsRefund(t) THEN UNCHANGED faults ELSE Fault
          /\ IF needed
             THEN /\ refund' = [refund EXCEPT ![t] = "processing"]
                  /\ job' = [job EXCEPT ![t].pc = "pay"]
             ELSE /\ job' = [job EXCEPT ![t].pc = "finished"]
                  /\ UNCHANGED refund
          /\ Mark("redone", {u \in {t} : needed # NeedsRefund(u) /\ Forgotten(u)})
    /\ UNCHANGED <<refundOnly, late, refunded>>

\* stellarService.sendPayment
JobPays(t) ==
    /\ job[t].pc = "pay"
    /\ refunded' = [refunded EXCEPT ![t] = Twice(@)]
    /\ job' = [job EXCEPT ![t].pc = "record"]
    /\ UNCHANGED <<refundOnly, late, refund, mishaps, faults>>

\* ledgerService.postWithdrawalRefund, updateStatus(Reversed), which no failed
\* row allows, and the completed marker.
JobRecords(t) ==
    /\ job[t].pc = "record"
    /\ refund' = [refund EXCEPT ![t] = "completed"]
    /\ job' = [job EXCEPT ![t].pc = "notify"]
    /\ UNCHANGED <<refundOnly, late, refunded, mishaps, faults>>

JobNotifies(t) ==
    /\ job[t].pc = "notify"
    /\ job' = [job EXCEPT ![t].pc = "finished"]
    /\ UNCHANGED <<refundOnly, late, refund, refunded, mishaps, faults>>

\* The failed handler replaces metadata.refund, a completed one included; its
\* write may be lost.
FailedHandler(t) ==
    \E mark \in {"failed", refund[t]} : refund' = [refund EXCEPT ![t] = mark]

\* A step of processRefundJob throws before taking effect; BullMQ retries.
JobThrows(t) ==
    /\ job[t].pc \in {"waiting", "pay", "record", "notify"}
    /\ Fault
    /\ job' = [job EXCEPT ![t].attempts = @ + 1,
                          ![t].pc = IF job[t].attempts + 1 < MaxAttempts
                                    THEN "waiting" ELSE "exhausted"]
    /\ FailedHandler(t)
    /\ Mark("redone", {u \in {t} : Forgotten(u)})
    /\ UNCHANGED <<refundOnly, late, refunded>>

\* BullMQ finds the job stalled, runs it once more, and fails it the second
\* time.  Its worker is dead, or too busy to renew the lock and lives on.
JobStalls(t) ==
    /\ job[t].pc \in {"pay", "record", "notify"}
    /\ Fault
    /\ IF job[t].stalled
       THEN /\ job' = [job EXCEPT ![t].pc = "exhausted"]
            /\ FailedHandler(t)
       ELSE /\ job' = [job EXCEPT ![t].pc = "waiting", ![t].stalled = TRUE]
            /\ UNCHANGED refund
    /\ \/ late' = late
       \/ /\ job[t].pc # "notify" /\ late[t] = "none"
          /\ late' = [late EXCEPT ![t] = job[t].pc]
    /\ mishaps' = mishaps \cup ({"redone"} \X {u \in {t} : Forgotten(u)})
                          \cup ({"doubled"} \X {u \in {t} : late'[u] # late[u]})
    /\ UNCHANGED <<refundOnly, refunded>>

\* The worker that lost the job sends its refund, and writes its marker.
LatePays(t) ==
    /\ late[t] = "pay"
    /\ refunded' = [refunded EXCEPT ![t] = Twice(@)]
    /\ late' = [late EXCEPT ![t] = "record"]
    /\ UNCHANGED <<refundOnly, job, refund, mishaps, faults>>

LateRecords(t) ==
    /\ late[t] = "record"
    /\ refund' = [refund EXCEPT ![t] = "completed"]
    /\ late' = [late EXCEPT ![t] = "none"]
    /\ UNCHANGED <<refundOnly, job, refunded, mishaps, faults>>

NoJob == [pc |-> "none", attempts |-> 0, stalled |-> FALSE]

\* removeOnComplete and removeOnFail
JobForgotten(t) ==
    /\ job[t].pc \in {"finished", "exhausted"}
    /\ job' = [job EXCEPT ![t] = NoJob]
    /\ UNCHANGED <<refundOnly, late, refund, refunded, mishaps, faults>>

----------------------------------------------------------------------------
Init ==
    /\ status = [t \in Txns |-> "pending"]
    /\ refund = [t \in Txns |-> "none"]
    /\ batch = [b \in Batches |-> [pc |-> "idle", todo |-> {}, outcome |-> "failure"]]
    /\ claim = [d \in Deliveries |-> "queued"]
    /\ job = [t \in Txns |-> NoJob]
    /\ late = [t \in Txns |-> "none"]
    /\ paid = [t \in Txns |-> 0] /\ refunded = [t \in Txns |-> 0]
    /\ mishaps = {}
    /\ faults = 0

BatchStep(b) ==
    \/ Fetch(b) \/ FloatTooLow(b) \/ Send(b) \/ BatchDies(b)
    \/ \E t \in Txns : HoldRow(b, t) \/ Record(b, t) \/ RecordThrows(b, t)

WorkerStep(d) ==
    \/ WorkerClaim(d) \/ WorkerRereads(d) \/ WorkerPays(d)
    \/ WorkerEnds(d) \/ WorkerThrows(d) \/ WorkerDies(d)

RefundStep(t) ==
    \/ Enqueue(t) \/ JobStarts(t) \/ JobPays(t) \/ JobRecords(t)
    \/ JobNotifies(t) \/ JobForgotten(t)

RefundFault(t) == JobThrows(t) \/ JobStalls(t) \/ LatePays(t) \/ LateRecords(t)

Next ==
    \/ \E b \in Batches : BatchStep(b)
    \/ \E d \in Deliveries : WorkerStep(d)
    \/ \E t \in Txns : HandlerEnds(t) \/ RefundStep(t) \/ RefundFault(t)

Spec == Init /\ [][Next]_vars

\* The scan repeats, BullMQ hands out waiting jobs, live workers run on, and
\* retention removes old jobs.  Nobody has to trigger a batch.
Fairness == \A t \in Txns : WF_vars(RefundStep(t))

FairSpec == Spec /\ Fairness

----------------------------------------------------------------------------
\* A withdrawal is paid to the customer once, however the deliveries of its job
\* and the batches interleave, unless two payers held the row at the same time
\* (the trigger claims nothing and excludes nobody), a payer that had paid did
\* not write it down, a worker's payout was accepted and answered with an
\* error, or a payer read an old pending row at a replica.
PaidOnce ==
    \A t \in Txns :
        paid[t] > 1 => Befell({"raced", "unrecorded", "unheard", "behind"}, t)

\* A customer who got the payout gets no refund too, but for these causes, a
\* batch whose answer was lost, and a handler that failed the row under its
\* payer; and a withdrawal whose refund went out is never reported completed,
\* whatever payer or handler still has an answer for it.
PaidOrRefunded ==
    \A t \in Txns : refunded[t] > 0 =>
        /\ paid[t] > 0 => Befell({"raced", "unrecorded", "unheard", "behind",
                                  "lost", "overruled"}, t)
        /\ status[t] = "failed"

\* A refund is sent once, through retries, stalled jobs and jobs forgotten by
\* retention, unless a refunded row was left without the completed marker (an
\* attempt failed before it, its handler overwrote it, or a run that read an
\* old row did), or the job was taken from a worker that lives on.
RefundedOnce ==
    \A t \in Txns : refunded[t] > 1 => Befell({"redone", "doubled"}, t)

\* Every failed withdrawal is refunded in the end, unless its last attempt left
\* the marker at "processing", which the scan passes over for ever.
FailedIsRefunded ==
    \A t \in Txns : status[t] = "failed" ~>
        \/ refunded[t] > 0
        \/ refund[t] = "processing" /\ job[t].pc \in {"exhausted", "none"}
=============================================================================
