----------------------- MODULE TransactionWorkerProofs -----------------------
(***************************************************************************)
(* Proofs about TransactionWorker, for any sets of transactions, workers   *)
(* and requests, any bounds and any set of scenarios.                      *)
(*                                                                         *)
(* The inductive invariant is made of parts that need more and more of the *)
(* environment: what holds whatever happens (RowInv), what needs that no   *)
(* client edits metadata (MoneyInv), what needs in addition first sends    *)
(* with a hash and reads from the primary (HashInv), what needs such reads *)
(* and that nobody runs retry-batch (HeldInv) and what needs that alerts   *)
(* do not throw either (ClaimInv): that a row is claimed once in its life, *)
(* and that a worker that has sent its payment finds the hash, which is    *)
(* all that keeps its payments from being made twice.                      *)
(***************************************************************************)
EXTENDS TransactionWorker, TLAPS

-----------------------------------------------------------------------------
\* The inductive invariant.

WorkerType == [pc : WorkerPcs, tx : Txns \cup {NoTx}, claimed : BOOLEAN,
               attempt : 1..MaxAttempts, snap : SUBSET MetaKeys]
RequestType == [kind : Kinds, tx : Txns \cup {NoTx}, answer : Answers]

\* TypeOK in three parts.
RowsType ==
    /\ features \in Scenarios
    /\ type \in [Txns -> {"deposit", "withdraw"}]
    /\ status \in [Txns -> Statuses \cup {"none"}]
    /\ meta \in [Txns -> SUBSET MetaKeys]
    /\ replica \in [Txns -> [status : Statuses \cup {"none"}, meta : SUBSET MetaKeys]]
    /\ intake \in [Txns -> Intakes]

QueueType ==
    /\ released \in SUBSET Txns
    /\ known \in SUBSET Txns
    /\ jobs \in [Txns -> Nat]
    /\ dups \in [Txns -> 0..MaxDuplicates]
    /\ stellar \in [Txns -> 0..2]
    /\ momo \in [Txns -> 0..2]
    /\ unsure \in SUBSET Txns
    /\ events \in [Txns -> SUBSET {"completed", "failed"}]
    /\ faults \in 0..MaxFaults

ActorsType ==
    /\ worker \in [Workers -> WorkerType]
    /\ request \in [Requests -> RequestType]

TypeInv == RowsType /\ QueueType /\ ActorsType

\* What an actor's place says about what it works on.
PlaceInv ==
    /\ \A w \in Workers : worker[w].pc # "idle" => worker[w].tx \in Txns
    /\ \A r \in Requests :
          /\ request[r].kind # "none" => request[r].tx \in Txns
          /\ request[r].kind \in {"retry", "requeue"} => "retryBatch" \in features
          /\ request[r].kind = "refund" => "refund" \in features
          /\ request[r].answer # "none" => request[r].kind = "watchdog"

\* Somebody has a job for t, or is about to make one.
InWork(t) ==
    \/ t \in known \/ jobs[t] > 0 \/ t \in released
    \/ \E w \in Workers : worker[w].pc # "idle" /\ worker[w].tx = t

\* Whoever has heard of a row, it exists.
RowInv ==
    \A t \in Txns :
        /\ intake[t] = "new" <=> status[t] = "none"
        /\ status[t] = "none" => /\ ~InWork(t) /\ replica[t].status = "none"
                                 /\ \A r \in Requests :
                                       request[r].kind # "none" => request[r].tx # t

\* The mobile-money operation was accepted wherever somebody relies on it, unless
\* clients write the metadata.
Collected(t) == momo[t] > 0
PaidPcs == {"patchMeta", "resend", "rereadMeta", "rewriteMeta", "rereadBare", "rewriteBare",
            "complete", "announce"}
MoneyFacts ==
    /\ \A t \in Txns :
          /\ "mobileMoney" \in meta[t] \/ "mobileMoney" \in replica[t].meta
                => Collected(t)
          /\ "completed" \in events[t] => Collected(t)
          /\ "refund" \notin features /\ status[t] = "completed" => Collected(t)
    /\ \A w \in Workers : worker[w].pc # "idle" =>
          /\ worker[w].pc \in PaidPcs => Collected(worker[w].tx)
          /\ "mobileMoney" \in worker[w].snap => Collected(worker[w].tx)
    /\ \A r \in Requests : request[r].answer = "completed" => Collected(request[r].tx)
MoneyInv == "metadataEdits" \notin features => MoneyFacts

\* A worker that has sent its payment finds the hash when the branch looks for it.
HashOf(p, t, snap, keys) ==
    /\ p \notin {"resend", "rereadBare", "rewriteBare"}
    /\ p \in {"branch", "provider", "patchMeta"} => "stellar" \in keys[t]
    /\ p \in {"provider", "patchMeta"} => "stellar" \in snap
HashInv ==
    features \cap {"replicaReads", "noHash", "metadataEdits"} = {} =>
        \A w \in Workers : HashOf(worker[w].pc, worker[w].tx, worker[w].snap, meta)

\* The velocity check is over for a row that is in work, and a worker that
\* passed the claim never sees the row held again.
PayPcs == {"screen", "stellar", "readMeta", "writeMeta", "branch", "provider"} \cup PaidPcs
Checked(t) == intake[t] \notin {"new", "created", "verified"}
HeldInv ==
    features \cap {"replicaReads", "retryBatch"} = {} =>
        /\ \A t \in Txns : InWork(t) \/ status[t] = "pending_review" => Checked(t)
        /\ \A w \in Workers :
              worker[w].pc \in PayPcs => status[worker[w].tx] # "pending_review"

\* A row is claimed once: it leaves "pending" for good, one worker is past the
\* claim, and what it has paid agrees with where it is.
Open(t) == status[t] \in {"none", "pending", "pending_review"}
Unpaid(t) == stellar[t] = 0 /\ momo[t] = 0
ClaimOf(t) ==
    /\ status[t] = "pending_review" => intake[t] = "held"
    /\ InWork(t) \/ intake[t] = "clear" => status[t] # "pending_review"
    /\ \A w \in Workers :
          worker[w].pc \in {"reread"} \cup PayPcs /\ worker[w].tx = t => ~Open(t)
    /\ \A v, w \in Workers :
          /\ worker[v].pc \in PayPcs /\ worker[v].tx = t
          /\ worker[w].pc \in PayPcs /\ worker[w].tx = t
          => v = w
    /\ t \notin unsure =>
          /\ stellar[t] <= 1 /\ momo[t] <= 1
          /\ Open(t) => Unpaid(t)
          /\ \A w \in Workers : worker[w].tx = t =>
                /\ worker[w].pc \in {"screen", "stellar"} => Unpaid(t)
                /\ worker[w].pc \in {"readMeta", "writeMeta", "branch", "provider"}
                      => momo[t] = 0
                /\ stellar[t] > 0 => HashOf(worker[w].pc, t, worker[w].snap, meta)

ClaimInv == Ordinary => \A t \in Txns : ClaimOf(t)

IInv == /\ TypeInv /\ PlaceInv /\ RowInv /\ MoneyInv /\ HashInv /\ HeldInv /\ ClaimInv

-----------------------------------------------------------------------------
\* What the steps do to the row's status and to the record of a worker.

\* The statuses the unconditional updateStatus calls write.
Written == {"failed", "completed", "cancelled", "review", "expired"}
Writes(t, s) ==
    /\ status'[t] \in {s, status[t]}
    /\ status[t] \in {"completed", "cancelled"} => status'[t] = status[t]
    /\ \A o \in Txns : o # t => status'[o] = status[o]

LEMMA UpdateEffect ==
    ASSUME RowsType, NEW t \in Txns, NEW s \in Written, status[t] # "none",
           updateStatus(t, s)
    PROVE  Writes(t, s)
<1>1. status[t] \in Statuses
  BY DEF RowsType
<1>2. status' = [status EXCEPT ![t] =
          IF s = status[t] \/ s \in ALLOWED_STATUS_TRANSITIONS[status[t]]
          THEN s ELSE status[t]]
  BY DEF updateStatus
<1>3. PICK p : p = (IF s = status[t] \/ s \in ALLOWED_STATUS_TRANSITIONS[status[t]]
                    THEN s ELSE status[t])
  OBVIOUS
<1>4. p \in {s, status[t]}
  BY <1>3
<1>5. status[t] \in {"completed", "cancelled"} => p = status[t]
  <2>1. CASE status[t] = "completed"
    BY <1>3, <2>1 DEF ALLOWED_STATUS_TRANSITIONS, Written
  <2>2. CASE status[t] = "cancelled"
    BY <1>3, <2>2 DEF ALLOWED_STATUS_TRANSITIONS, Written
  <2> QED BY <2>1, <2>2
<1>6. status' = [status EXCEPT ![t] = p]
  BY <1>2, <1>3
<1>7. status'[t] = p /\ \A o \in Txns : o # t => status'[o] = status[o]
  BY <1>6 DEF RowsType
<1> QED BY <1>4, <1>5, <1>7 DEF Writes

LEMMA UpdateType ==
    ASSUME RowsType, NEW t, NEW s \in Written, updateStatus(t, s)
    PROVE  status' \in [Txns -> Statuses \cup {"none"}]
  BY DEF RowsType, updateStatus, Written, Statuses

Becomes(w, pc, tx, snap) ==
    /\ worker'[w].pc = pc /\ worker'[w].tx = tx /\ worker'[w].snap = snap
    /\ \A v \in Workers : v # w => worker'[v] = worker[v]
Walks(w, pc) == Becomes(w, pc, worker[w].tx, worker[w].snap)
Rests(w) == Becomes(w, "idle", NoTx, {})

LEMMA GotoEffect ==
    ASSUME ActorsType, NEW w \in Workers, NEW pc, Goto(w, pc)
    PROVE  Walks(w, pc)
  BY DEF ActorsType, WorkerType, Goto, Walks, Becomes

LEMMA GotoType ==
    ASSUME ActorsType, NEW w \in Workers, NEW pc \in WorkerPcs, Goto(w, pc)
    PROVE  worker' \in [Workers -> WorkerType]
<1>1. 1 \in 1..MaxAttempts
  BY WorkerBoundsAssumption
<1>2. PICK walked : walked = [worker EXCEPT ![w].pc = pc]
  OBVIOUS
<1>3. walked \in [Workers -> WorkerType]
  BY <1>2 DEF ActorsType, WorkerType
<1>4. worker' = [walked EXCEPT ![w].attempt = 1]
  BY <1>2 DEF Goto, ActorsType, WorkerType
<1> QED BY <1>1, <1>3, <1>4 DEF WorkerType

LEMMA DoneEffect ==
    ASSUME ActorsType, NEW w \in Workers, Done(w)
    PROVE  Rests(w)
  BY DEF ActorsType, Done, IdleWorker, Rests, Becomes

LEMMA IdleType == IdleWorker \in WorkerType /\ IdleRequest \in RequestType
<1>1. "idle" \in WorkerPcs /\ "none" \in Kinds /\ "none" \in Answers
  BY DEF WorkerPcs, Kinds, Answers
<1> QED BY <1>1, WorkerBoundsAssumption
        DEF IdleWorker, IdleRequest, WorkerType, RequestType, MetaKeys

LEMMA DoneType ==
    ASSUME ActorsType, NEW w \in Workers, Done(w)
    PROVE  worker' \in [Workers -> WorkerType]
  BY IdleType DEF ActorsType, Done

LEMMA TryAgainEffect ==
    ASSUME ActorsType, NEW w \in Workers, worker[w].attempt < MaxAttempts,
           worker' = [worker EXCEPT ![w].attempt = @ + 1]
    PROVE  /\ Walks(w, worker[w].pc)
           /\ worker' \in [Workers -> WorkerType]
<1>1. PICK n : n = worker[w].attempt + 1
  OBVIOUS
<1>2. n \in 1..MaxAttempts
  BY <1>1, WorkerBoundsAssumption DEF ActorsType, WorkerType
<1>3. worker' = [worker EXCEPT ![w].attempt = n]
  BY <1>1
<1> QED BY <1>2, <1>3 DEF ActorsType, WorkerType, Walks, Becomes

LEMMA ThrowsEffect ==
    ASSUME ActorsType, NEW w \in Workers, StellarThrows(w)
    PROVE  /\ \/ worker[w].pc = "stellar" /\ Rests(w)
              \/ worker[w].pc # "stellar" /\ Walks(w, "fail")
           /\ worker' \in [Workers -> WorkerType]
<1>1. "fail" \in WorkerPcs
  BY DEF WorkerPcs
<1>2. CASE worker[w].pc = "stellar"
  BY <1>2, DoneEffect, DoneType DEF StellarThrows, At
<1>3. CASE worker[w].pc # "stellar"
  BY <1>1, <1>3, GotoEffect, GotoType DEF StellarThrows, At
<1> QED BY <1>2, <1>3

LEMMA SeenType ==
    ASSUME RowsType, NEW t \in Txns, NEW seen \in findById(t)
    PROVE  /\ seen.status \in Statuses \cup {"none"} /\ seen.meta \in SUBSET MetaKeys
           /\ \/ seen.status = status[t] /\ seen.meta = meta[t]
              \/ /\ "replicaReads" \in features
                 /\ seen.status = replica[t].status /\ seen.meta = replica[t].meta
<1>1. seen = Primary(t) \/ ("replicaReads" \in features /\ seen = replica[t])
  BY DEF findById
<1> QED BY <1>1 DEF Primary, RowsType

-----------------------------------------------------------------------------
\* Types.

\* The three kinds of steps.
RowStep(t) == \/ IntakeStep(t) \/ ResolveRelease(t) \/ ResolveReject(t)
              \/ RequestThrows(t) \/ DuplicateJob(t) \/ Replicate(t)
              \/ \E keys \in SUBSET MetaKeys : EditMetadata(t, keys)
RunStep(w) == \/ \E t \in Txns : TakeJob(w, t)
              \/ WorkerStep(w) \/ StellarTransient(w) \/ ProviderTransient(w)
              \/ ProviderFailsOver(w) \/ DatabaseThrows(w) \/ Crash(w)
HandlerStep(r) == \/ \E k \in Kinds, t \in Txns : ReadRow(r, k, t)
                  \/ CancelTransaction(r) \/ TimeOutTransaction(r)
                  \/ RefundTransaction(r) \/ WatchdogAsks(r)
                  \/ WatchdogResolves(r) \/ RetryBatchUpdates(r)
                  \/ RetryBatchRequeues(r)

LEMMA EditStep ==
    ASSUME RowsType, NEW t \in Txns,
           \/ updateMetadataHandler(t) \/ patchMetadataHandler(t)
           \/ deleteMetadataKeysHandler(t)
    PROVE  \E keys \in SUBSET MetaKeys : EditMetadata(t, keys)
<1>1. meta[t] \in SUBSET MetaKeys
  BY DEF RowsType
<1>2. CASE patchMetadataHandler(t)
  <2>1. PICK set \in SUBSET MetaKeys, clear \in SUBSET MetaKeys :
           EditMetadata(t, (meta[t] \ clear) \cup set)
    BY <1>2 DEF patchMetadataHandler
  <2>2. (meta[t] \ clear) \cup set \in SUBSET MetaKeys
    BY <1>1
  <2> QED BY <2>1, <2>2
<1>3. CASE deleteMetadataKeysHandler(t)
  <2>1. PICK keys \in SUBSET MetaKeys : EditMetadata(t, meta[t] \ keys)
    BY <1>3 DEF deleteMetadataKeysHandler
  <2>2. meta[t] \ keys \in SUBSET MetaKeys
    BY <1>1
  <2> QED BY <2>1, <2>2
<1> QED BY <1>2, <1>3 DEF updateMetadataHandler

LEMMA EveryStep ==
    TypeInv /\ Next => \/ \E t \in Txns : RowStep(t)
                       \/ \E w \in Workers : RunStep(w)
                       \/ \E r \in Requests : HandlerStep(r)
  BY EditStep DEF TypeInv, Next, RowStep, RunStep, HandlerStep

LEMMA RowsStep == TypeInv /\ [Next]_vars => RowsType'
<1> SUFFICES ASSUME TypeInv, [Next]_vars
             PROVE  RowsType'
  OBVIOUS
<1> USE DEF TypeInv
<1>w. {"failed", "completed", "cancelled", "review", "expired"} = Written
  BY DEF Written
<1>1. ASSUME NEW t \in Txns, RowStep(t)
      PROVE  RowsType'
  <2>1. CASE Create(t)
    BY <2>1 DEF Create, RowsType, Statuses, Intakes
  <2>2. CASE VerifySep08(t)
    <3>1. status' \in [Txns -> Statuses \cup {"none"}]
      BY <1>w, <2>2, UpdateType DEF VerifySep08, RowsType
    <3>2. intake' \in [Txns -> Intakes]
      BY <2>2 DEF VerifySep08, RowsType, Intakes
    <3> QED BY <2>2, <3>1, <3>2 DEF VerifySep08, RowsType
  <2>3. CASE VelocityHold(t)
    BY <2>3 DEF VelocityHold, RowsType, Statuses, Intakes
  <2>4. CASE VelocityClear(t) \/ Enqueue(t) \/ RequestThrows(t)
    BY <2>4 DEF VelocityClear, Enqueue, RequestThrows, RowsType, Intakes
  <2>5. CASE ResolveRelease(t) \/ ResolveReject(t)
    BY <2>5 DEF ResolveRelease, ResolveReject, RowsType, Statuses
  <2>6. CASE EnqueueReleased(t) \/ DuplicateJob(t)
    BY <2>6 DEF EnqueueReleased, DuplicateJob, RowsType
  <2>7. CASE Replicate(t)
    BY <2>7 DEF Replicate, Primary, RowsType
  <2>8. CASE \E keys \in SUBSET MetaKeys : EditMetadata(t, keys)
    BY <2>8 DEF EditMetadata, RowsType
  <2> QED BY <1>1, <2>1, <2>2, <2>3, <2>4, <2>5, <2>6, <2>7, <2>8 DEF RowStep, IntakeStep
<1>2. ASSUME NEW w \in Workers, RunStep(w)
      PROVE  RowsType'
  <2>1. CASE CheckIp(w) \/ MarkCompleted(w) \/ MarkFailed(w) \/ Screen(w)
    <3>1. status' \in [Txns -> Statuses \cup {"none"}]
      BY <1>w, <2>1, UpdateType DEF CheckIp, MarkCompleted, MarkFailed, Screen, RowsType
    <3> QED BY <2>1, <3>1 DEF CheckIp, MarkCompleted, MarkFailed, Screen, RowsType
  <2>2. CASE claimForProcessing(w)
    BY <2>2 DEF claimForProcessing, RowsType, Statuses
  <2>3. CASE UpdateMetadata(w)
    <3>1. PICK keys : keys = (IF worker[w].pc = "rewriteBare" THEN worker[w].snap \ {"stellar"}
                              ELSE worker[w].snap \cup {"stellar"})
      OBVIOUS
    <3>2. keys \in SUBSET MetaKeys
      BY <3>1 DEF ActorsType, WorkerType, MetaKeys
    <3>3. meta' = [meta EXCEPT ![worker[w].tx] = keys]
      BY <2>3, <3>1 DEF UpdateMetadata, At
    <3> QED BY <2>3, <3>2, <3>3 DEF UpdateMetadata, RowsType
  <2>4. CASE PatchMetadata(w)
    BY <2>4 DEF PatchMetadata, RowsType, MetaKeys
  <2>5. CASE \/ \E t \in Txns : TakeJob(w, t)
             \/ RereadAfterFailedClaim(w) \/ SendStellar(w) \/ SendWithoutHash(w) \/ StellarRejected(w)
             \/ ReadMetadata(w) \/ Branch(w) \/ CallProvider(w) \/ ProviderRejected(w)
    BY <2>5 DEF TakeJob, RereadAfterFailedClaim, SendStellar, SendWithoutHash, StellarRejected,
                ReadMetadata, Branch, CallProvider, ProviderRejected, RowsType
  <2>6. CASE \/ AnnounceCompleted(w) \/ AnnounceFailed(w) \/ StellarTransient(w)
             \/ ProviderTransient(w) \/ ProviderFailsOver(w) \/ DatabaseThrows(w) \/ Crash(w)
    BY <2>6 DEF AnnounceCompleted, AnnounceFailed, StellarTransient, ProviderTransient,
                ProviderFailsOver, DatabaseThrows, Crash, RowsType
  <2> QED BY <1>2, <2>1, <2>2, <2>3, <2>4, <2>5, <2>6 DEF RunStep, WorkerStep
<1>3. ASSUME NEW r \in Requests, HandlerStep(r)
      PROVE  RowsType'
  <2>1. CASE CancelTransaction(r) \/ TimeOutTransaction(r) \/ RefundTransaction(r)
    <3>1. status' \in [Txns -> Statuses \cup {"none"}]
      BY <1>w, <2>1, UpdateType
         DEF CancelTransaction, TimeOutTransaction, RefundTransaction
    <3> QED BY <2>1, <3>1
            DEF CancelTransaction, TimeOutTransaction, RefundTransaction, RowsType
  <2>2. CASE WatchdogResolves(r)
    <3>1. request[r].answer \in Written
      BY <2>2 DEF WatchdogResolves, ActorsType, RequestType, Answers, Written
    <3>2. status' \in [Txns -> Statuses \cup {"none"}]
      BY <2>2, <3>1, UpdateType DEF WatchdogResolves
    <3> QED BY <2>2, <3>2 DEF WatchdogResolves, RowsType
  <2>3. CASE RetryBatchUpdates(r) \/ RetryBatchRequeues(r)
    BY <2>3 DEF RetryBatchUpdates, RetryBatchRequeues, RowsType, Statuses
  <2>4. CASE WatchdogAsks(r) \/ \E k \in Kinds, t \in Txns : ReadRow(r, k, t)
    BY <2>4 DEF WatchdogAsks, ReadRow, RowsType
  <2> QED BY <1>3, <2>1, <2>2, <2>3, <2>4 DEF HandlerStep
<1>4. CASE UNCHANGED vars
  BY <1>4 DEF vars, RowsType
<1> QED BY <1>1, <1>2, <1>3, <1>4, EveryStep

LEMMA AddJobType ==
    ASSUME QueueType, NEW t \in Txns, AddJob(t)
    PROVE  known' \in SUBSET Txns /\ jobs' \in [Txns -> Nat]
  BY DEF QueueType, AddJob

LEMMA CountType ==
    ASSUME NEW f \in [Txns -> 0..2], NEW t
    PROVE  Count(f, t) \in [Txns -> 0..2]
<1>1. PICK n : n = (IF f[t] = 2 THEN 2 ELSE f[t] + 1)
  OBVIOUS
<1>2. t \in Txns => n \in 0..2
  BY <1>1
<1>3. Count(f, t) = [f EXCEPT ![t] = n]
  BY <1>1 DEF Count
<1> QED BY <1>2, <1>3

LEMMA BudgetType == FaultBudget \in Nat /\ FaultBudget <= MaxFaults
  BY WorkerBoundsAssumption DEF FaultBudget

LEMMA QueueStep == TypeInv /\ PlaceInv /\ [Next]_vars => QueueType'
<1> SUFFICES ASSUME TypeInv, PlaceInv, [Next]_vars
             PROVE  QueueType'
  OBVIOUS
<1> USE DEF TypeInv
<1>f. faults < FaultBudget => faults + 1 \in 0..MaxFaults
  BY BudgetType, WorkerBoundsAssumption DEF QueueType
<1>1. ASSUME NEW t \in Txns, RowStep(t)
      PROVE  QueueType'
  <2>1. CASE \/ Create(t) \/ VelocityClear(t) \/ ResolveReject(t) \/ Replicate(t)
             \/ \E keys \in SUBSET MetaKeys : EditMetadata(t, keys)
    BY <2>1 DEF Create, VelocityClear, ResolveReject, Replicate, EditMetadata, QueueType
  <2>2. CASE VerifySep08(t) \/ VelocityHold(t) \/ RequestThrows(t)
    BY <1>f, <2>2 DEF VerifySep08, VelocityHold, RequestThrows, QueueType
  <2>3. CASE ResolveRelease(t)
    BY <2>3 DEF ResolveRelease, QueueType
  <2>4. CASE Enqueue(t) \/ EnqueueReleased(t)
    <3>1. known' \in SUBSET Txns /\ jobs' \in [Txns -> Nat]
      BY <2>4, AddJobType DEF Enqueue, EnqueueReleased, QueueType
    <3>2. released' \in SUBSET Txns
      BY <2>4 DEF Enqueue, EnqueueReleased, QueueType
    <3> QED BY <2>4, <3>1, <3>2 DEF Enqueue, EnqueueReleased, QueueType
  <2>5. CASE DuplicateJob(t)
    <3>1. PICK n, m : n = jobs[t] + 1 /\ m = dups[t] + 1
      OBVIOUS
    <3>2. n \in Nat /\ m \in 0..MaxDuplicates
      BY <2>5, <3>1, WorkerBoundsAssumption DEF DuplicateJob, QueueType
    <3> QED BY <2>5, <3>1, <3>2 DEF DuplicateJob, QueueType
  <2> QED BY <1>1, <2>1, <2>2, <2>3, <2>4, <2>5 DEF RowStep, IntakeStep
<1>2. ASSUME NEW w \in Workers, RunStep(w)
      PROVE  QueueType'
  <2>1. CASE \E t \in Txns : TakeJob(w, t)
    <3>1. PICK t \in Txns : TakeJob(w, t)
      BY <2>1
    <3>2. PICK n : n = jobs[t] - 1
      OBVIOUS
    <3>3. n \in Nat
      BY <3>1, <3>2 DEF TakeJob, QueueType
    <3> QED BY <3>1, <3>2, <3>3 DEF TakeJob, QueueType
  <2>2. CASE SendStellar(w) \/ CallProvider(w)
    <3>1. stellar' \in [Txns -> 0..2] /\ momo' \in [Txns -> 0..2]
      BY <2>2, CountType DEF SendStellar, CallProvider, QueueType
    <3> QED BY <2>2, <3>1 DEF SendStellar, CallProvider, QueueType
  <2>3. CASE \/ StellarTransient(w) \/ SendWithoutHash(w) \/ ProviderTransient(w)
             \/ ProviderFailsOver(w)
    <3> USE DEF StellarTransient, SendWithoutHash, ProviderTransient, ProviderFailsOver
    <3>1. stellar' \in [Txns -> 0..2] /\ momo' \in [Txns -> 0..2]
      BY <2>3, CountType DEF QueueType
    <3>2. worker[w].tx \in Txns
      BY <2>3 DEF At, PlaceInv
    <3>3. unsure' \in SUBSET Txns
      BY <2>3, <3>2 DEF QueueType
    <3> QED BY <1>f, <2>3, <3>1, <3>3 DEF QueueType
  <2>4. CASE AnnounceCompleted(w) \/ AnnounceFailed(w)
    <3>0. PICK sent \in SUBSET {"completed", "failed"} :
             events' = [events EXCEPT ![worker[w].tx] = @ \cup sent]
      BY <2>4 DEF AnnounceCompleted, AnnounceFailed
    <3>1. events' \in [Txns -> SUBSET {"completed", "failed"}]
      BY <3>0 DEF QueueType
    <3> QED BY <1>f, <2>4, <3>1 DEF AnnounceCompleted, AnnounceFailed, QueueType
  <2>5. CASE DatabaseThrows(w) \/ PatchMetadata(w)
    BY <1>f, <2>5 DEF DatabaseThrows, PatchMetadata, QueueType
  <2>6. CASE Crash(w)
    <3>0. worker[w].tx \in Txns
      BY <2>6 DEF Crash, At, PlaceInv
    <3>1. jobs' \in [Txns -> Nat]
      BY <2>6, <3>0 DEF Crash, QueueType
    <3> QED BY <1>f, <2>6, <3>1 DEF Crash, QueueType
  <2>7. CASE CheckIp(w) \/ MarkCompleted(w) \/ MarkFailed(w) \/ Screen(w)
             \/ claimForProcessing(w) \/ UpdateMetadata(w) \/ RereadAfterFailedClaim(w)
    BY <2>7 DEF CheckIp, MarkCompleted, MarkFailed, Screen, claimForProcessing,
                UpdateMetadata, RereadAfterFailedClaim, QueueType
  <2>8. CASE StellarRejected(w) \/ ReadMetadata(w) \/ Branch(w) \/ ProviderRejected(w)
    BY <2>8 DEF StellarRejected, ReadMetadata, Branch, ProviderRejected, QueueType
  <2> QED BY <1>2, <2>1, <2>2, <2>3, <2>4, <2>5, <2>6, <2>7, <2>8
          DEF RunStep, WorkerStep
<1>3. ASSUME NEW r \in Requests, HandlerStep(r)
      PROVE  QueueType'
  <2>1. CASE CancelTransaction(r) \/ TimeOutTransaction(r) \/ RefundTransaction(r)
    BY <2>1 DEF CancelTransaction, TimeOutTransaction, RefundTransaction, QueueType
  <2>2. CASE \/ WatchdogResolves(r) \/ WatchdogAsks(r)
             \/ \E k \in Kinds, t \in Txns : ReadRow(r, k, t)
    BY <2>2 DEF WatchdogResolves, WatchdogAsks, ReadRow, QueueType
  <2>4. CASE RetryBatchUpdates(r)
    BY <2>4 DEF RetryBatchUpdates, QueueType
  <2>3. CASE RetryBatchRequeues(r)
    <3>1. request[r].tx \in Txns
      BY <2>3 DEF RetryBatchRequeues, PlaceInv
    <3>2. known' \in SUBSET Txns /\ jobs' \in [Txns -> Nat]
      BY <2>3, <3>1, AddJobType DEF RetryBatchRequeues
    <3> QED BY <2>3, <3>2 DEF RetryBatchRequeues, QueueType
  <2> QED BY <1>3, <2>1, <2>2, <2>3, <2>4 DEF HandlerStep
<1>4. CASE UNCHANGED vars
  BY <1>4 DEF vars, QueueType
<1> QED BY <1>1, <1>2, <1>3, <1>4, EveryStep

LEMMA ReadsEffect ==
    ASSUME ActorsType, NEW w \in Workers, NEW p \in WorkerPcs, NEW s \in SUBSET MetaKeys,
           worker' = [worker EXCEPT ![w].pc = p, ![w].snap = s]
    PROVE  /\ Becomes(w, p, worker[w].tx, s)
           /\ worker' \in [Workers -> WorkerType]
<1>1. Becomes(w, p, worker[w].tx, s)
  BY DEF ActorsType, WorkerType, Becomes
<1>2. PICK walked : walked = [worker EXCEPT ![w].pc = p]
  OBVIOUS
<1>3. walked \in [Workers -> WorkerType]
  BY <1>2 DEF ActorsType, WorkerType
<1>4. worker' = [walked EXCEPT ![w].snap = s]
  BY <1>2 DEF ActorsType, WorkerType
<1>5. worker' \in [Workers -> WorkerType]
  BY <1>3, <1>4 DEF WorkerType
<1> QED BY <1>1, <1>5

LEMMA PcsType ==
    {"ip", "claim", "announceFail", "reread", "screen", "stellar", "readMeta", "rereadMeta",
     "writeMeta", "rewriteMeta", "branch", "provider", "patchMeta", "complete", "resend",
     "announce", "fail", "idle", "rereadBare", "rewriteBare"} \subseteq WorkerPcs
  BY DEF WorkerPcs

LEMMA ClaimEffect ==
    ASSUME ActorsType, NEW w \in Workers, claimForProcessing(w)
    PROVE  /\ \/ /\ status[worker[w].tx] = "pending"
                 /\ status' = [status EXCEPT ![worker[w].tx] = "processing"]
                 /\ Walks(w, "screen")
              \/ /\ status[worker[w].tx] # "pending" /\ status' = status
                 /\ Walks(w, "reread")
           /\ worker' \in [Workers -> WorkerType]
<1>1. CASE status[worker[w].tx] = "pending"
  <2>1. worker' = [worker EXCEPT ![w].pc = "screen", ![w].claimed = TRUE]
    BY <1>1 DEF claimForProcessing
  <2>2. Walks(w, "screen")
    BY <2>1 DEF ActorsType, WorkerType, Walks, Becomes
  <2>3. PICK walked : walked = [worker EXCEPT ![w].pc = "screen"]
    OBVIOUS
  <2>4. walked \in [Workers -> WorkerType]
    BY <2>3, PcsType DEF ActorsType, WorkerType
  <2>5. worker' = [walked EXCEPT ![w].claimed = TRUE]
    BY <2>1, <2>3 DEF ActorsType, WorkerType
  <2>6. worker' \in [Workers -> WorkerType]
    BY <2>4, <2>5 DEF WorkerType
  <2> QED BY <1>1, <2>2, <2>6 DEF claimForProcessing
<1>2. CASE status[worker[w].tx] # "pending"
  BY <1>2, GotoEffect, GotoType, PcsType DEF claimForProcessing
<1> QED BY <1>1, <1>2

\* What the deposit branch does next when it has seen the keys s.
AfterBranch(t, s) ==
    IF type[t] = "deposit" /\ "mobileMoney" \in s THEN AfterProvider(t, s) ELSE "provider"

LEMMA BranchEffect ==
    ASSUME RowsType, ActorsType, NEW w \in Workers, worker[w].tx \in Txns, Branch(w)
    PROVE  /\ \E seen \in findById(worker[w].tx) :
                 Becomes(w, AfterBranch(worker[w].tx, seen.meta), worker[w].tx, seen.meta)
           /\ worker' \in [Workers -> WorkerType]
<1>1. PICK seen \in findById(worker[w].tx) :
         worker' = [worker EXCEPT ![w].pc = AfterBranch(worker[w].tx, seen.meta),
                                  ![w].snap = seen.meta]
  BY DEF Branch, AfterBranch
<1>2. seen.meta \in SUBSET MetaKeys
  BY SeenType
<1>3. AfterBranch(worker[w].tx, seen.meta) \in WorkerPcs
  BY PcsType DEF AfterBranch, AfterProvider
<1> QED BY <1>1, <1>2, <1>3, ReadsEffect

LEMMA ReadMetadataEffect ==
    ASSUME RowsType, ActorsType, NEW w \in Workers, worker[w].tx \in Txns, ReadMetadata(w)
    PROVE  /\ \E seen \in findById(worker[w].tx) :
                 Becomes(w, WriteBack(worker[w].pc), worker[w].tx, seen.meta)
           /\ worker' \in [Workers -> WorkerType]
<1> DEFINE p == WriteBack(worker[w].pc)
<1>1. PICK seen \in findById(worker[w].tx) :
         worker' = [worker EXCEPT ![w].pc = p, ![w].snap = seen.meta]
  BY DEF ReadMetadata
<1>2. seen.meta \in SUBSET MetaKeys
  BY SeenType
<1>3. p \in WorkerPcs
  BY PcsType DEF WriteBack
<1> HIDE DEF p
<1>4. Becomes(w, p, worker[w].tx, seen.meta) /\ worker' \in [Workers -> WorkerType]
  BY <1>1, <1>2, <1>3, ReadsEffect
<1> QED BY <1>4 DEF p

\* Where the steps of a run come from and where they lead.
RunEffects(w) ==
    /\ CheckIp(w) => /\ worker[w].pc = "ip"
                     /\ \/ Walks(w, "claim") /\ status' = status
                        \/ Walks(w, "announceFail") /\ updateStatus(worker[w].tx, "failed")
    /\ RereadAfterFailedClaim(w) =>
          /\ worker[w].pc = "reread"
          /\ \E seen \in findById(worker[w].tx) :
                \/ Rests(w)
                \/ seen.status \in {"none", "pending"} /\ Walks(w, "screen")
    /\ Screen(w) => /\ worker[w].pc = "screen"
                    /\ \/ Walks(w, "stellar") /\ status' = status
                       \/ Rests(w) /\ updateStatus(worker[w].tx, "review")
    /\ SendStellar(w) => \/ worker[w].pc = "stellar" /\ Walks(w, "readMeta")
                         \/ worker[w].pc = "resend" /\ Walks(w, "rereadMeta")
    /\ SendWithoutHash(w) => \/ worker[w].pc = "stellar" /\ Walks(w, "branch")
                             \/ worker[w].pc = "resend" /\ Walks(w, "rereadBare")
    /\ StellarRejected(w) => \/ worker[w].pc = "stellar" /\ Rests(w)
                             \/ worker[w].pc = "resend" /\ Walks(w, "fail")
    /\ StellarTransient(w) => /\ worker[w].pc \in {"stellar", "resend"}
                              /\ \/ Walks(w, worker[w].pc) \/ Rests(w) \/ Walks(w, "fail")
    /\ UpdateMetadata(w) => \/ worker[w].pc = "writeMeta" /\ Walks(w, "branch")
                            \/ /\ worker[w].pc \in {"rewriteMeta", "rewriteBare"}
                               /\ Walks(w, "complete")
    /\ CallProvider(w) => /\ worker[w].pc = "provider"
                          /\ Walks(w, "patchMeta") \/ Walks(w, "complete")
    /\ ProviderTransient(w) => /\ worker[w].pc = "provider"
                               /\ Walks(w, "provider") \/ Walks(w, "fail")
    /\ ProviderFailsOver(w) => worker[w].pc = "provider" /\ Walks(w, "provider")
    /\ ProviderRejected(w) => worker[w].pc = "provider" /\ Walks(w, "fail")
    /\ PatchMetadata(w) => /\ worker[w].pc = "patchMeta"
                           /\ Walks(w, AfterProvider(worker[w].tx, worker[w].snap))
    /\ MarkCompleted(w) => worker[w].pc = "complete" /\ Walks(w, "announce")
    /\ AnnounceCompleted(w) => worker[w].pc = "announce" /\ (Rests(w) \/ Walks(w, "fail"))
    /\ MarkFailed(w) => worker[w].pc = "fail" /\ Walks(w, "announceFail")
    /\ AnnounceFailed(w) => worker[w].pc = "announceFail" /\ Rests(w)
    /\ DatabaseThrows(w) => worker[w].pc # "idle" /\ (Rests(w) \/ Walks(w, "fail"))
    /\ Crash(w) => worker[w].pc # "idle" /\ Rests(w)

LEMMA RunEffect ==
    ASSUME ActorsType, NEW w \in Workers
    PROVE  RunEffects(w)
<1>1. /\ CheckIp(w) => /\ worker[w].pc = "ip"
                       /\ \/ Walks(w, "claim") /\ status' = status
                          \/ Walks(w, "announceFail") /\ updateStatus(worker[w].tx, "failed")
      /\ RereadAfterFailedClaim(w) =>
            /\ worker[w].pc = "reread"
            /\ \E seen \in findById(worker[w].tx) :
                  \/ Rests(w)
                  \/ seen.status \in {"none", "pending"} /\ Walks(w, "screen")
      /\ Screen(w) => /\ worker[w].pc = "screen"
                      /\ \/ Walks(w, "stellar") /\ status' = status
                         \/ Rests(w) /\ updateStatus(worker[w].tx, "review")
  BY GotoEffect, DoneEffect DEF CheckIp, RereadAfterFailedClaim, Screen, At
<1>2. /\ SendStellar(w) => \/ worker[w].pc = "stellar" /\ Walks(w, "readMeta")
                           \/ worker[w].pc = "resend" /\ Walks(w, "rereadMeta")
      /\ SendWithoutHash(w) => \/ worker[w].pc = "stellar" /\ Walks(w, "branch")
                               \/ worker[w].pc = "resend" /\ Walks(w, "rereadBare")
  BY GotoEffect DEF SendStellar, SendWithoutHash, At
<1>3. StellarRejected(w) => \/ worker[w].pc = "stellar" /\ Rests(w)
                            \/ worker[w].pc = "resend" /\ Walks(w, "fail")
  BY ThrowsEffect DEF StellarRejected
<1>4. StellarTransient(w) => /\ worker[w].pc \in {"stellar", "resend"}
                             /\ \/ Walks(w, worker[w].pc) \/ Rests(w) \/ Walks(w, "fail")
  BY ThrowsEffect, TryAgainEffect DEF StellarTransient
<1>5. UpdateMetadata(w) => \/ worker[w].pc = "writeMeta" /\ Walks(w, "branch")
                           \/ /\ worker[w].pc \in {"rewriteMeta", "rewriteBare"}
                              /\ Walks(w, "complete")
  BY GotoEffect DEF UpdateMetadata, At
<1>6. /\ CallProvider(w) => /\ worker[w].pc = "provider"
                            /\ Walks(w, "patchMeta") \/ Walks(w, "complete")
      /\ ProviderRejected(w) => worker[w].pc = "provider" /\ Walks(w, "fail")
      /\ PatchMetadata(w) => /\ worker[w].pc = "patchMeta"
                             /\ Walks(w, AfterProvider(worker[w].tx, worker[w].snap))
  BY GotoEffect DEF CallProvider, ProviderRejected, PatchMetadata, At
<1>7. /\ ProviderTransient(w) => /\ worker[w].pc = "provider"
                                 /\ Walks(w, "provider") \/ Walks(w, "fail")
      /\ ProviderFailsOver(w) => worker[w].pc = "provider" /\ Walks(w, "provider")
  BY GotoEffect, TryAgainEffect DEF ProviderTransient, ProviderFailsOver, At, Walks, Becomes
<1>8. /\ MarkCompleted(w) => worker[w].pc = "complete" /\ Walks(w, "announce")
      /\ AnnounceCompleted(w) => worker[w].pc = "announce" /\ (Rests(w) \/ Walks(w, "fail"))
      /\ MarkFailed(w) => worker[w].pc = "fail" /\ Walks(w, "announceFail")
      /\ AnnounceFailed(w) => worker[w].pc = "announceFail" /\ Rests(w)
      /\ DatabaseThrows(w) => worker[w].pc # "idle" /\ (Rests(w) \/ Walks(w, "fail"))
      /\ Crash(w) => worker[w].pc # "idle" /\ Rests(w)
  BY GotoEffect, DoneEffect
     DEF MarkCompleted, AnnounceCompleted, MarkFailed, AnnounceFailed, DatabaseThrows,
         Crash, At
<1> QED BY <1>1, <1>2, <1>3, <1>4, <1>5, <1>6, <1>7, <1>8 DEF RunEffects

LEMMA TakeEffect ==
    ASSUME ActorsType, NEW w \in Workers, NEW t \in Txns, TakeJob(w, t)
    PROVE  /\ worker[w].pc = "idle" /\ jobs[t] > 0 /\ Becomes(w, "ip", t, {})
           /\ worker' \in [Workers -> WorkerType]
<1>1. PICK taken : taken = [IdleWorker EXCEPT !.pc = "ip", !.tx = t]
  OBVIOUS
<1>2. taken.pc = "ip" /\ taken.tx = t /\ taken.snap = {}
  BY <1>1 DEF IdleWorker
<1>3. taken \in WorkerType
  <2>1. taken = [pc |-> "ip", tx |-> t, claimed |-> FALSE, attempt |-> 1, snap |-> {}]
    BY <1>1 DEF IdleWorker
  <2> QED BY <2>1, PcsType, WorkerBoundsAssumption DEF WorkerType
<1>4. worker' = [worker EXCEPT ![w] = taken]
  BY <1>1 DEF TakeJob
<1> QED BY <1>2, <1>3, <1>4 DEF TakeJob, At, ActorsType, Becomes

Handles(r, kind, tx, answer) ==
    /\ request'[r].kind = kind /\ request'[r].tx = tx /\ request'[r].answer = answer
    /\ \A o \in Requests : o # r => request'[o] = request[o]
Answered(r) == Handles(r, "none", NoTx, "none")

LEMMA AnsweredEffect ==
    ASSUME ActorsType, NEW r \in Requests, request' = [request EXCEPT ![r] = IdleRequest]
    PROVE  Answered(r) /\ request' \in [Requests -> RequestType]
  BY IdleType DEF ActorsType, IdleRequest, Answered, Handles

LEMMA ReadRowEffect ==
    ASSUME ActorsType, NEW r \in Requests, NEW k \in Kinds, NEW t \in Txns, ReadRow(r, k, t)
    PROVE  /\ request[r].kind = "none" /\ Selects(k, t) /\ Handles(r, k, t, "none")
           /\ request' \in [Requests -> RequestType]
<1>1. PICK read : read = [IdleRequest EXCEPT !.kind = k, !.tx = t]
  OBVIOUS
<1>2. read = [kind |-> k, tx |-> t, answer |-> "none"]
  BY <1>1 DEF IdleRequest
<1>3. "none" \in Answers
  BY DEF Answers
<1>4. read \in RequestType
  BY <1>2, <1>3 DEF RequestType
<1>5. request' = [request EXCEPT ![r] = read]
  BY <1>1 DEF ReadRow
<1>6. request' \in [Requests -> RequestType] /\ request'[r] = read
  BY <1>4, <1>5 DEF ActorsType
<1>7. \A o \in Requests : o # r => request'[o] = request[o]
  BY <1>5 DEF ActorsType
<1>8. Handles(r, k, t, "none")
  BY <1>2, <1>6, <1>7 DEF Handles
<1> QED BY <1>6, <1>8 DEF ReadRow

LEMMA AsksEffect ==
    ASSUME ActorsType, NEW r \in Requests, WatchdogAsks(r)
    PROVE  /\ request[r].kind = "watchdog"
           /\ \/ Answered(r)
              \/ \E a \in ProviderAnswers(request[r].tx) :
                    Handles(r, "watchdog", request[r].tx, a)
           /\ request' \in [Requests -> RequestType]
<1>1. CASE request' = [request EXCEPT ![r] = IdleRequest]
  BY <1>1, AnsweredEffect DEF WatchdogAsks
<1>2. ASSUME NEW a \in ProviderAnswers(request[r].tx),
             request' = [request EXCEPT ![r].answer = a]
      PROVE  /\ Handles(r, "watchdog", request[r].tx, a)
             /\ request' \in [Requests -> RequestType]
  <2>1. a \in Answers
    BY DEF ProviderAnswers, Answers
  <2> QED BY <1>2, <2>1 DEF WatchdogAsks, ActorsType, RequestType, Handles
<1> QED BY <1>1, <1>2 DEF WatchdogAsks

LEMMA UpdatesEffect ==
    ASSUME ActorsType, NEW r \in Requests, RetryBatchUpdates(r)
    PROVE  /\ request[r].kind = "retry"
           /\ Handles(r, "requeue", request[r].tx, request[r].answer)
           /\ request' \in [Requests -> RequestType]
<1>1. "requeue" \in Kinds
  BY DEF Kinds
<1> QED BY <1>1 DEF RetryBatchUpdates, ActorsType, RequestType, Handles

LEMMA ActorsStep == TypeInv /\ PlaceInv /\ [Next]_vars => ActorsType'
<1> SUFFICES ASSUME TypeInv, PlaceInv, [Next]_vars
             PROVE  ActorsType'
  OBVIOUS
<1> USE DEF TypeInv
<1>1. ASSUME NEW t \in Txns, RowStep(t)
      PROVE  UNCHANGED <<worker, request>>
  BY <1>1 DEF RowStep, IntakeStep, Create, VerifySep08, VelocityHold, VelocityClear,
              Enqueue, EnqueueReleased, ResolveRelease, ResolveReject, RequestThrows,
              DuplicateJob, Replicate, EditMetadata
<1>2. ASSUME NEW w \in Workers, RunStep(w)
      PROVE  worker' \in [Workers -> WorkerType] /\ request' = request
  <2> USE PcsType
  <2>0. request' = request
    BY <1>2 DEF RunStep, WorkerStep, TakeJob, CheckIp, claimForProcessing,
                RereadAfterFailedClaim, Screen, SendStellar, SendWithoutHash,
                StellarRejected, ReadMetadata, UpdateMetadata, Branch, CallProvider,
                ProviderRejected, PatchMetadata, MarkCompleted, AnnounceCompleted,
                MarkFailed, AnnounceFailed, StellarTransient, ProviderTransient,
                ProviderFailsOver, DatabaseThrows, Crash
  <2>1. CASE \E t \in Txns : TakeJob(w, t)
    BY <2>0, <2>1, TakeEffect
  <2>2. CASE CheckIp(w) \/ RereadAfterFailedClaim(w) \/ Screen(w)
    BY <2>2, GotoType, DoneType DEF CheckIp, RereadAfterFailedClaim, Screen
  <2>3. CASE claimForProcessing(w)
    BY <2>0, <2>3, ClaimEffect
  <2>4. CASE SendStellar(w) \/ SendWithoutHash(w) \/ UpdateMetadata(w) \/ CallProvider(w)
    BY <2>4, GotoType DEF SendStellar, SendWithoutHash, UpdateMetadata, CallProvider
  <2>5. CASE StellarRejected(w) \/ StellarTransient(w)
    BY <2>5, ThrowsEffect, TryAgainEffect DEF StellarRejected, StellarTransient
  <2>6. CASE ReadMetadata(w) \/ Branch(w)
    <3>1. worker[w].tx \in Txns
      BY <2>6 DEF ReadMetadata, Branch, At, PlaceInv
    <3> QED BY <2>0, <2>6, <3>1, ReadMetadataEffect, BranchEffect
  <2>7. CASE ProviderTransient(w) \/ ProviderFailsOver(w) \/ ProviderRejected(w)
    BY <2>7, GotoType, TryAgainEffect
       DEF ProviderTransient, ProviderFailsOver, ProviderRejected, ActorsType
  <2>8. CASE PatchMetadata(w)
    <3>1. AfterProvider(worker[w].tx, worker[w].snap) \in WorkerPcs
      BY DEF AfterProvider
    <3> QED BY <2>8, <3>1, GotoType DEF PatchMetadata
  <2>9. CASE \/ MarkCompleted(w) \/ AnnounceCompleted(w) \/ MarkFailed(w)
             \/ AnnounceFailed(w) \/ DatabaseThrows(w) \/ Crash(w)
    BY <2>9, GotoType, DoneType
       DEF MarkCompleted, AnnounceCompleted, MarkFailed, AnnounceFailed, DatabaseThrows,
           Crash
  <2> QED BY <1>2, <2>0, <2>1, <2>2, <2>3, <2>4, <2>5, <2>6, <2>7, <2>8, <2>9
          DEF RunStep, WorkerStep
<1>3. ASSUME NEW r \in Requests, HandlerStep(r)
      PROVE  request' \in [Requests -> RequestType] /\ worker' = worker
  <2>1. CASE \/ CancelTransaction(r) \/ TimeOutTransaction(r) \/ RefundTransaction(r)
             \/ WatchdogResolves(r) \/ RetryBatchRequeues(r)
    BY <2>1, AnsweredEffect
       DEF CancelTransaction, TimeOutTransaction, RefundTransaction, WatchdogResolves,
           RetryBatchRequeues
  <2>2. CASE WatchdogAsks(r)
    BY <2>2, AsksEffect DEF WatchdogAsks
  <2>3. CASE \E k \in Kinds, t \in Txns : ReadRow(r, k, t)
    BY <2>3, ReadRowEffect DEF ReadRow
  <2>4. CASE RetryBatchUpdates(r)
    BY <2>4, UpdatesEffect DEF RetryBatchUpdates
  <2> QED BY <1>3, <2>1, <2>2, <2>3, <2>4 DEF HandlerStep
<1>4. CASE UNCHANGED vars
  BY <1>4 DEF vars, ActorsType
<1> QED BY <1>1, <1>2, <1>3, <1>4, EveryStep DEF ActorsType

-----------------------------------------------------------------------------
\* The frames: what the steps of each kind leave alone.

RowFrame == UNCHANGED <<features, worker, request, stellar, momo, unsure, events>>
RunFrame == UNCHANGED <<features, type, replica, intake, released, known, dups, request>>
HandlerFrame == UNCHANGED <<features, type, replica, meta, intake, released, dups, worker,
                            stellar, momo, unsure, events, faults>>

LEMMA Frames ==
    /\ \A t : RowStep(t) => RowFrame
    /\ \A w : RunStep(w) => RunFrame
    /\ \A r : HandlerStep(r) => HandlerFrame
<1>1. ASSUME NEW t, RowStep(t)
      PROVE  RowFrame
  BY <1>1 DEF RowStep, RowFrame, IntakeStep, Create, VerifySep08, VelocityHold,
              VelocityClear, Enqueue, EnqueueReleased, ResolveRelease, ResolveReject,
              RequestThrows, DuplicateJob, Replicate, EditMetadata
<1>2. ASSUME NEW w, RunStep(w)
      PROVE  RunFrame
  BY <1>2 DEF RunStep, RunFrame, WorkerStep, TakeJob, CheckIp, claimForProcessing,
              RereadAfterFailedClaim, Screen, SendStellar, SendWithoutHash, StellarRejected,
              ReadMetadata, UpdateMetadata, Branch, CallProvider, ProviderRejected,
              PatchMetadata, MarkCompleted, AnnounceCompleted, MarkFailed, AnnounceFailed,
              StellarTransient, ProviderTransient, ProviderFailsOver, DatabaseThrows, Crash
<1>3. ASSUME NEW r, HandlerStep(r)
      PROVE  HandlerFrame
  BY <1>3 DEF HandlerStep, HandlerFrame, ReadRow, CancelTransaction, TimeOutTransaction,
              RefundTransaction, WatchdogAsks, WatchdogResolves, RetryBatchUpdates,
              RetryBatchRequeues
<1> QED BY <1>1, <1>2, <1>3

\* A run's step changes one worker, which stays with its transaction, rests, or
\* takes a waiting job.
RunMoves(w) ==
    \/ worker[w].pc # "idle" /\ Rests(w)
    \/ worker[w].pc # "idle" /\ \E pc \in WorkerPcs \ {"idle"}, snap \in SUBSET MetaKeys :
                                   Becomes(w, pc, worker[w].tx, snap)
    \/ \E t \in Txns : worker[w].pc = "idle" /\ jobs[t] > 0 /\ Becomes(w, "ip", t, {})

LEMMA RunMove ==
    ASSUME TypeInv, PlaceInv, NEW w \in Workers, RunStep(w)
    PROVE  RunMoves(w)
<1> USE PcsType
<1>e. RunEffects(w)
  BY RunEffect DEF TypeInv
<1>s. worker[w].snap \in SUBSET MetaKeys /\ worker[w].pc \in WorkerPcs
  BY DEF TypeInv, ActorsType, WorkerType
<1>w. ASSUME NEW pc \in WorkerPcs \ {"idle"}, Walks(w, pc), worker[w].pc # "idle"
      PROVE  RunMoves(w)
  BY <1>w, <1>s DEF Walks, RunMoves
<1>r. ASSUME Rests(w), worker[w].pc # "idle"
      PROVE  RunMoves(w)
  BY <1>r DEF RunMoves
<1>1. CASE \E t \in Txns : TakeJob(w, t)
  BY <1>1, TakeEffect DEF RunMoves, TypeInv
<1>2. CASE CheckIp(w) \/ RereadAfterFailedClaim(w) \/ Screen(w)
  BY <1>2, <1>e, <1>w, <1>r DEF RunEffects
<1>3. CASE claimForProcessing(w)
  BY <1>3, <1>w, ClaimEffect DEF TypeInv, claimForProcessing, At
<1>4. CASE \/ SendStellar(w) \/ SendWithoutHash(w) \/ StellarRejected(w)
           \/ StellarTransient(w) \/ UpdateMetadata(w)
  BY <1>4, <1>e, <1>w, <1>r DEF RunEffects
<1>5. CASE CallProvider(w) \/ ProviderTransient(w) \/ ProviderFailsOver(w) \/ ProviderRejected(w)
  BY <1>5, <1>e, <1>w, <1>r DEF RunEffects
<1>6. CASE PatchMetadata(w)
  BY <1>6, <1>e, <1>w DEF RunEffects, AfterProvider
<1>7. CASE ReadMetadata(w)
  <2>1. worker[w].tx \in Txns /\ worker[w].pc # "idle"
    BY <1>7 DEF ReadMetadata, PlaceInv
  <2> QED BY <1>7, <2>1, ReadMetadataEffect, SeenType DEF RunMoves, TypeInv, WriteBack
<1>8. CASE Branch(w)
  <2>1. worker[w].tx \in Txns /\ worker[w].pc # "idle"
    BY <1>8 DEF Branch, At, PlaceInv
  <2> QED BY <1>8, <2>1, BranchEffect, SeenType
          DEF RunMoves, TypeInv, AfterBranch, AfterProvider
<1>9. CASE \/ MarkCompleted(w) \/ AnnounceCompleted(w) \/ MarkFailed(w)
           \/ AnnounceFailed(w) \/ DatabaseThrows(w) \/ Crash(w)
  BY <1>9, <1>e, <1>w, <1>r DEF RunEffects
<1> QED BY <1>1, <1>2, <1>3, <1>4, <1>5, <1>6, <1>7, <1>8, <1>9 DEF RunStep, WorkerStep

HandlerMoves(r) ==
    \/ request[r].kind # "none" /\ Answered(r)
    \/ /\ request[r].kind = "watchdog"
       /\ \E a \in ProviderAnswers(request[r].tx) :
             Handles(r, "watchdog", request[r].tx, a)
    \/ /\ request[r].kind = "retry"
       /\ Handles(r, "requeue", request[r].tx, request[r].answer)
    \/ /\ request[r].kind = "none"
       /\ \E k \in Kinds, t \in Txns : Selects(k, t) /\ Handles(r, k, t, "none")

LEMMA HandlerMove ==
    ASSUME TypeInv, NEW r \in Requests, HandlerStep(r)
    PROVE  HandlerMoves(r)
<1>1. CASE \/ CancelTransaction(r) \/ TimeOutTransaction(r) \/ RefundTransaction(r)
           \/ WatchdogResolves(r) \/ RetryBatchRequeues(r)
  BY <1>1, AnsweredEffect
     DEF CancelTransaction, TimeOutTransaction, RefundTransaction, WatchdogResolves,
         RetryBatchRequeues, HandlerMoves, TypeInv
<1>2. CASE WatchdogAsks(r)
  BY <1>2, AsksEffect DEF HandlerMoves, TypeInv
<1>3. CASE \E k \in Kinds, t \in Txns : ReadRow(r, k, t)
  BY <1>3, ReadRowEffect DEF HandlerMoves, TypeInv
<1>4. CASE RetryBatchUpdates(r)
  BY <1>4, UpdatesEffect DEF HandlerMoves, TypeInv
<1> QED BY <1>1, <1>2, <1>3, <1>4, HandlerStep(r) DEF HandlerStep

LEMMA SelectsFacts ==
    ASSUME RowsType, RowInv, NEW k, NEW t \in Txns, Selects(k, t)
    PROVE  /\ k # "none" /\ status[t] # "none"
           /\ k \in {"retry", "requeue"} => "retryBatch" \in features
           /\ k = "refund" => "refund" \in features
<1>1. \A seen \in findById(t) : seen.status # "none" => status[t] # "none"
  BY SeenType DEF RowInv
<1> QED BY <1>1 DEF Selects

LEMMA PlaceStep == TypeInv /\ PlaceInv /\ RowInv /\ [Next]_vars => PlaceInv'
<1> SUFFICES ASSUME TypeInv, PlaceInv, RowInv, [Next]_vars
             PROVE  PlaceInv'
  OBVIOUS
<1>1. ASSUME NEW t \in Txns, RowStep(t)
      PROVE  PlaceInv'
  BY <1>1, Frames DEF RowFrame, PlaceInv
<1>2. ASSUME NEW w \in Workers, RunStep(w)
      PROVE  PlaceInv'
  <2>1. features' = features /\ request' = request
    BY <1>2, Frames DEF RunFrame
  <2>2. RunMoves(w)
    BY <1>2, RunMove
  <2>3. \A v \in Workers : worker'[v].pc # "idle" => worker'[v].tx \in Txns
    BY <2>2 DEF RunMoves, Rests, Becomes, PlaceInv
  <2> QED BY <2>1, <2>3 DEF PlaceInv
<1>3. ASSUME NEW r \in Requests, HandlerStep(r)
      PROVE  PlaceInv'
  <2>1. features' = features /\ worker' = worker
    BY <1>3, Frames DEF HandlerFrame
  <2>2. HandlerMoves(r)
    BY <1>3, HandlerMove
  <2>3. \A o \in Requests :
           /\ request'[o].kind # "none" => request'[o].tx \in Txns
           /\ request'[o].kind \in {"retry", "requeue"} => "retryBatch" \in features
           /\ request'[o].kind = "refund" => "refund" \in features
           /\ request'[o].answer # "none" => request'[o].kind = "watchdog"
    <3>1. CASE Answered(r)
      BY <3>1 DEF Answered, Handles, PlaceInv
    <3>2. CASE \E a : Handles(r, "watchdog", request[r].tx, a)
      BY <2>2, <3>1, <3>2 DEF HandlerMoves, Answered, Handles, PlaceInv
    <3>3. CASE \E k \in Kinds, t \in Txns : Selects(k, t) /\ Handles(r, k, t, "none")
      BY <3>3, SelectsFacts DEF TypeInv, Handles, PlaceInv
    <3>4. CASE /\ request[r].kind = "retry"
               /\ Handles(r, "requeue", request[r].tx, request[r].answer)
      BY <3>4 DEF Handles, PlaceInv
    <3> QED BY <2>2, <3>1, <3>2, <3>3, <3>4 DEF HandlerMoves
  <2> QED BY <2>1, <2>3 DEF PlaceInv
<1>4. CASE UNCHANGED vars
  BY <1>4 DEF vars, PlaceInv
<1> QED BY <1>1, <1>2, <1>3, <1>4, EveryStep

\* Who makes work: the request that was not held, the reviewer and retry-batch.
Wanted(t) == \/ intake[t] = "clear"
             \/ status[t] = "pending_review" /\ status'[t] = "pending"
             \/ \E r \in Requests : request[r].kind = "requeue" /\ request[r].tx = t

LEMMA AddJobEffect ==
    ASSUME TypeInv, NEW t \in Txns, AddJob(t)
    PROVE  \A o \in Txns : o # t => jobs'[o] = jobs[o] /\ (o \in known' <=> o \in known)
  BY DEF TypeInv, QueueType, AddJob

LEMMA WorkGrows ==
    ASSUME TypeInv, PlaceInv, Next
    PROVE  \A o \in Txns : InWork(o)' => InWork(o) \/ Wanted(o)
<1>1. ASSUME NEW t \in Txns, RowStep(t), NEW o \in Txns, InWork(o)'
      PROVE  InWork(o) \/ Wanted(o)
  <2>0. worker' = worker
    BY <1>1, Frames DEF RowFrame
  <2>1. CASE \/ Create(t) \/ VerifySep08(t) \/ VelocityHold(t) \/ VelocityClear(t)
             \/ ResolveReject(t) \/ Replicate(t)
             \/ \E keys \in SUBSET MetaKeys : EditMetadata(t, keys)
    BY <1>1, <2>1 DEF Create, VerifySep08, VelocityHold, VelocityClear, ResolveReject,
                      Replicate, EditMetadata, InWork
  <2>2. CASE ResolveRelease(t)
    BY <1>1, <2>2 DEF ResolveRelease, InWork, Wanted, TypeInv, RowsType
  <2>3. CASE Enqueue(t)
    BY <1>1, <2>0, <2>3, AddJobEffect DEF Enqueue, InWork, Wanted
  <2>4. CASE EnqueueReleased(t)
    <3>1. CASE o = t
      BY <2>4, <3>1 DEF EnqueueReleased, InWork
    <3>2. CASE o # t
      <4>1. jobs'[o] = jobs[o] /\ (o \in known' <=> o \in known)
        BY <2>4, <3>2, AddJobEffect DEF EnqueueReleased
      <4>2. o \in released' => o \in released
        BY <2>4 DEF EnqueueReleased
      <4> QED BY <1>1, <2>0, <4>1, <4>2 DEF InWork
    <3> QED BY <3>1, <3>2
  <2>5. CASE RequestThrows(t)
    BY <1>1, <2>5 DEF RequestThrows, InWork
  <2>6. CASE DuplicateJob(t)
    BY <1>1, <2>6 DEF DuplicateJob, InWork, TypeInv, QueueType
  <2> QED BY <1>1, <2>1, <2>2, <2>3, <2>4, <2>5, <2>6 DEF RowStep, IntakeStep
<1>2. ASSUME NEW w \in Workers, RunStep(w), NEW o \in Txns, InWork(o)'
      PROVE  InWork(o) \/ Wanted(o)
  <2>1. known' = known /\ released' = released
    BY <1>2, Frames DEF RunFrame
  <2>2. RunMoves(w)
    BY <1>2, RunMove
  <2>3. ASSUME NEW v \in Workers, worker'[v].pc # "idle", worker'[v].tx = o
        PROVE  InWork(o)
    BY <2>2, <2>3 DEF RunMoves, Rests, Becomes, InWork
  <2>4. jobs'[o] > 0 => InWork(o)
    <3>1. CASE Crash(w)
      BY <3>1 DEF Crash, At, InWork, TypeInv, QueueType
    <3>2. CASE \E t \in Txns : TakeJob(w, t)
      BY <3>2 DEF TakeJob, InWork, TypeInv, QueueType
    <3>3. CASE jobs' = jobs
      BY <3>3 DEF InWork
    <3> QED BY <1>2, <3>1, <3>2, <3>3
            DEF RunStep, WorkerStep, CheckIp, claimForProcessing,
                RereadAfterFailedClaim, Screen, SendStellar, SendWithoutHash,
                StellarRejected, ReadMetadata, UpdateMetadata, Branch, CallProvider,
                ProviderRejected, PatchMetadata, MarkCompleted, AnnounceCompleted,
                MarkFailed, AnnounceFailed, StellarTransient, ProviderTransient,
                ProviderFailsOver, DatabaseThrows
  <2> QED BY <1>2, <2>1, <2>3, <2>4 DEF InWork
<1>3. ASSUME NEW r \in Requests, HandlerStep(r), NEW o \in Txns, InWork(o)'
      PROVE  InWork(o) \/ Wanted(o)
  <2>0. worker' = worker /\ released' = released
    BY <1>3, Frames DEF HandlerFrame
  <2>1. CASE RetryBatchRequeues(r)
    <3>1. request[r].tx \in Txns
      BY <2>1 DEF RetryBatchRequeues, PlaceInv
    <3> QED BY <1>3, <2>0, <2>1, <3>1, AddJobEffect DEF RetryBatchRequeues, InWork, Wanted
  <2>2. CASE known' = known /\ jobs' = jobs
    BY <1>3, <2>0, <2>2 DEF InWork
  <2> QED BY <1>3, <2>1, <2>2
          DEF HandlerStep, ReadRow, CancelTransaction, TimeOutTransaction,
              RefundTransaction, WatchdogAsks, WatchdogResolves, RetryBatchUpdates
<1> QED BY <1>1, <1>2, <1>3, EveryStep

-----------------------------------------------------------------------------
\* What can happen to the status of a row in one step.

Completes(t) ==
    \/ \E w \in Workers : worker[w].pc = "complete" /\ worker[w].tx = t
    \/ \E r \in Requests : /\ request[r].kind # "none" /\ request[r].tx = t
                           /\ request[r].kind = "refund" \/ request[r].answer = "completed"

Claims(t) == \E w \in Workers : /\ worker[w].pc = "claim" /\ worker[w].tx = t
                                /\ Walks(w, "screen")

StatusMoves(t) ==
    \/ status'[t] = status[t]
    \/ /\ intake[t] = "new" /\ status'[t] = "pending" /\ intake'[t] = "created"
       /\ replica' = replica /\ request' = request
    \/ /\ status[t] = "pending" /\ status'[t] = "pending_review"
       /\ intake[t] = "verified" /\ worker' = worker
       /\ \/ intake'[t] = "held"
          \/ intake'[t] = "clear" /\ "alertThrows" \in features
    \/ /\ status[t] = "pending_review" /\ status'[t] \in {"pending", "cancelled"}
       /\ worker' = worker
    \/ status[t] = "pending" /\ status'[t] = "processing" /\ Claims(t)
    \/ /\ status[t] \notin {"none", "completed", "cancelled"} /\ status'[t] \in Written
       /\ status'[t] = "completed" => Completes(t)
    \/ /\ status[t] # "none" /\ "retryBatch" \in features /\ status'[t] = "pending"

LEMMA WritesMove ==
    ASSUME NEW t \in Txns, NEW s \in Written, status[t] # "none", Writes(t, s),
           s = "completed" => Completes(t)
    PROVE  \A o \in Txns : StatusMoves(o)
  BY DEF Writes, StatusMoves

LEMMA WorkingRow ==
    ASSUME TypeInv, PlaceInv, RowInv
    PROVE  /\ \A w \in Workers : worker[w].pc # "idle" =>
                  worker[w].tx \in Txns /\ status[worker[w].tx] # "none"
           /\ \A r \in Requests : request[r].kind # "none" =>
                  request[r].tx \in Txns /\ status[request[r].tx] # "none"
  BY DEF PlaceInv, RowInv, InWork

LEMMA StatusMove ==
    ASSUME TypeInv, PlaceInv, RowInv, Next
    PROVE  \A o \in Txns : StatusMoves(o)
<1> USE DEF TypeInv
<1>q. ASSUME status' = status
      PROVE  \A o \in Txns : StatusMoves(o)
  BY <1>q DEF StatusMoves
<1>1. ASSUME NEW t \in Txns, RowStep(t)
      PROVE  \A o \in Txns : StatusMoves(o)
  <2>1. CASE Create(t)
    BY <2>1 DEF Create, StatusMoves, RowsType
  <2>2. CASE VerifySep08(t)
    <3>1. CASE updateStatus(t, "failed")
      <4>1. status[t] # "none"
        BY <2>2 DEF VerifySep08, RowInv
      <4>2. "failed" \in Written
        BY DEF Written
      <4>3. Writes(t, "failed")
        BY <3>1, <4>1, <4>2, UpdateEffect
      <4> QED BY <4>1, <4>2, <4>3, WritesMove
    <3> QED BY <1>q, <2>2, <3>1 DEF VerifySep08
  <2>3. CASE VelocityHold(t)
    BY <2>3 DEF VelocityHold, StatusMoves, RowsType
  <2>4. CASE ResolveRelease(t) \/ ResolveReject(t)
    BY <2>4 DEF ResolveRelease, ResolveReject, StatusMoves, RowsType
  <2> QED BY <1>q, <1>1, <2>1, <2>2, <2>3, <2>4
          DEF RowStep, IntakeStep, VelocityClear, Enqueue, EnqueueReleased, RequestThrows,
              DuplicateJob, Replicate, EditMetadata
<1>2. ASSUME NEW w \in Workers, RunStep(w)
      PROVE  \A o \in Txns : StatusMoves(o)
  <2>0. worker[w].pc # "idle" => worker[w].tx \in Txns /\ status[worker[w].tx] # "none"
    BY WorkingRow
  <2>w. ASSUME NEW s \in Written, updateStatus(worker[w].tx, s), worker[w].pc # "idle",
               s = "completed" => worker[w].pc = "complete"
        PROVE  \A o \in Txns : StatusMoves(o)
    <3>1. Writes(worker[w].tx, s)
      BY <2>0, <2>w, UpdateEffect
    <3>2. s = "completed" => Completes(worker[w].tx)
      BY <2>w DEF Completes
    <3> QED BY <2>0, <2>w, <3>1, <3>2, WritesMove
  <2>f. {"failed", "review", "completed"} \subseteq Written
    BY DEF Written
  <2>1. CASE CheckIp(w)
    BY <1>q, <2>w, <2>f, <2>1 DEF CheckIp, At
  <2>2. CASE Screen(w)
    BY <1>q, <2>w, <2>f, <2>2 DEF Screen, At
  <2>3. CASE MarkCompleted(w) \/ MarkFailed(w)
    BY <2>w, <2>f, <2>3 DEF MarkCompleted, MarkFailed, At
  <2>4. CASE claimForProcessing(w)
    <3>1. worker[w].pc = "claim" /\ worker[w].tx \in Txns
      BY <2>0, <2>4 DEF claimForProcessing, At
    <3>2. CASE status' = [status EXCEPT ![worker[w].tx] = "processing"]
      BY <2>4, <3>1, <3>2, ClaimEffect DEF StatusMoves, Claims, RowsType
    <3> QED BY <1>q, <2>4, <3>2, ClaimEffect
  <2> QED BY <1>q, <1>2, <2>1, <2>2, <2>3, <2>4
          DEF RunStep, WorkerStep, TakeJob, RereadAfterFailedClaim, SendStellar,
              SendWithoutHash, StellarRejected, ReadMetadata, UpdateMetadata, Branch,
              CallProvider, ProviderRejected, PatchMetadata, AnnounceCompleted,
              AnnounceFailed, StellarTransient, ProviderTransient, ProviderFailsOver,
              DatabaseThrows, Crash
<1>3. ASSUME NEW r \in Requests, HandlerStep(r)
      PROVE  \A o \in Txns : StatusMoves(o)
  <2>0. request[r].kind # "none" => request[r].tx \in Txns /\ status[request[r].tx] # "none"
    BY WorkingRow
  <2>w. ASSUME NEW s \in Written, updateStatus(request[r].tx, s), request[r].kind # "none",
               s = "completed" => request[r].kind = "refund" \/ request[r].answer = "completed"
        PROVE  \A o \in Txns : StatusMoves(o)
    <3>1. Writes(request[r].tx, s)
      BY <2>0, <2>w, UpdateEffect
    <3>2. s = "completed" => Completes(request[r].tx)
      BY <2>w DEF Completes
    <3> QED BY <2>0, <2>w, <3>1, <3>2, WritesMove
  <2>f. {"failed", "cancelled", "completed"} \subseteq Written
    BY DEF Written
  <2>1. CASE CancelTransaction(r) \/ TimeOutTransaction(r) \/ RefundTransaction(r)
    BY <2>w, <2>f, <2>1 DEF CancelTransaction, TimeOutTransaction, RefundTransaction
  <2>2. CASE WatchdogResolves(r)
    <3>1. request[r].answer \in Written
      BY <2>2 DEF WatchdogResolves, ActorsType, RequestType, Answers, Written
    <3> QED BY <2>w, <2>2, <3>1 DEF WatchdogResolves
  <2>3. CASE RetryBatchUpdates(r)
    BY <2>0, <2>3 DEF RetryBatchUpdates, PlaceInv, StatusMoves, RowsType
  <2> QED BY <1>q, <1>3, <2>1, <2>2, <2>3
          DEF HandlerStep, ReadRow, WatchdogAsks, RetryBatchRequeues
<1> QED BY <1>1, <1>2, <1>3, EveryStep

\* What can happen to the request that creates a row.
IntakeMoves(t) ==
    \/ intake'[t] = intake[t]
    \/ intake[t] = "new" /\ intake'[t] = "created" /\ status'[t] = "pending"
    \/ intake[t] = "created" /\ intake'[t] \in {"verified", "refused"}
    \/ intake[t] = "verified" /\ intake'[t] = "held"
    \/ /\ intake[t] = "verified" /\ intake'[t] \in {"clear", "refused"}
       /\ status'[t] = status[t] \/ "alertThrows" \in features
    \/ intake[t] = "clear" /\ intake'[t] \in {"queued", "refused"}

LEMMA IntakeMove ==
    ASSUME TypeInv, Next
    PROVE  \A o \in Txns : IntakeMoves(o)
<1>1. ASSUME NEW t \in Txns, RowStep(t)
      PROVE  \A o \in Txns : IntakeMoves(o)
  <2> USE DEF TypeInv, RowsType
  <2>1. CASE Create(t)
    BY <2>1 DEF Create, IntakeMoves
  <2>2. CASE VerifySep08(t)
    BY <2>2 DEF VerifySep08, IntakeMoves
  <2>3. CASE VelocityHold(t)
    BY <2>3 DEF VelocityHold, IntakeMoves
  <2>4. CASE VelocityClear(t) \/ Enqueue(t)
    BY <2>4 DEF VelocityClear, Enqueue, IntakeMoves
  <2>5. CASE RequestThrows(t)
    BY <2>5 DEF RequestThrows, IntakeMoves
  <2>6. CASE intake' = intake
    BY <2>6 DEF IntakeMoves
  <2> QED BY <1>1, <2>1, <2>2, <2>3, <2>4, <2>5, <2>6
          DEF RowStep, IntakeStep, EnqueueReleased, ResolveRelease, ResolveReject,
              DuplicateJob, Replicate, EditMetadata
<1>2. ASSUME intake' = intake
      PROVE  \A o \in Txns : IntakeMoves(o)
  BY <1>2 DEF IntakeMoves
<1>3. ASSUME NEW w \in Workers, RunStep(w)
      PROVE  intake' = intake
  BY <1>3, Frames DEF RunFrame
<1>4. ASSUME NEW r \in Requests, HandlerStep(r)
      PROVE  intake' = intake
  BY <1>4, Frames DEF HandlerFrame
<1> QED BY <1>1, <1>2, <1>3, <1>4, EveryStep

LEMMA ReplicaMove ==
    ASSUME TypeInv, Next
    PROVE  \A o \in Txns : \/ replica'[o] = replica[o]
                           \/ replica'[o] = Primary(o)
<1>1. ASSUME NEW t \in Txns, RowStep(t)
      PROVE  \A o \in Txns : \/ replica'[o] = replica[o]
                             \/ replica'[o] = Primary(o)
  <2>1. CASE Replicate(t)
    BY <2>1 DEF Replicate, TypeInv, RowsType
  <2> QED BY <1>1, <2>1
          DEF RowStep, IntakeStep, Create, VerifySep08, VelocityHold, VelocityClear,
              Enqueue, EnqueueReleased, ResolveRelease, ResolveReject, RequestThrows,
              DuplicateJob, EditMetadata
<1>2. ASSUME NEW w \in Workers, RunStep(w)
      PROVE  replica' = replica
  BY <1>2, Frames DEF RunFrame
<1>3. ASSUME NEW r \in Requests, HandlerStep(r)
      PROVE  replica' = replica
  BY <1>3, Frames DEF HandlerFrame
<1> QED BY <1>1, <1>2, <1>3, EveryStep

\* A request is about a row that exists.
LEMMA RequestMove ==
    ASSUME TypeInv, RowInv, Next
    PROVE  \A o \in Requests : request'[o].kind # "none" =>
              \/ request[o].kind # "none" /\ request'[o].tx = request[o].tx
              \/ request'[o].tx \in Txns /\ status[request'[o].tx] # "none"
<1>1. ASSUME NEW r \in Requests, HandlerStep(r), NEW o \in Requests,
             request'[o].kind # "none"
      PROVE  \/ request[o].kind # "none" /\ request'[o].tx = request[o].tx
             \/ request'[o].tx \in Txns /\ status[request'[o].tx] # "none"
  <2>1. HandlerMoves(r)
    BY <1>1, HandlerMove
  <2>2. CASE o = r
    BY <1>1, <2>1, <2>2, SelectsFacts DEF HandlerMoves, Answered, Handles, TypeInv
  <2>3. CASE o # r
    BY <1>1, <2>1, <2>3 DEF HandlerMoves, Answered, Handles
  <2> QED BY <2>2, <2>3
<1>2. ASSUME NEW t \in Txns, RowStep(t)
      PROVE  request' = request
  BY <1>2, Frames DEF RowFrame
<1>3. ASSUME NEW w \in Workers, RunStep(w)
      PROVE  request' = request
  BY <1>3, Frames DEF RunFrame
<1> QED BY <1>1, <1>2, <1>3, EveryStep

LEMMA RowStepInv == TypeInv /\ PlaceInv /\ RowInv /\ [Next]_vars => RowInv'
<1> SUFFICES ASSUME TypeInv, PlaceInv, RowInv, [Next]_vars
             PROVE  RowInv'
  OBVIOUS
<1>1. CASE Next
  <2> SUFFICES ASSUME NEW t \in Txns
               PROVE  /\ (intake[t] = "new")' <=> (status[t] = "none")'
                      /\ status'[t] = "none" =>
                            /\ ~InWork(t)' /\ replica'[t].status = "none"
                            /\ \A r \in Requests :
                                  request'[r].kind # "none" => request'[r].tx # t
    BY DEF RowInv
  <2>1. StatusMoves(t) /\ IntakeMoves(t)
    BY <1>1, StatusMove, IntakeMove
  <2>2. (intake'[t] = "new" <=> status'[t] = "none")
    BY <2>1 DEF StatusMoves, IntakeMoves, RowInv, Written
  <2>3. status'[t] = "none" => status[t] = "none" /\ intake[t] = "new"
    BY <2>1 DEF StatusMoves, RowInv, Written
  <2>4. ASSUME status'[t] = "none"
        PROVE  ~InWork(t)'
    <3>1. ~InWork(t) /\ ~Wanted(t)
      BY <2>3, <2>4 DEF RowInv, Wanted
    <3> QED BY <1>1, <3>1, WorkGrows
  <2>5. ASSUME status'[t] = "none"
        PROVE  replica'[t].status = "none"
    <3>1. status[t] = "none" /\ replica[t].status = "none"
      BY <2>3, <2>5 DEF RowInv
    <3>2. replica'[t] = replica[t] \/ replica'[t] = Primary(t)
      BY <1>1, ReplicaMove
    <3> QED BY <3>1, <3>2 DEF Primary
  <2>6. ASSUME status'[t] = "none", NEW r \in Requests, request'[r].kind # "none"
        PROVE  request'[r].tx # t
    BY <1>1, <2>3, <2>6, RequestMove DEF RowInv
  <2> QED BY <2>2, <2>4, <2>5, <2>6
<1>2. CASE UNCHANGED vars
  BY <1>2 DEF vars, RowInv, InWork
<1> QED BY <1>1, <1>2

-----------------------------------------------------------------------------
\* Money.

\* Payment counters only go up, and only by the worker that is about to pay.
CounterMoves(t) ==
    /\ stellar'[t] # stellar[t] => \E w \in Workers :
          worker[w].pc \in {"stellar", "resend"} /\ worker[w].tx = t
    /\ momo'[t] # momo[t] => \E w \in Workers :
          worker[w].pc = "provider" /\ worker[w].tx = t
    /\ momo[t] > 0 => momo'[t] > 0

LEMMA CountEffect ==
    ASSUME NEW f \in [Txns -> 0..2], NEW t \in Txns
    PROVE  /\ Count(f, t)[t] > 0
           /\ f[t] = 0 => Count(f, t)[t] = 1
           /\ \A o \in Txns : o # t => Count(f, t)[o] = f[o]
  BY DEF Count

LEMMA CounterMove ==
    ASSUME TypeInv, PlaceInv, Next
    PROVE  \A o \in Txns : CounterMoves(o)
<1>q. ASSUME stellar' = stellar, momo' = momo
      PROVE  \A o \in Txns : CounterMoves(o)
  BY <1>q DEF CounterMoves
<1>1. ASSUME NEW t \in Txns, RowStep(t)
      PROVE  stellar' = stellar /\ momo' = momo
  BY <1>1, Frames DEF RowFrame
<1>2. ASSUME NEW r \in Requests, HandlerStep(r)
      PROVE  stellar' = stellar /\ momo' = momo
  BY <1>2, Frames DEF HandlerFrame
<1>3. ASSUME NEW w \in Workers, RunStep(w)
      PROVE  \A o \in Txns : CounterMoves(o)
  <2>t. worker[w].pc # "idle" => worker[w].tx \in Txns
    BY DEF PlaceInv
  <2>1. CASE stellar' = Count(stellar, worker[w].tx) /\ momo' = momo
             /\ worker[w].pc \in {"stellar", "resend"}
    BY <2>t, <2>1, CountEffect DEF CounterMoves, TypeInv, QueueType
  <2>2. CASE momo' = Count(momo, worker[w].tx) /\ stellar' = stellar
             /\ worker[w].pc = "provider"
    BY <2>t, <2>2, CountEffect DEF CounterMoves, TypeInv, QueueType
  <2>3. CASE \/ SendStellar(w) \/ SendWithoutHash(w) \/ StellarTransient(w)
             \/ CallProvider(w) \/ ProviderTransient(w) \/ ProviderFailsOver(w)
    BY <1>q, <2>1, <2>2, <2>3
       DEF SendStellar, SendWithoutHash, StellarTransient, CallProvider, ProviderTransient,
           ProviderFailsOver, At
  <2> QED BY <1>q, <1>3, <2>3
          DEF RunStep, WorkerStep, TakeJob, CheckIp, claimForProcessing,
              RereadAfterFailedClaim, Screen, StellarRejected, ReadMetadata,
              UpdateMetadata, Branch, ProviderRejected, PatchMetadata,
              MarkCompleted, AnnounceCompleted, MarkFailed, AnnounceFailed,
              DatabaseThrows, Crash
<1> QED BY <1>q, <1>1, <1>2, <1>3, EveryStep

MetaMoves(t) ==
    \/ meta'[t] = meta[t]
    \/ "metadataEdits" \in features
    \/ \E w \in Workers : /\ worker[w].pc \in {"writeMeta", "rewriteMeta"}
                          /\ worker[w].tx = t
                          /\ meta'[t] = worker[w].snap \cup {"stellar"}
    \/ \E w \in Workers : /\ worker[w].pc = "rewriteBare" /\ worker[w].tx = t
                          /\ meta'[t] = worker[w].snap \ {"stellar"}
    \/ \E w \in Workers : /\ worker[w].pc = "patchMeta" /\ worker[w].tx = t
                          /\ \/ meta'[t] = meta[t] \cup {"mobileMoney"}
                             \/ meta'[t] = meta[t] \ {"mobileMoney"}

LEMMA MetaMove ==
    ASSUME TypeInv, Next
    PROVE  \A o \in Txns : MetaMoves(o)
<1>q. ASSUME meta' = meta
      PROVE  \A o \in Txns : MetaMoves(o)
  BY <1>q DEF MetaMoves
<1>1. ASSUME NEW t \in Txns, RowStep(t)
      PROVE  \A o \in Txns : MetaMoves(o)
  <2>1. CASE \E keys \in SUBSET MetaKeys : EditMetadata(t, keys)
    BY <2>1 DEF EditMetadata, MetaMoves
  <2> QED BY <1>q, <1>1, <2>1
          DEF RowStep, IntakeStep, Create, VerifySep08, VelocityHold, VelocityClear,
              Enqueue, EnqueueReleased, ResolveRelease, ResolveReject, RequestThrows,
              DuplicateJob, Replicate
<1>2. ASSUME NEW r \in Requests, HandlerStep(r)
      PROVE  meta' = meta
  BY <1>2, Frames DEF HandlerFrame
<1>3. ASSUME NEW w \in Workers, RunStep(w)
      PROVE  \A o \in Txns : MetaMoves(o)
  <2>t. meta \in [Txns -> SUBSET MetaKeys]
    BY DEF TypeInv, RowsType
  <2>1. CASE UpdateMetadata(w)
    <3>1. PICK keys : keys = (IF worker[w].pc = "rewriteBare" THEN worker[w].snap \ {"stellar"}
                              ELSE worker[w].snap \cup {"stellar"})
      OBVIOUS
    <3>2. /\ worker[w].pc \in {"writeMeta", "rewriteMeta", "rewriteBare"}
          /\ meta' = [meta EXCEPT ![worker[w].tx] = keys]
      BY <2>1, <3>1 DEF UpdateMetadata, At
    <3>3. \A o \in Txns : meta'[o] = meta[o] \/ (o = worker[w].tx /\ meta'[o] = keys)
      BY <2>t, <3>2
    <3> QED BY <3>1, <3>2, <3>3 DEF MetaMoves
  <2>2. CASE PatchMetadata(w)
    <3>1. PICK keys : /\ keys \in {meta[worker[w].tx], meta[worker[w].tx] \cup {"mobileMoney"},
                                   meta[worker[w].tx] \ {"mobileMoney"}}
                      /\ meta' = [meta EXCEPT ![worker[w].tx] = keys]
      <4>1. ASSUME NEW lost \in SUBSET {"mobileMoney"}
            PROVE  meta[worker[w].tx] \ lost \in {meta[worker[w].tx],
                                                 meta[worker[w].tx] \ {"mobileMoney"}}
        <5>1. lost = {} \/ lost = {"mobileMoney"}
          OBVIOUS
        <5> QED BY <5>1
      <4> QED BY <2>2, <4>1 DEF PatchMetadata
    <3>2. \A o \in Txns : meta'[o] = meta[o] \/ (o = worker[w].tx /\ meta'[o] = keys)
      BY <2>t, <3>1
    <3> QED BY <2>2, <3>1, <3>2 DEF PatchMetadata, At, MetaMoves
  <2> QED BY <1>q, <1>3, <2>1, <2>2
          DEF RunStep, WorkerStep, TakeJob, CheckIp, claimForProcessing,
              RereadAfterFailedClaim, Screen, SendStellar, SendWithoutHash, StellarRejected,
              ReadMetadata, Branch, CallProvider, ProviderRejected, MarkCompleted,
              AnnounceCompleted, MarkFailed, AnnounceFailed, StellarTransient,
              ProviderTransient, ProviderFailsOver, DatabaseThrows, Crash
<1> QED BY <1>q, <1>1, <1>2, <1>3, EveryStep

LEMMA EventsMove ==
    ASSUME TypeInv, PlaceInv, Next
    PROVE  \A o \in Txns : "completed" \in events'[o] =>
              \/ "completed" \in events[o]
              \/ \E w \in Workers : worker[w].pc = "announce" /\ worker[w].tx = o
<1>1. ASSUME NEW t \in Txns, RowStep(t)
      PROVE  events' = events
  BY <1>1, Frames DEF RowFrame
<1>2. ASSUME NEW r \in Requests, HandlerStep(r)
      PROVE  events' = events
  BY <1>2, Frames DEF HandlerFrame
<1>3. ASSUME NEW w \in Workers, RunStep(w), NEW o \in Txns, "completed" \in events'[o]
      PROVE  \/ "completed" \in events[o]
             \/ \E v \in Workers : worker[v].pc = "announce" /\ worker[v].tx = o
  <2>1. CASE AnnounceCompleted(w)
    BY <1>3, <2>1 DEF AnnounceCompleted, At, TypeInv, QueueType
  <2>2. CASE AnnounceFailed(w)
    <3>1. PICK sent \in SUBSET {"failed"} :
             events' = [events EXCEPT ![worker[w].tx] = @ \cup sent]
      BY <2>2 DEF AnnounceFailed
    <3> QED BY <1>3, <3>1 DEF TypeInv, QueueType
  <2> QED BY <1>3, <2>1, <2>2
          DEF RunStep, WorkerStep, TakeJob, CheckIp, claimForProcessing,
              RereadAfterFailedClaim, Screen, SendStellar, SendWithoutHash, StellarRejected,
              ReadMetadata, UpdateMetadata, Branch, CallProvider, ProviderRejected,
              PatchMetadata, MarkCompleted, MarkFailed, StellarTransient, ProviderTransient,
              ProviderFailsOver, DatabaseThrows, Crash
<1> QED BY <1>1, <1>2, <1>3, EveryStep

\* Whoever relies on the mobile-money operation afterwards knows of it.
Relies(p, snap) == p \in PaidPcs \/ "mobileMoney" \in snap

LEMMA RunMoney ==
    ASSUME TypeInv, PlaceInv, MoneyFacts, NEW w \in Workers, RunStep(w),
           worker'[w].pc # "idle", Relies(worker'[w].pc, worker'[w].snap)
    PROVE  momo'[worker'[w].tx] > 0
<1> DEFINE t == worker[w].tx
<1> USE DEF TypeInv
<1>e. RunEffects(w)
  BY RunEffect
<1>t. worker[w].pc # "idle" => t \in Txns
  BY DEF PlaceInv
<1>k. worker[w].pc # "idle" /\ momo[t] > 0 => momo'[t] > 0
  BY <1>t, CounterMove, EveryStep DEF CounterMoves, Next, RunStep
<1>m. ASSUME worker[w].pc # "idle", worker'[w].tx = t,
             momo[t] > 0
      PROVE  momo'[worker'[w].tx] > 0
  BY <1>k, <1>m
<1>o. worker[w].pc # "idle" /\ Relies(worker[w].pc, worker[w].snap) => momo[t] > 0
  BY DEF MoneyFacts, Relies, Collected
<1>w. ASSUME NEW pc, Walks(w, pc), worker[w].pc # "idle",
             pc \in PaidPcs => worker[w].pc \in PaidPcs
      PROVE  momo'[worker'[w].tx] > 0
  BY <1>m, <1>o, <1>w DEF Walks, Becomes, Relies
<1>r. ~Rests(w)
  BY DEF Rests, Becomes
<1>s. \A seen \in findById(t) : "mobileMoney" \in seen.meta /\ t \in Txns => momo[t] > 0
  BY SeenType DEF MoneyFacts, Collected
<1>1. CASE \E x \in Txns : TakeJob(w, x)
  BY <1>1, TakeEffect DEF Becomes, Relies, PaidPcs
<1>2. CASE CheckIp(w) \/ RereadAfterFailedClaim(w) \/ Screen(w)
  BY <1>2, <1>e, <1>w, <1>r DEF RunEffects, PaidPcs
<1>3. CASE claimForProcessing(w)
  BY <1>3, <1>w, ClaimEffect DEF claimForProcessing, At, PaidPcs
<1>4. CASE \/ SendStellar(w) \/ SendWithoutHash(w) \/ StellarRejected(w)
           \/ StellarTransient(w) \/ UpdateMetadata(w)
  BY <1>4, <1>e, <1>w, <1>r DEF RunEffects, PaidPcs
<1>5. CASE ProviderTransient(w) \/ ProviderFailsOver(w) \/ ProviderRejected(w)
  BY <1>5, <1>e, <1>w, <1>r DEF RunEffects, PaidPcs
<1>6. CASE CallProvider(w)
  <2>1. t \in Txns /\ worker'[w].tx = t
    BY <1>6, <1>e, <1>t DEF RunEffects, Walks, Becomes
  <2>2. momo' = Count(momo, t)
    BY <1>6 DEF CallProvider
  <2> QED BY <2>1, <2>2, CountEffect DEF QueueType
<1>7. CASE PatchMetadata(w)
  BY <1>7, <1>e, <1>w DEF RunEffects, AfterProvider, PaidPcs
<1>8. CASE ReadMetadata(w)
  <2>1. t \in Txns /\ worker[w].pc \in {"readMeta", "rereadMeta", "rereadBare"}
    BY <1>8, <1>t DEF ReadMetadata
  <2>2. PICK seen \in findById(t) : Becomes(w, WriteBack(worker[w].pc), t, seen.meta)
    BY <1>8, <2>1, ReadMetadataEffect
  <2>3. CASE worker[w].pc \in {"rereadMeta", "rereadBare"}
    BY <1>m, <1>o, <2>2, <2>3 DEF Becomes, Relies, PaidPcs
  <2>4. CASE worker[w].pc = "readMeta"
    BY <1>m, <1>s, <2>1, <2>2, <2>4 DEF Becomes, Relies, PaidPcs, WriteBack
  <2> QED BY <2>1, <2>3, <2>4
<1>9. CASE Branch(w)
  <2>1. t \in Txns /\ worker[w].pc = "branch"
    BY <1>9, <1>t DEF Branch, At
  <2>2. PICK seen \in findById(t) : Becomes(w, AfterBranch(t, seen.meta), t, seen.meta)
    BY <1>9, <2>1, BranchEffect
  <2>3. "mobileMoney" \in seen.meta
    BY <2>2 DEF Becomes, Relies, AfterBranch, PaidPcs
  <2> QED BY <1>m, <1>s, <2>1, <2>2, <2>3 DEF Becomes
<1>10. CASE \/ MarkCompleted(w) \/ AnnounceCompleted(w) \/ MarkFailed(w)
            \/ AnnounceFailed(w) \/ DatabaseThrows(w) \/ Crash(w)
  BY <1>10, <1>e, <1>w, <1>r DEF RunEffects, PaidPcs
<1> QED BY <1>1, <1>2, <1>3, <1>4, <1>5, <1>6, <1>7, <1>8, <1>9, <1>10
        DEF RunStep, WorkerStep

LEMMA MoneyStep == TypeInv /\ PlaceInv /\ RowInv /\ MoneyInv /\ [Next]_vars => MoneyInv'
<1> SUFFICES ASSUME TypeInv, PlaceInv, RowInv, MoneyInv, [Next]_vars
             PROVE  MoneyInv'
  OBVIOUS
<1>1. CASE Next
  <2>f. features' = features
    BY <1>1, EveryStep, Frames DEF RowFrame, RunFrame, HandlerFrame
  <2> SUFFICES ASSUME "metadataEdits" \notin features
               PROVE  MoneyFacts'
    BY <2>f DEF MoneyInv
  <2>m. MoneyFacts
    BY DEF MoneyInv
  <2>k. \A t \in Txns : momo[t] > 0 => momo'[t] > 0
    BY <1>1, CounterMove DEF CounterMoves
  <2>w. \A w \in Workers : worker[w].pc # "idle" /\ Relies(worker[w].pc, worker[w].snap)
                              => worker[w].tx \in Txns /\ momo[worker[w].tx] > 0
    BY <2>m DEF MoneyFacts, Relies, Collected, PlaceInv
  <2>1. ASSUME NEW t \in Txns
        PROVE  /\ "mobileMoney" \in meta'[t] \/ "mobileMoney" \in replica'[t].meta
                     => momo'[t] > 0
               /\ "completed" \in events'[t] => momo'[t] > 0
               /\ "refund" \notin features /\ status'[t] = "completed" => momo'[t] > 0
    <3>1. "mobileMoney" \in meta'[t] => momo[t] > 0
      <4>1. MetaMoves(t)
        BY <1>1, MetaMove
      <4> QED BY <2>m, <2>w, <4>1 DEF MetaMoves, MoneyFacts, Collected, Relies, PaidPcs
    <3>2. "mobileMoney" \in replica'[t].meta => momo[t] > 0
      <4>1. replica'[t] = replica[t] \/ replica'[t] = Primary(t)
        BY <1>1, ReplicaMove
      <4> QED BY <2>m, <4>1 DEF Primary, MoneyFacts, Collected
    <3>3. "completed" \in events'[t] => momo[t] > 0
      BY <1>1, <2>m, <2>w, EventsMove DEF MoneyFacts, Collected, Relies, PaidPcs
    <3>4. "refund" \notin features /\ status'[t] = "completed" => momo[t] > 0
      <4>1. StatusMoves(t)
        BY <1>1, StatusMove
      <4>2. "refund" \notin features /\ Completes(t) => momo[t] > 0
        BY <2>m, <2>w DEF Completes, MoneyFacts, Collected, PlaceInv, Relies, PaidPcs
      <4> QED BY <2>m, <4>1, <4>2 DEF StatusMoves, MoneyFacts, Collected
    <3> QED BY <2>k, <3>1, <3>2, <3>3, <3>4
  <2>2. ASSUME NEW v \in Workers, worker'[v].pc # "idle",
               Relies(worker'[v].pc, worker'[v].snap)
        PROVE  momo'[worker'[v].tx] > 0
    <3>1. CASE worker'[v] = worker[v]
      BY <2>k, <2>w, <2>2, <3>1
    <3>2. ASSUME NEW w \in Workers, RunStep(w)
          PROVE  momo'[worker'[v].tx] > 0
      <4>1. CASE v = w
        BY <2>m, <2>2, <3>2, <4>1, RunMoney
      <4>2. CASE v # w
        BY <3>1, <3>2, <4>2, RunMove DEF RunMoves, Rests, Becomes
      <4> QED BY <4>1, <4>2
    <3> QED BY <1>1, <3>1, <3>2, EveryStep, Frames DEF RowFrame, HandlerFrame
  <2>3. ASSUME NEW o \in Requests, request'[o].answer = "completed"
        PROVE  momo'[request'[o].tx] > 0
    <3>1. CASE request'[o] = request[o]
      <4>1. request[o].tx \in Txns /\ momo[request[o].tx] > 0
        BY <2>m, <2>3, <3>1 DEF MoneyFacts, Collected, PlaceInv
      <4> QED BY <2>k, <3>1, <4>1
    <3>2. ASSUME NEW r \in Requests, HandlerStep(r)
          PROVE  momo'[request'[o].tx] > 0
      <4>1. HandlerMoves(r)
        BY <3>2, HandlerMove
      <4>2. CASE o # r
        BY <3>1, <4>1, <4>2 DEF HandlerMoves, Answered, Handles
      <4>3. CASE o = r
        <5>1. PICK a \in ProviderAnswers(request[r].tx) :
                 request[r].kind = "watchdog" /\ Handles(r, "watchdog", request[r].tx, a)
          <6>1. request[r].kind # "watchdog" => request[r].answer = "none"
            BY DEF PlaceInv
          <6> QED BY <2>3, <4>1, <4>3, <6>1 DEF HandlerMoves, Answered, Handles
        <5>2. momo[request[r].tx] > 0 /\ request[r].tx \in Txns
          BY <2>3, <4>3, <5>1 DEF Handles, ProviderAnswers, PlaceInv
        <5> QED BY <2>k, <4>3, <5>1, <5>2 DEF Handles
      <4> QED BY <4>2, <4>3
    <3> QED BY <1>1, <3>1, <3>2, EveryStep, Frames DEF RowFrame, RunFrame
  <2> QED BY <2>f, <2>1, <2>2, <2>3 DEF MoneyFacts, Collected, Relies
<1>2. CASE UNCHANGED vars
  BY <1>2 DEF vars, MoneyInv, MoneyFacts, Collected
<1> QED BY <1>1, <1>2

-----------------------------------------------------------------------------
\* The hash of the Stellar payment.

LEMMA RunHash ==
    ASSUME TypeInv, PlaceInv, NEW w \in Workers, RunStep(w), ~SendWithoutHash(w),
           "replicaReads" \notin features,
           HashOf(worker[w].pc, worker[w].tx, worker[w].snap, meta)
    PROVE  HashOf(worker'[w].pc, worker'[w].tx, worker'[w].snap, meta')
<1> DEFINE t == worker[w].tx
<1> USE DEF TypeInv
<1>e. RunEffects(w)
  BY RunEffect
<1>t. worker[w].pc # "idle" => t \in Txns
  BY DEF PlaceInv
<1>k. t \in Txns /\ "stellar" \in meta[t] /\ worker[w].pc \notin {"idle", "rewriteBare"}
         => "stellar" \in meta'[t]
  <2>1. CASE UpdateMetadata(w) /\ worker[w].pc # "rewriteBare"
    <3>1. meta' = [meta EXCEPT ![t] = worker[w].snap \cup {"stellar"}]
      BY <2>1 DEF UpdateMetadata, At
    <3> QED BY <3>1 DEF RowsType
  <2>2. CASE PatchMetadata(w)
    BY <2>2 DEF PatchMetadata, RowsType
  <2>3. CASE meta' = meta
    BY <2>3
  <2> QED BY <2>1, <2>2, <2>3
          DEF RunStep, WorkerStep, TakeJob, CheckIp, claimForProcessing,
              RereadAfterFailedClaim, Screen, SendStellar, SendWithoutHash, StellarRejected,
              ReadMetadata, Branch, CallProvider, ProviderRejected, MarkCompleted,
              AnnounceCompleted, MarkFailed, AnnounceFailed, StellarTransient,
              ProviderTransient, ProviderFailsOver, DatabaseThrows, Crash
<1>r. ASSUME Rests(w)
      PROVE  HashOf(worker'[w].pc, worker'[w].tx, worker'[w].snap, meta')
  BY <1>r DEF Rests, Becomes, HashOf
<1>w. ASSUME NEW pc, Walks(w, pc), worker[w].pc # "idle",
             pc \notin {"resend", "rereadBare", "rewriteBare"},
             pc = "branch" => "stellar" \in meta'[t],
             pc \in {"provider", "patchMeta"} => worker[w].pc \in {"provider", "patchMeta"}
      PROVE  HashOf(worker'[w].pc, worker'[w].tx, worker'[w].snap, meta')
  BY <1>k, <1>t, <1>w DEF Walks, Becomes, HashOf
<1>1. CASE \E x \in Txns : TakeJob(w, x)
  BY <1>1, TakeEffect DEF Becomes, HashOf
<1>2. CASE CheckIp(w) \/ RereadAfterFailedClaim(w) \/ Screen(w)
  BY <1>2, <1>e, <1>w, <1>r DEF RunEffects
<1>3. CASE claimForProcessing(w)
  BY <1>3, <1>w, ClaimEffect DEF claimForProcessing, At
<1>4. CASE SendStellar(w) \/ StellarRejected(w) \/ StellarTransient(w)
  BY <1>4, <1>e, <1>w, <1>r DEF RunEffects, HashOf
<1>5. CASE UpdateMetadata(w)
  <2>1. t \in Txns
    BY <1>5, <1>t DEF UpdateMetadata
  <2>2. "stellar" \in meta'[t]
    <3>1. meta' = [meta EXCEPT ![t] = worker[w].snap \cup {"stellar"}]
      BY <1>5 DEF UpdateMetadata, At, HashOf
    <3> QED BY <2>1, <3>1 DEF RowsType
  <2> QED BY <1>5, <1>e, <1>w, <2>2 DEF RunEffects
<1>6. CASE \/ CallProvider(w) \/ ProviderTransient(w) \/ ProviderFailsOver(w)
           \/ ProviderRejected(w)
  BY <1>6, <1>e, <1>w, <1>r DEF RunEffects
<1>7. CASE PatchMetadata(w)
  <2>1. AfterProvider(t, worker[w].snap) = "complete"
    BY <1>7 DEF PatchMetadata, At, HashOf, AfterProvider
  <2> QED BY <1>7, <1>e, <1>w, <2>1 DEF RunEffects
<1>8. CASE ReadMetadata(w)
  <2>1. t \in Txns
    BY <1>8, <1>t DEF ReadMetadata
  <2>2. worker[w].pc \in {"readMeta", "rereadMeta"}
    BY <1>8 DEF ReadMetadata, HashOf
  <2> QED BY <1>8, <2>1, <2>2, ReadMetadataEffect DEF Becomes, HashOf, WriteBack
<1>9. CASE Branch(w)
  <2>1. t \in Txns /\ "stellar" \in meta[t] /\ worker[w].pc = "branch"
    BY <1>9, <1>t DEF Branch, At, HashOf
  <2>2. PICK seen \in findById(t) : Becomes(w, AfterBranch(t, seen.meta), t, seen.meta)
    BY <1>9, <2>1, BranchEffect
  <2>3. "stellar" \in seen.meta
    BY <2>1, SeenType
  <2>4. AfterBranch(t, seen.meta) \in {"provider", "complete"}
    BY <2>3 DEF AfterBranch, AfterProvider
  <2> QED BY <1>k, <2>1, <2>2, <2>3, <2>4 DEF Becomes, HashOf
<1>10. CASE \/ MarkCompleted(w) \/ AnnounceCompleted(w) \/ MarkFailed(w)
            \/ AnnounceFailed(w) \/ DatabaseThrows(w) \/ Crash(w)
  BY <1>10, <1>e, <1>w, <1>r DEF RunEffects
<1> QED BY <1>1, <1>2, <1>3, <1>4, <1>5, <1>6, <1>7, <1>8, <1>9, <1>10
        DEF RunStep, WorkerStep

LEMMA HashStep == TypeInv /\ PlaceInv /\ HashInv /\ [Next]_vars => HashInv'
<1> SUFFICES ASSUME TypeInv, PlaceInv, HashInv, [Next]_vars
             PROVE  HashInv'
  OBVIOUS
<1>1. CASE Next
  <2>f. features' = features
    BY <1>1, EveryStep, Frames DEF RowFrame, RunFrame, HandlerFrame
  <2> SUFFICES ASSUME features \cap {"replicaReads", "noHash", "metadataEdits"} = {},
                      NEW v \in Workers
               PROVE  HashOf(worker'[v].pc, worker'[v].tx, worker'[v].snap, meta')
    BY <2>f DEF HashInv, HashOf
  <2>0. /\ "replicaReads" \notin features /\ "noHash" \notin features
        /\ "metadataEdits" \notin features
    OBVIOUS
  <2>1. \A w \in Workers : HashOf(worker[w].pc, worker[w].tx, worker[w].snap, meta)
    BY DEF HashInv
  <2>2. CASE worker'[v] = worker[v]
    <3>1. \A t \in Txns : "stellar" \in meta[t] => "stellar" \in meta'[t]
      BY <1>1, <2>0, <2>1, MetaMove DEF MetaMoves, HashOf
    <3>2. worker[v].pc # "idle" => worker[v].tx \in Txns
      BY DEF PlaceInv
    <3> QED BY <2>1, <2>2, <3>1, <3>2 DEF HashOf
  <2>3. ASSUME NEW w \in Workers, RunStep(w), v # w
        PROVE  worker'[v] = worker[v]
    BY <2>3, RunMove DEF RunMoves, Rests, Becomes
  <2>4. ASSUME RunStep(v)
        PROVE  HashOf(worker'[v].pc, worker'[v].tx, worker'[v].snap, meta')
    BY <2>0, <2>1, <2>4, RunHash DEF SendWithoutHash
  <2> QED BY <1>1, <2>2, <2>3, <2>4, EveryStep, Frames DEF RowFrame, HandlerFrame
<1>2. CASE UNCHANGED vars
  BY <1>2 DEF vars, HashInv, HashOf
<1> QED BY <1>1, <1>2

-----------------------------------------------------------------------------
\* The hold.

\* How a worker gets past the claim.
Enters(w) ==
    /\ worker[w].pc # "idle" /\ worker'[w].tx = worker[w].tx
    /\ \/ worker[w].pc \in PayPcs
       \/ /\ worker[w].pc = "claim"
          /\ status[worker[w].tx] = "pending" /\ status'[worker[w].tx] = "processing"
       \/ /\ worker[w].pc = "reread" /\ status' = status
          /\ \E seen \in findById(worker[w].tx) : seen.status \in {"none", "pending"}

LEMMA RunEntry ==
    ASSUME TypeInv, PlaceInv, NEW w \in Workers, RunStep(w), worker'[w].pc \in PayPcs
    PROVE  Enters(w)
<1> USE DEF TypeInv
<1>e. RunEffects(w)
  BY RunEffect
<1>t. worker[w].pc # "idle" => worker[w].tx \in Txns
  BY DEF PlaceInv
<1>i. {"stellar", "resend", "readMeta", "rereadMeta", "writeMeta", "rewriteMeta", "branch",
       "rereadBare", "rewriteBare", "provider", "patchMeta", "complete", "announce",
       "screen"} \subseteq PayPcs
  BY DEF PayPcs, PaidPcs
<1>o. "fail" \notin PayPcs /\ "announceFail" \notin PayPcs /\ "idle" \notin PayPcs
      /\ "claim" \notin PayPcs /\ "reread" \notin PayPcs /\ "ip" \notin PayPcs
  BY DEF PayPcs, PaidPcs
<1>r. ~Rests(w)
  BY <1>o DEF Rests, Becomes
<1>w. ASSUME NEW pc, Walks(w, pc), worker[w].pc \in PayPcs
      PROVE  Enters(w)
  BY <1>o, <1>w DEF Walks, Becomes, Enters
<1>x. ASSUME NEW pc, Walks(w, pc), pc \notin PayPcs
      PROVE  Enters(w)
  BY <1>x DEF Walks, Becomes
<1>1. CASE \E x \in Txns : TakeJob(w, x)
  BY <1>1, <1>o, TakeEffect DEF Becomes
<1>2. CASE CheckIp(w)
  BY <1>2, <1>e, <1>x, <1>o DEF RunEffects
<1>3. CASE RereadAfterFailedClaim(w)
  BY <1>3, <1>e, <1>r DEF RunEffects, Walks, Becomes, Enters, RereadAfterFailedClaim
<1>4. CASE claimForProcessing(w)
  <2>1. worker[w].pc = "claim" /\ worker[w].tx \in Txns
    BY <1>4, <1>t DEF claimForProcessing, At
  <2>2. CASE Walks(w, "screen") /\ status[worker[w].tx] = "pending"
             /\ status' = [status EXCEPT ![worker[w].tx] = "processing"]
    BY <2>1, <2>2 DEF Walks, Becomes, Enters, RowsType
  <2> QED BY <1>4, <1>o, <1>x, <2>2, ClaimEffect
<1>5. CASE \/ Screen(w) \/ SendStellar(w) \/ SendWithoutHash(w) \/ StellarRejected(w)
           \/ StellarTransient(w)
  BY <1>5, <1>e, <1>w, <1>r, <1>i DEF RunEffects
<1>6. CASE \/ UpdateMetadata(w) \/ CallProvider(w) \/ ProviderTransient(w)
           \/ ProviderFailsOver(w) \/ ProviderRejected(w)
  BY <1>6, <1>e, <1>w, <1>i DEF RunEffects
<1>7. CASE PatchMetadata(w) \/ MarkCompleted(w) \/ AnnounceCompleted(w)
  BY <1>7, <1>e, <1>w, <1>r, <1>i DEF RunEffects
<1>8. CASE ReadMetadata(w) \/ Branch(w)
  <2>1. worker[w].tx \in Txns /\ worker[w].pc \in PayPcs /\ worker[w].pc # "idle"
    BY <1>8, <1>t, <1>i DEF ReadMetadata, Branch, At
  <2>2. worker'[w].tx = worker[w].tx
    BY <1>8, <2>1, ReadMetadataEffect, BranchEffect DEF Becomes
  <2> QED BY <2>1, <2>2 DEF Enters
<1>9. CASE MarkFailed(w) \/ AnnounceFailed(w) \/ DatabaseThrows(w) \/ Crash(w)
  BY <1>9, <1>e, <1>x, <1>r, <1>o DEF RunEffects
<1> QED BY <1>1, <1>2, <1>3, <1>4, <1>5, <1>6, <1>7, <1>8, <1>9 DEF RunStep, WorkerStep

\* A worker's record changes only in a step of its own.
LEMMA OwnStep ==
    ASSUME TypeInv, PlaceInv, Next, NEW v \in Workers
    PROVE  worker'[v] = worker[v] \/ RunStep(v)
<1>1. ASSUME NEW w \in Workers, RunStep(w), v # w
      PROVE  worker'[v] = worker[v]
  BY <1>1, RunMove DEF RunMoves, Rests, Becomes
<1> QED BY <1>1, EveryStep, Frames DEF RowFrame, HandlerFrame

LEMMA HeldStep == TypeInv /\ PlaceInv /\ RowInv /\ HeldInv /\ [Next]_vars => HeldInv'
<1> SUFFICES ASSUME TypeInv, PlaceInv, RowInv, HeldInv, [Next]_vars
             PROVE  HeldInv'
  OBVIOUS
<1>1. CASE Next
  <2>f. features' = features
    BY <1>1, EveryStep, Frames DEF RowFrame, RunFrame, HandlerFrame
  <2> SUFFICES ASSUME features \cap {"replicaReads", "retryBatch"} = {}
               PROVE  /\ \A t \in Txns : InWork(t)' \/ status'[t] = "pending_review"
                                            => Checked(t)'
                      /\ \A w \in Workers : worker'[w].pc \in PayPcs
                                            => status'[worker'[w].tx] # "pending_review"
    BY <2>f DEF HeldInv
  <2>0. /\ "replicaReads" \notin features /\ "retryBatch" \notin features
        /\ \A t \in Txns : InWork(t) \/ status[t] = "pending_review" => Checked(t)
        /\ \A w \in Workers : worker[w].pc \in PayPcs
                                 => status[worker[w].tx] # "pending_review"
    BY DEF HeldInv
  <2>1. ASSUME NEW t \in Txns
        PROVE  StatusMoves(t) /\ IntakeMoves(t)
    BY <1>1, StatusMove, IntakeMove
  <2>2. ASSUME NEW t \in Txns, Checked(t)
        PROVE  Checked(t)'
    BY <2>1, <2>2 DEF IntakeMoves, Checked
  <2>3. ASSUME NEW t \in Txns, status'[t] = "pending_review"
        PROVE  /\ Checked(t)'
               /\ status[t] = "pending_review" \/ ~Checked(t)
    BY <2>0, <2>1, <2>2, <2>3 DEF StatusMoves, Checked, Written
  <2>4. ASSUME NEW t \in Txns, InWork(t)'
        PROVE  Checked(t)'
    <3>1. InWork(t) \/ Wanted(t)
      BY <1>1, <2>4, WorkGrows
    <3>2. Checked(t)
      BY <2>0, <3>1 DEF Wanted, PlaceInv, Checked
    <3> QED BY <2>2, <3>2
  <2>5. ASSUME NEW w \in Workers, worker'[w].pc \in PayPcs
        PROVE  status'[worker'[w].tx] # "pending_review"
    <3>1. "idle" \notin PayPcs
      BY DEF PayPcs, PaidPcs
    <3>2. worker'[w] = worker[w] \/ Enters(w)
      BY <1>1, <2>5, OwnStep, RunEntry
    <3>3. worker'[w].tx = worker[w].tx /\ worker[w].pc # "idle"
      BY <2>5, <3>1, <3>2 DEF Enters
    <3>4. worker[w].tx \in Txns /\ Checked(worker[w].tx)
      BY <2>0, <3>3 DEF PlaceInv, InWork
    <3>5. CASE worker[w].pc \in PayPcs
      BY <2>0, <2>3, <3>3, <3>4, <3>5
    <3>6. CASE worker[w].pc = "claim" /\ status'[worker[w].tx] = "processing"
      BY <3>3, <3>6
    <3>7. CASE status' = status /\ status[worker[w].tx] \in {"none", "pending"}
      BY <3>3, <3>7
    <3>8. \A seen \in findById(worker[w].tx) : seen.status = status[worker[w].tx]
      BY <2>0, <3>4, SeenType DEF TypeInv
    <3> QED BY <2>5, <3>2, <3>5, <3>6, <3>7, <3>8 DEF Enters
  <2> QED BY <2>3, <2>4, <2>5
<1>2. CASE UNCHANGED vars
  BY <1>2 DEF vars, HeldInv, InWork, Checked
<1> QED BY <1>1, <1>2

-----------------------------------------------------------------------------
\* The claim.

\* Where a worker that is still to pay comes from.
LEMMA RunSource ==
    ASSUME TypeInv, PlaceInv, NEW w \in Workers, RunStep(w)
    PROVE  /\ worker'[w].pc = "reread" =>
                 /\ worker[w].pc = "claim" /\ worker'[w].tx = worker[w].tx
                 /\ status' = status /\ status[worker[w].tx] # "pending"
           /\ worker'[w].pc \in {"screen", "stellar"} =>
                 worker[w].pc \in {"claim", "reread", "screen", "stellar"}
           /\ worker'[w].pc \in {"readMeta", "writeMeta", "branch", "provider"} =>
                 worker[w].pc \in {"stellar", "readMeta", "writeMeta", "branch", "provider"}
<1> DEFINE Goal ==
        /\ worker'[w].pc = "reread" =>
              /\ worker[w].pc = "claim" /\ worker'[w].tx = worker[w].tx
              /\ status' = status /\ status[worker[w].tx] # "pending"
        /\ worker'[w].pc \in {"screen", "stellar"} =>
              worker[w].pc \in {"claim", "reread", "screen", "stellar"}
        /\ worker'[w].pc \in {"readMeta", "writeMeta", "branch", "provider"} =>
              worker[w].pc \in {"stellar", "readMeta", "writeMeta", "branch", "provider"}
<1> USE DEF TypeInv
<1>e. RunEffects(w)
  BY RunEffect
<1>t. worker[w].pc # "idle" => worker[w].tx \in Txns
  BY DEF PlaceInv
<1>r. ASSUME Rests(w)
      PROVE  Goal
  BY <1>r DEF Rests, Becomes
<1>1. CASE \E x \in Txns : TakeJob(w, x)
  BY <1>1, TakeEffect DEF Becomes
<1>2. CASE CheckIp(w) \/ RereadAfterFailedClaim(w) \/ Screen(w)
  <2>1. CASE Rests(w)
    BY <1>r, <2>1
  <2> QED BY <1>2, <1>e, <2>1 DEF RunEffects, Walks, Becomes
<1>3. CASE claimForProcessing(w)
  BY <1>3, ClaimEffect DEF claimForProcessing, At, Walks, Becomes
<1>4. CASE SendStellar(w) \/ SendWithoutHash(w) \/ StellarRejected(w) \/ StellarTransient(w)
  <2>1. CASE Rests(w)
    BY <1>r, <2>1
  <2> QED BY <1>4, <1>e, <2>1 DEF RunEffects, Walks, Becomes
<1>5. CASE \/ UpdateMetadata(w) \/ CallProvider(w) \/ ProviderTransient(w)
           \/ ProviderFailsOver(w) \/ ProviderRejected(w)
  BY <1>5, <1>e DEF RunEffects, Walks, Becomes
<1>6. CASE PatchMetadata(w)
  BY <1>6, <1>e DEF RunEffects, Walks, Becomes, AfterProvider
<1>7. CASE ReadMetadata(w)
  <2>1. worker[w].tx \in Txns /\ worker[w].pc \in {"readMeta", "rereadMeta", "rereadBare"}
    BY <1>7, <1>t DEF ReadMetadata
  <2> QED BY <1>7, <2>1, ReadMetadataEffect DEF Becomes, WriteBack
<1>8. CASE Branch(w)
  <2>1. worker[w].tx \in Txns /\ worker[w].pc = "branch"
    BY <1>8, <1>t DEF Branch, At
  <2> QED BY <1>8, <2>1, BranchEffect DEF Becomes, AfterBranch, AfterProvider
<1>9. CASE \/ MarkCompleted(w) \/ AnnounceCompleted(w) \/ MarkFailed(w)
           \/ AnnounceFailed(w) \/ DatabaseThrows(w) \/ Crash(w)
  <2>1. CASE Rests(w)
    BY <1>r, <2>1
  <2> QED BY <1>9, <1>e, <2>1 DEF RunEffects, Walks, Becomes
<1> QED BY <1>1, <1>2, <1>3, <1>4, <1>5, <1>6, <1>7, <1>8, <1>9 DEF RunStep, WorkerStep

\* The two payments of a transaction, for which no call errs after its effect.
PayMoves(t) ==
    \/ stellar'[t] = stellar[t] /\ momo'[t] = momo[t]
    \/ t \in unsure'
    \/ \E x \in Workers :
          /\ worker[x].tx = t /\ worker'[x].tx = t
          /\ \/ /\ worker[x].pc \in {"stellar", "resend"}
                /\ worker'[x].pc \in {"readMeta", "rereadMeta"}
                /\ worker[x].pc = "stellar" <=> worker'[x].pc = "readMeta"
                /\ momo'[t] = momo[t] /\ (stellar[t] = 0 => stellar'[t] = 1)
             \/ /\ worker[x].pc = "provider" /\ worker'[x].pc \in {"patchMeta", "complete"}
                /\ stellar'[t] = stellar[t] /\ (momo[t] = 0 => momo'[t] = 1)

LEMMA PayMove ==
    ASSUME TypeInv, PlaceInv, Next
    PROVE  unsure \subseteq unsure' /\ \A t \in Txns : PayMoves(t)
<1> DEFINE Goal == unsure \subseteq unsure' /\ \A t \in Txns : PayMoves(t)
<1>q. ASSUME stellar' = stellar, momo' = momo, unsure' = unsure
      PROVE  Goal
  BY <1>q DEF PayMoves
<1>1. ASSUME NEW t \in Txns, RowStep(t)
      PROVE  stellar' = stellar /\ momo' = momo /\ unsure' = unsure
  BY <1>1, Frames DEF RowFrame
<1>2. ASSUME NEW r \in Requests, HandlerStep(r)
      PROVE  stellar' = stellar /\ momo' = momo /\ unsure' = unsure
  BY <1>2, Frames DEF HandlerFrame
<1>3. ASSUME NEW w \in Workers, RunStep(w)
      PROVE  Goal
  <2> USE DEF TypeInv
  <2>e. RunEffects(w)
    BY RunEffect
  <2>t. worker[w].pc # "idle" => worker[w].tx \in Txns
    BY DEF PlaceInv
  <2>1. CASE SendStellar(w)
    <3>1. stellar' = Count(stellar, worker[w].tx) /\ UNCHANGED <<momo, unsure>>
      BY <2>1 DEF SendStellar
    <3>2. worker[w].tx \in Txns /\ worker'[w].tx = worker[w].tx
          /\ \/ worker[w].pc = "stellar" /\ worker'[w].pc = "readMeta"
             \/ worker[w].pc = "resend" /\ worker'[w].pc = "rereadMeta"
      BY <2>1, <2>e, <2>t DEF RunEffects, Walks, Becomes
    <3> QED BY <3>1, <3>2, CountEffect DEF PayMoves, QueueType
  <2>2. CASE CallProvider(w)
    <3>1. momo' = Count(momo, worker[w].tx) /\ UNCHANGED <<stellar, unsure>>
      BY <2>2 DEF CallProvider
    <3>2. worker[w].tx \in Txns /\ worker'[w].tx = worker[w].tx
          /\ worker[w].pc = "provider" /\ worker'[w].pc \in {"patchMeta", "complete"}
      BY <2>2, <2>e, <2>t DEF RunEffects, Walks, Becomes
    <3> QED BY <3>1, <3>2, CountEffect DEF PayMoves, QueueType
  <2>3. CASE \/ StellarTransient(w) \/ SendWithoutHash(w) \/ ProviderTransient(w)
             \/ ProviderFailsOver(w)
    <3> USE DEF StellarTransient, SendWithoutHash, ProviderTransient, ProviderFailsOver
    <3>0. worker[w].tx \in Txns
      BY <2>3, <2>e, <2>t DEF RunEffects
    <3>1. CASE UNCHANGED <<stellar, momo, unsure>>
      BY <1>q, <3>1
    <3>2. CASE unsure' = unsure \cup {worker[w].tx}
      <4>1. \A o \in Txns : o # worker[w].tx => stellar'[o] = stellar[o] /\ momo'[o] = momo[o]
        BY <2>3, <3>0, CountEffect DEF QueueType
      <4> QED BY <3>2, <4>1 DEF PayMoves
    <3> QED BY <2>3, <3>1, <3>2
  <2> QED BY <1>q, <1>3, <2>1, <2>2, <2>3
          DEF RunStep, WorkerStep, TakeJob, CheckIp, claimForProcessing,
              RereadAfterFailedClaim, Screen, StellarRejected, ReadMetadata,
              UpdateMetadata, Branch, ProviderRejected, PatchMetadata,
              MarkCompleted, AnnounceCompleted, MarkFailed, AnnounceFailed,
              DatabaseThrows, Crash
<1> QED BY <1>q, <1>1, <1>2, <1>3, EveryStep

LEMMA ClaimStep ==
    /\ TypeInv /\ PlaceInv /\ RowInv /\ HashInv /\ HeldInv /\ ClaimInv /\ [Next]_vars
    => ClaimInv'
<1> SUFFICES ASSUME TypeInv, PlaceInv, RowInv, HashInv, HeldInv, ClaimInv, [Next]_vars
             PROVE  ClaimInv'
  OBVIOUS
<1>1. CASE Next
  <2>f. features' = features
    BY <1>1, EveryStep, Frames DEF RowFrame, RunFrame, HandlerFrame
  <2> SUFFICES ASSUME Ordinary, NEW t \in Txns
               PROVE  ClaimOf(t)'
    BY <2>f DEF ClaimInv, Ordinary
  <2>0. /\ "replicaReads" \notin features /\ "retryBatch" \notin features
        /\ "alertThrows" \notin features /\ "metadataEdits" \notin features
    BY DEF Ordinary
  <2>1. ClaimOf(t)
    BY DEF ClaimInv
  <2>2. StatusMoves(t) /\ IntakeMoves(t) /\ PayMoves(t)
    BY <1>1, StatusMove, IntakeMove, PayMove
  <2>3. InWork(t) \/ status[t] = "pending_review" => Checked(t)
    BY <2>0 DEF HeldInv
  <2>4. /\ intake'[t] = "new" <=> status'[t] = "none"
        /\ intake[t] = "new" <=> status[t] = "none"
    BY RowStepInv DEF RowInv
  <2>5. ~Open(t) => ~Open(t)'
    BY <2>0, <2>2, <2>4 DEF StatusMoves, Open, Written
  <2>a. status'[t] = "pending_review" => intake'[t] = "held"
    BY <2>0, <2>1, <2>2 DEF ClaimOf, StatusMoves, IntakeMoves, Written
  <2>b. InWork(t)' \/ intake'[t] = "clear" => status'[t] # "pending_review"
    <3>1. ASSUME InWork(t)', status'[t] = "pending_review"
          PROVE  FALSE
      <4>1. InWork(t) \/ Wanted(t)
        BY <1>1, <3>1, WorkGrows
      <4>2. InWork(t) \/ intake[t] = "clear"
        BY <2>0, <3>1, <4>1 DEF Wanted, PlaceInv
      <4>3. status[t] # "pending_review" /\ intake[t] # "verified"
        BY <2>1, <2>3, <4>2 DEF ClaimOf, Checked
      <4> QED BY <2>0, <2>2, <3>1, <4>3 DEF StatusMoves, Written
    <3>2. ASSUME intake'[t] = "clear", status'[t] = "pending_review"
          PROVE  FALSE
      BY <2>a, <3>2
    <3> QED BY <3>1, <3>2
  <2>6. ASSUME NEW w \in Workers, worker'[w].pc \in PayPcs, worker'[w].tx = t
        PROVE  /\ worker[w].tx = t /\ worker[w].pc # "idle"
               /\ \/ worker[w].pc \in PayPcs /\ ~Open(t)
                  \/ /\ worker[w].pc = "claim" /\ Open(t) /\ status'[t] = "processing"
                     /\ worker'[w] # worker[w]
    <3>1. "idle" \notin PayPcs /\ "claim" \notin PayPcs
      BY DEF PayPcs, PaidPcs
    <3>2. worker'[w] = worker[w] \/ Enters(w)
      BY <1>1, <2>6, OwnStep, RunEntry
    <3>3. worker[w].tx = t /\ worker[w].pc # "idle"
      BY <2>6, <3>1, <3>2 DEF Enters
    <3>4. worker[w].pc \in {"reread"} \cup PayPcs => ~Open(t)
      BY <2>1, <3>3 DEF ClaimOf
    <3>5. \A seen \in findById(t) : seen.status = status[t]
      BY <2>0, SeenType DEF TypeInv
    <3>6. CASE worker'[w] = worker[w]
      BY <2>6, <3>3, <3>4, <3>6
    <3>7. CASE Enters(w)
      <4>1. CASE worker[w].pc \in PayPcs
        BY <3>3, <3>4, <4>1
      <4>2. CASE worker[w].pc = "claim" /\ status[t] = "pending" /\ status'[t] = "processing"
        BY <2>6, <3>1, <3>3, <4>2 DEF Open
      <4>3. CASE worker[w].pc = "reread" /\ status[t] \in {"none", "pending"}
        BY <3>4, <4>3 DEF Open
      <4> QED BY <3>3, <3>5, <3>7, <4>1, <4>2, <4>3 DEF Enters
    <3> QED BY <3>2, <3>6, <3>7
  <2>c. ASSUME NEW w \in Workers, worker'[w].pc \in {"reread"} \cup PayPcs,
               worker'[w].tx = t
        PROVE  ~Open(t)'
    <3>1. CASE worker'[w].pc \in PayPcs
      BY <2>c, <2>5, <2>6, <3>1 DEF Open
    <3>2. CASE worker'[w].pc = "reread"
      <4>1. CASE worker'[w] = worker[w]
        BY <2>1, <2>5, <2>c, <3>2, <4>1 DEF ClaimOf
      <4>2. CASE RunStep(w)
        <5>1. /\ worker[w].pc = "claim" /\ worker[w].tx = t
              /\ status'[t] = status[t] /\ status[t] # "pending"
          BY <2>c, <3>2, <4>2, RunSource
        <5>2. InWork(t)
          BY <5>1 DEF InWork
        <5>3. status[t] # "none" /\ status[t] # "pending_review"
          BY <2>1, <5>2 DEF RowInv, ClaimOf
        <5> QED BY <5>1, <5>3 DEF Open
      <4> QED BY <1>1, <4>1, <4>2, OwnStep
    <3> QED BY <2>c, <3>1, <3>2
  <2>d. ASSUME NEW v \in Workers, NEW w \in Workers,
               worker'[v].pc \in PayPcs, worker'[v].tx = t,
               worker'[w].pc \in PayPcs, worker'[w].tx = t
        PROVE  v = w
    <3>1. CASE worker[v].pc \in PayPcs /\ worker[w].pc \in PayPcs
      BY <2>1, <2>6, <2>d, <3>1 DEF ClaimOf
    <3>2. CASE worker'[v] # worker[v] /\ worker'[w] # worker[w]
      BY <1>1, <3>2, EveryStep, Frames, RunMove
         DEF RowFrame, HandlerFrame, RunMoves, Rests, Becomes
    <3> QED BY <2>6, <2>d, <3>1, <3>2
  <2>7. ASSUME NEW w \in Workers, worker'[w].tx = t,
               worker'[w].pc \in {"screen", "stellar"}, Open(t) => Unpaid(t),
               worker[w].tx = t /\ worker[w].pc \in {"screen", "stellar"} => Unpaid(t)
        PROVE  Unpaid(t)
    <3>1. worker'[w].pc \in PayPcs /\ "reread" \notin PayPcs
      BY <2>7 DEF PayPcs, PaidPcs
    <3>2. worker'[w] = worker[w] \/ worker[w].pc \in {"claim", "reread", "screen", "stellar"}
      BY <1>1, <2>7, OwnStep, RunSource
    <3>3. /\ worker[w].tx = t
          /\ worker[w].pc \in PayPcs \/ Open(t)
      BY <2>6, <2>7, <3>1
    <3>4. CASE Open(t)
      BY <2>7, <3>4
    <3>5. CASE worker[w].pc \in PayPcs /\ ~Open(t)
      <4>1. worker[w].pc \in {"screen", "stellar"}
        BY <2>7, <3>1, <3>2, <3>5 DEF PayPcs, PaidPcs
      <4> QED BY <2>7, <3>3, <4>1
    <3> QED BY <3>3, <3>4, <3>5
  <2>h. ASSUME t \notin unsure', stellar'[t] > 0, NEW w \in Workers, worker'[w].tx = t
        PROVE  HashOf(worker'[w].pc, t, worker'[w].snap, meta')
    <3>1. /\ \A v \in Workers : worker[v].tx = t =>
                /\ worker[v].pc \in {"screen", "stellar"} => Unpaid(t)
                /\ stellar[t] > 0 => HashOf(worker[v].pc, t, worker[v].snap, meta)
          /\ stellar[t] \in Nat
      BY <1>1, <2>1, <2>h, PayMove DEF ClaimOf, TypeInv, QueueType
    <3>2. CASE worker'[w].pc \notin PayPcs
      BY <3>2 DEF HashOf, PayPcs, PaidPcs
    <3>3. CASE worker'[w].pc \in PayPcs /\ stellar[t] = 0
      <4>1. PICK x \in Workers : worker'[x].tx = t /\ worker'[x].pc \in {"readMeta", "rereadMeta"}
        BY <2>2, <2>h, <3>3 DEF PayMoves
      <4>2. x = w
        BY <2>d, <2>h, <3>3, <4>1 DEF PayPcs, PaidPcs
      <4> QED BY <4>1, <4>2 DEF HashOf
    <3>4. CASE worker'[w].pc \in PayPcs /\ stellar[t] > 0
      <4>1. worker[w].tx = t /\ worker[w].pc # "idle"
        BY <2>6, <2>h, <3>4
      <4>2. HashOf(worker[w].pc, t, worker[w].snap, meta) /\ worker[w].pc # "stellar"
        BY <3>1, <3>4, <4>1 DEF Unpaid
      <4>3. CASE RunStep(w)
        <5>1. ~SendWithoutHash(w)
          BY <4>2 DEF SendWithoutHash, HashOf
        <5> QED BY <2>0, <2>h, <4>1, <4>2, <4>3, <5>1, RunHash
      <4>4. CASE worker'[w] = worker[w]
        <5>1. worker[w].pc \in PayPcs
          BY <3>4, <4>4
        <5>2. \A x \in Workers : worker[x].pc = "rewriteBare" => worker[x].tx # t
          BY <2>1, <4>1, <4>2, <5>1 DEF ClaimOf, HashOf, PayPcs, PaidPcs
        <5>3. "stellar" \in meta[t] => "stellar" \in meta'[t]
          BY <1>1, <2>0, <5>2, MetaMove DEF MetaMoves
        <5> QED BY <4>2, <4>4, <5>3 DEF HashOf
      <4> QED BY <1>1, <4>3, <4>4, OwnStep
    <3> QED BY <3>1, <3>2, <3>3, <3>4
  <2>e. ASSUME t \notin unsure'
        PROVE  /\ stellar'[t] <= 1 /\ momo'[t] <= 1
               /\ Open(t)' => Unpaid(t)'
               /\ \A w \in Workers : worker'[w].tx = t =>
                     /\ worker'[w].pc \in {"screen", "stellar"} => Unpaid(t)'
                     /\ worker'[w].pc \in {"readMeta", "writeMeta", "branch", "provider"}
                           => momo'[t] = 0
                     /\ stellar'[t] > 0 => HashOf(worker'[w].pc, t, worker'[w].snap, meta')
    <3>1. /\ stellar[t] <= 1 /\ momo[t] <= 1
          /\ Open(t) => Unpaid(t)
          /\ \A w \in Workers : worker[w].tx = t =>
                /\ worker[w].pc \in {"screen", "stellar"} => Unpaid(t)
                /\ worker[w].pc \in {"readMeta", "writeMeta", "branch", "provider"}
                      => momo[t] = 0
                /\ stellar[t] > 0 => HashOf(worker[w].pc, t, worker[w].snap, meta)
      BY <1>1, <2>1, <2>e, PayMove DEF ClaimOf
    <3>2. {"screen", "stellar", "readMeta", "writeMeta", "branch", "provider", "patchMeta",
           "complete", "rereadMeta", "resend", "rereadBare", "rewriteBare"} \subseteq PayPcs
      BY DEF PayPcs, PaidPcs
    <3>3. CASE stellar'[t] = stellar[t] /\ momo'[t] = momo[t]
      <4>1. Open(t)' => Unpaid(t)'
        BY <2>5, <3>1, <3>3 DEF Unpaid
      <4>2. ASSUME NEW w \in Workers, worker'[w].tx = t,
                   worker'[w].pc \in {"screen", "stellar"}
            PROVE  Unpaid(t)'
        BY <2>7, <3>1, <3>3, <4>2 DEF Unpaid
      <4>3. ASSUME NEW w \in Workers, worker'[w].tx = t,
                   worker'[w].pc \in {"readMeta", "writeMeta", "branch", "provider"}
            PROVE  momo'[t] = 0
        <5>1. worker[w].tx = t
          BY <2>6, <3>2, <4>3
        <5>2. \/ worker'[w] = worker[w]
              \/ worker[w].pc \in {"stellar", "readMeta", "writeMeta", "branch", "provider"}
          BY <1>1, <4>3, OwnStep, RunSource
        <5> QED BY <3>1, <3>3, <4>3, <5>1, <5>2 DEF Unpaid
      <4> QED BY <2>e, <2>h, <3>1, <3>3, <4>1, <4>2, <4>3
    <3>4. ASSUME NEW x \in Workers, worker[x].tx = t, worker'[x].tx = t,
                 worker[x].pc \in {"stellar", "resend"},
                 worker'[x].pc \in {"readMeta", "rereadMeta"},
                 worker[x].pc = "stellar" <=> worker'[x].pc = "readMeta",
                 momo'[t] = momo[t], stellar[t] = 0 => stellar'[t] = 1
          PROVE  /\ stellar'[t] = 1 /\ momo'[t] <= 1 /\ ~Open(t)'
                 /\ worker'[x].pc = "readMeta" => momo'[t] = 0
      <4>1. CASE worker[x].pc = "stellar"
        BY <2>c, <3>1, <3>2, <3>4, <4>1 DEF Unpaid
      <4>2. CASE worker[x].pc = "resend"
        <5>1. ~(stellar[t] > 0) /\ stellar[t] \in Nat
          BY <3>1, <3>4, <4>2 DEF HashOf, TypeInv, QueueType
        <5> QED BY <2>c, <3>1, <3>2, <3>4, <4>2, <5>1
      <4> QED BY <3>4, <4>1, <4>2
    <3>5. ASSUME NEW x \in Workers, worker[x].tx = t, worker'[x].tx = t,
                 worker[x].pc = "provider", worker'[x].pc \in {"patchMeta", "complete"},
                 stellar'[t] = stellar[t], momo[t] = 0 => momo'[t] = 1
          PROVE  momo'[t] = 1 /\ stellar'[t] <= 1 /\ ~Open(t)'
      BY <2>c, <3>1, <3>2, <3>5
    <3>6. ASSUME NEW x \in Workers, worker'[x].tx = t, stellar'[t] <= 1, momo'[t] <= 1,
                 ~Open(t)', worker'[x].pc \in {"readMeta", "rereadMeta", "patchMeta", "complete"},
                 worker'[x].pc = "readMeta" => momo'[t] = 0,
                 NEW w \in Workers, worker'[w].tx = t, worker'[w].pc \in PayPcs
          PROVE  w = x
      BY <2>d, <3>2, <3>6
    <3>7. CASE \E x \in Workers :
                  /\ worker'[x].tx = t /\ stellar'[t] <= 1 /\ momo'[t] <= 1 /\ ~Open(t)'
                  /\ worker'[x].pc \in {"readMeta", "rereadMeta", "patchMeta", "complete"}
                  /\ worker'[x].pc = "readMeta" => momo'[t] = 0
      BY <2>e, <2>h, <3>2, <3>6, <3>7
    <3> QED BY <2>2, <2>e, <3>3, <3>4, <3>5, <3>7 DEF PayMoves
  <2> QED BY <2>a, <2>b, <2>c, <2>d, <2>e DEF ClaimOf
<1>2. CASE UNCHANGED vars
  BY <1>2 DEF vars, ClaimInv, ClaimOf, Ordinary, InWork, Open, Unpaid, HashOf
<1> QED BY <1>1, <1>2

-----------------------------------------------------------------------------
\* The theorems.

LEMMA InitInv == Init => IInv
<1> SUFFICES ASSUME Init
             PROVE  IInv
  OBVIOUS
<1>1. TypeInv
  <2>1. RowsType
    <3>1. "none" \in Statuses \cup {"none"} /\ "new" \in Intakes
      BY DEF Intakes
    <3> QED BY <3>1 DEF Init, RowsType, MetaKeys
  <2>2. QueueType
    BY WorkerBoundsAssumption DEF Init, QueueType
  <2>3. ActorsType
    BY IdleType DEF Init, ActorsType
  <2> QED BY <2>1, <2>2, <2>3 DEF TypeInv
<1>2. /\ \A t \in Txns : /\ status[t] = "none" /\ intake[t] = "new" /\ jobs[t] = 0
                         /\ meta[t] = {} /\ events[t] = {} /\ stellar[t] = 0 /\ momo[t] = 0
                         /\ replica[t].status = "none" /\ replica[t].meta = {}
      /\ released = {} /\ known = {}
      /\ \A w \in Workers : worker[w].pc = "idle" /\ worker[w].snap = {}
      /\ \A r \in Requests : request[r].kind = "none" /\ request[r].answer = "none"
  BY DEF Init, IdleWorker, IdleRequest
<1>3. \A t \in Txns : ~InWork(t)
  BY <1>2 DEF InWork
<1>4. PlaceInv /\ RowInv
  BY <1>2, <1>3 DEF PlaceInv, RowInv
<1>5. MoneyInv
  BY <1>2 DEF MoneyInv, MoneyFacts
<1>6. HashInv
  BY <1>2 DEF HashInv, HashOf
<1>7. HeldInv
  BY <1>2, <1>3 DEF HeldInv, PayPcs, PaidPcs
<1>8. ClaimInv
  BY <1>2, <1>3 DEF ClaimInv, ClaimOf, PayPcs, PaidPcs, Unpaid
<1> QED BY <1>1, <1>4, <1>5, <1>6, <1>7, <1>8 DEF IInv

LEMMA NextInv == IInv /\ [Next]_vars => IInv'
<1> SUFFICES ASSUME IInv, [Next]_vars
             PROVE  IInv'
  OBVIOUS
<1>1. TypeInv'
  BY RowsStep, QueueStep, ActorsStep DEF IInv, TypeInv
<1>2. PlaceInv' /\ RowInv' /\ MoneyInv'
  BY PlaceStep, RowStepInv, MoneyStep DEF IInv
<1>3. HashInv' /\ HeldInv' /\ ClaimInv'
  BY HashStep, HeldStep, ClaimStep DEF IInv
<1> QED BY <1>1, <1>2, <1>3 DEF IInv

LEMMA Invariance == Spec => []IInv
  BY InitInv, NextInv, PTL DEF Spec

\* Every variable of the worker's model stays in its range: in particular
\* withRetry never counts beyond maxAttempts and no job count goes negative.
THEOREM TypeCorrect == Spec => []TypeOK
<1>1. IInv => TypeOK
  BY DEF IInv, TypeInv, RowsType, QueueType, ActorsType, WorkerType, RequestType, MetaKeys,
         TypeOK
<1> QED BY <1>1, Invariance, PTL

\* claimForProcessing is enough: however often the job of a transaction is
\* delivered, in however many workers, with crashes, cancels, timeouts, refunds and
\* watchdogs in between, its Stellar payment and its mobile-money operation are
\* made at most once, unless a call errs after it took effect.
THEOREM PaidOnlyOnce == Spec => []PaidOnce
<1>1. IInv => PaidOnce
  BY DEF IInv, ClaimInv, ClaimOf, PaidOnce
<1> QED BY <1>1, Invariance, PTL

\* When the first answers have hashes, reads go to the primary and no client edits
\* the metadata, no worker reaches the second sendPayment of the deposit branch,
\* whatever concurrent read-modify-writes of the workers do to the metadata.
THEOREM NeverSentAgain == Spec => []NoSecondSend
<1>1. IInv => NoSecondSend
  BY DEF IInv, HashInv, HashOf, NoSecondSend
<1> QED BY <1>1, Invariance, PTL

\* No worker is about to pay a row that the velocity check holds, also when the
\* failed alert lets the request enqueue it, as long as the reread goes to the
\* primary and nobody runs retry-batch.
THEOREM HoldKept == Spec => []HoldKeptOnPrimary
<1>1. IInv => HoldKeptOnPrimary
  BY DEF IInv, HeldInv, HoldKeptOnPrimary, HeldIsNotPaid, PayPcs, PaidPcs
<1> QED BY <1>1, Invariance, PTL

\* A completed transaction, and one whose completion was announced, has had its
\* collection or payout accepted by a provider's adapter, in every scenario without
\* an administrator's refund and without clients that write the metadata.
THEOREM CompletedIsAccepted == Spec => []CompletedMeansAccepted
<1>1. IInv => CompletedMeansAccepted
  BY DEF IInv, MoneyInv, MoneyFacts, Collected, CompletedMeansAccepted
<1> QED BY <1>1, Invariance, PTL

\* The status table keeps completed and cancelled rows what they are, whichever
\* writer comes late; only retry-batch, which goes around the table, takes them back.
THEOREM FinalStays == Spec => FinalStatusStays
<1>1. ASSUME IInv, [Next]_vars
      PROVE  [\A t \in Txns : /\ status[t] \in {"completed", "cancelled"}
                              /\ "retryBatch" \notin features
                              => status'[t] = status[t]]_vars
  <2>1. CASE UNCHANGED vars
    BY <2>1 DEF vars
  <2>2. ASSUME Next, NEW t \in Txns, status[t] \in {"completed", "cancelled"},
               "retryBatch" \notin features
        PROVE  status'[t] = status[t]
    <3>1. StatusMoves(t)
      BY <1>1, <2>2, StatusMove DEF IInv
    <3> QED BY <1>1, <2>2, <3>1 DEF StatusMoves, IInv, RowInv
  <2> QED BY <1>1, <2>1, <2>2
<1> QED BY <1>1, Invariance, PTL DEF Spec, FinalStatusStays
=============================================================================
