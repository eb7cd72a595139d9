------------------------- MODULE PayoutRefundProofs -------------------------
(***************************************************************************)
(* Proofs about PayoutRefund, for any sets of withdrawals, deliveries and  *)
(* batch calls, any number of refund attempts and any number of faults.    *)
(*                                                                         *)
(* The three properties follow from one inductive invariant, IInv.  Its    *)
(* heart is SoleHolder: a withdrawal that met none of the four causes of a *)
(* second payout is held by one payer at most, its status says which kind  *)
(* of payer that is, and a holder that still finds it failed was overruled.*)
(* That is what makes a paid row traceable (Traced) to the payer that has  *)
(* still to write the payout down or to the status it wrote, and an        *)
(* accepted payout the only one (Unsent).                                  *)
(***************************************************************************)
EXTENDS PayoutRefund, TLAPS

----------------------------------------------------------------------------
\* The inductive invariant.

RowsType ==
    /\ status \in [Txns -> Statuses]
    /\ refund \in [Txns -> RefundMarks]
    /\ claim \in [Deliveries -> {"queued", "refused", "claimed", "paid", "over"}]
    /\ late \in [Txns -> {"none", "pay", "record"}]
    /\ paid \in [Txns -> 0..2]
    /\ refunded \in [Txns -> 0..2]

CallsType ==
    /\ batch \in [Batches -> BatchType]
    /\ job \in [Txns -> JobType]
    /\ \A t \in Txns : job[t].pc \notin {"finished", "exhausted"}
                         => job[t].attempts < MaxAttempts

NotesType == mishaps \subseteq Causes \X Txns /\ faults \in 0..MaxFaults

TypeInv == RowsType /\ CallsType /\ NotesType

\* A call that has not fetched holds no row.
IdleInv == \A b \in Batches : batch[b].pc = "idle" => batch[b].todo = {}

Clean(t) == ~Befell({"raced", "unrecorded", "unheard", "behind"}, t)

\* One payer at most, and the status tells which.
SoleHolder(t) ==
    /\ \A b \in Batches : InBatch(b, t) =>
          /\ status[t] # "processing"
          /\ \A c \in Batches : InBatch(c, t) => c = b
          /\ \A d \in Deliveries : ~Holds(d, t)
    /\ \A d \in Deliveries : Holds(d, t) =>
          /\ status[t] # "pending"
          /\ \A e \in Deliveries : Holds(e, t) => e = d
    /\ Held(t) /\ status[t] = "failed" => Befell({"overruled"}, t)

\* A run that was refused finds a row that is not pending.
Refused(t) ==
    \A d \in Deliveries : RowOf[d] = t /\ claim[d] = "refused" => status[t] # "pending"

\* A payer that has still to pay is the first one.
Unsent(t) ==
    /\ \A b \in Batches : InBatch(b, t) /\ batch[b].pc # "record" => paid[t] = 0
    /\ \A d \in Deliveries : RowOf[d] = t /\ claim[d] = "claimed" => paid[t] = 0

\* Where the payout of a paid row stands.
Traced(t) ==
    \/ \E d \in Deliveries : RowOf[d] = t /\ claim[d] = "paid"
    \/ \E b \in Batches : /\ batch[b].pc = "record" /\ t \in batch[b].todo
                          /\ WasPaid(b, t)
    \/ status[t] = "completed"
    \/ status[t] = "failed" /\ Befell({"lost", "overruled"}, t)

PaymentOf(t) ==
    /\ SoleHolder(t)
    /\ Refused(t)
    /\ Unsent(t)
    /\ paid[t] \in {0, 1}
    /\ paid[t] = 1 => Traced(t)

PaymentInv == \A t \in Txns : Clean(t) => PaymentOf(t)

\* Only failed rows have a refund job, and stay failed once they had one.
FailedInv ==
    \A t \in Txns : job[t].pc # "none" \/ late[t] # "none" \/ refunded[t] > 0
                      => status[t] = "failed"

\* Where the refund of a refunded row stands.
RefundOf(t) ==
    /\ late[t] = "none"
    /\ refunded[t] \in {0, 1}
    /\ refunded[t] = 1 => \/ job[t].pc = "record"
                          \/ refund[t] = "completed" /\ job[t].pc # "pay"

RefundInv == \A t \in Txns : ~Befell({"redone", "doubled"}, t) => RefundOf(t)

IInv == TypeInv /\ IdleInv /\ PaymentInv /\ FailedInv /\ RefundInv

----------------------------------------------------------------------------
\* What the steps of a batch call do to its record, field by field.

\* A call's record after a step, and every other call's left alone.
BecomesFetched(b, found) ==
    /\ batch'[b].pc = IF found = {} THEN "over" ELSE "fetched"
    /\ batch'[b].todo = found

LeavesRow(b, t) ==
    /\ batch'[b].todo = batch[b].todo \ {t}
    /\ batch'[b].outcome = batch[b].outcome
    /\ \/ batch[b].todo = {t} /\ batch'[b].pc = "over"
       \/ batch'[b].pc = batch[b].pc

OthersKept(b) == \A c \in Batches : c # b => batch'[c] = batch[c]

LEMMA FetchEffect ==
    ASSUME CallsType, NEW b \in Batches, Fetch(b)
    PROVE  /\ batch' \in [Batches -> BatchType]
           /\ OthersKept(b)
           /\ \E found \in SUBSET Txns :
                 /\ BecomesFetched(b, found)
                 /\ \A t \in found : /\ status[t] # "pending" => <<"behind", t>> \in mishaps'
                                     /\ Held(t) => <<"raced", t>> \in mishaps'
<1>1. PICK found \in SUBSET Txns :
        /\ batch' = [batch EXCEPT ![b].pc = IF found = {} THEN "over" ELSE "fetched",
                                  ![b].todo = found]
        /\ mishaps' = mishaps \cup ({"behind"} \X {t \in found : status[t] # "pending"})
                              \cup ({"raced"} \X {t \in found : Held(t)})
  BY DEF Fetch
<1>2. PICK p \in {"over", "fetched"} : p = IF found = {} THEN "over" ELSE "fetched"
  OBVIOUS
<1>3. batch' = [batch EXCEPT ![b].pc = p, ![b].todo = found]
  BY <1>1, <1>2
<1>4. batch' \in [Batches -> BatchType] /\ OthersKept(b) /\ BecomesFetched(b, found)
  BY <1>2, <1>3 DEF CallsType, BatchType, OthersKept, BecomesFetched
<1>5. \A t \in found : /\ status[t] # "pending" => <<"behind", t>> \in mishaps'
                       /\ Held(t) => <<"raced", t>> \in mishaps'
  BY <1>1
<1> QED BY <1>4, <1>5

LEMMA FloatTooLowEffect ==
    ASSUME CallsType, NEW b \in Batches, FloatTooLow(b)
    PROVE  /\ batch' \in [Batches -> BatchType]
           /\ OthersKept(b)
           /\ batch'[b].pc = "hold" /\ batch'[b].todo = batch[b].todo
  BY DEF CallsType, FloatTooLow, BatchType, OthersKept

LEMMA RowEffect ==
    ASSUME CallsType, NEW b \in Batches, NEW t \in Txns,
           HoldRow(b, t) \/ Record(b, t)
    PROVE  /\ batch' \in [Batches -> BatchType]
           /\ OthersKept(b)
           /\ LeavesRow(b, t)
<1>1. PICK p \in {batch[b].pc, "over"} :
        /\ p # batch[b].pc => batch[b].todo = {t}
        /\ batch' = [batch EXCEPT ![b].todo = @ \ {t}, ![b].pc = p]
  BY DEF HoldRow, Record, RowDone, CallsType, BatchType
<1>2. p \in {"idle", "fetched", "hold", "record", "over"}
  BY <1>1 DEF CallsType, BatchType
<1> QED BY <1>1, <1>2 DEF CallsType, BatchType, OthersKept, LeavesRow

\* The rows whose payouts were accepted, and what the call was told.
SendsTo(b, taken) ==
    /\ paid' = PaidAlso(taken)
    /\ \/ /\ batch'[b].outcome = "success" /\ taken = batch[b].todo
          /\ mishaps' = mishaps
       \/ \A t \in taken : <<"lost", t>> \in mishaps'

LEMMA SendEffect ==
    ASSUME CallsType, NEW b \in Batches, Send(b)
    PROVE  /\ batch' \in [Batches -> BatchType]
           /\ OthersKept(b)
           /\ batch'[b].pc = "record" /\ batch'[b].todo = batch[b].todo
           /\ \E taken \in SUBSET batch[b].todo : SendsTo(b, taken)
<1>1. PICK outcome \in {"success", "failure"} :
        /\ batch' = [batch EXCEPT ![b].pc = "record", ![b].outcome = outcome]
        /\ \/ /\ outcome = "success"
              /\ paid' = PaidAlso(batch[b].todo) /\ mishaps' = mishaps
           \/ \E taken \in SUBSET batch[b].todo :
                 paid' = PaidAlso(taken) /\ Mark("lost", taken)
  BY DEF Send
<1>2. /\ batch' \in [Batches -> BatchType]
      /\ OthersKept(b)
      /\ batch'[b].pc = "record" /\ batch'[b].todo = batch[b].todo
      /\ batch'[b].outcome = outcome
  BY <1>1 DEF CallsType, BatchType, OthersKept
<1>3. CASE outcome = "success" /\ paid' = PaidAlso(batch[b].todo) /\ mishaps' = mishaps
  <2>1. SendsTo(b, batch[b].todo)
    BY <1>2, <1>3 DEF SendsTo
  <2> QED BY <1>2, <2>1
<1>4. ASSUME NEW taken \in SUBSET batch[b].todo, paid' = PaidAlso(taken),
             Mark("lost", taken)
      PROVE  SendsTo(b, taken)
  BY <1>4 DEF SendsTo, Mark
<1> QED BY <1>1, <1>2, <1>3, <1>4

LEMMA EndEffect ==
    ASSUME CallsType, NEW b \in Batches,
           BatchDies(b) \/ \E t \in Txns : RecordThrows(b, t)
    PROVE  /\ batch' \in [Batches -> BatchType]
           /\ OthersKept(b)
           /\ batch'[b].pc = "over" /\ batch'[b].todo = {}
  BY DEF CallsType, BatchDies, RecordThrows, BatchType, OthersKept

----------------------------------------------------------------------------
\* Types.

AnyBatchStep == \E b \in Batches : BatchStep(b)
AnyWorkerStep == \E d \in Deliveries : WorkerStep(d)
AnyRefundStep == \E t \in Txns : RefundStep(t) \/ RefundFault(t)
AnyHandlerStep == \E t \in Txns : HandlerEnds(t)

LEMMA NextSplit ==
    Next <=> AnyBatchStep \/ AnyWorkerStep \/ AnyRefundStep \/ AnyHandlerStep
  BY DEF Next, AnyBatchStep, AnyWorkerStep, AnyRefundStep, AnyHandlerStep

\* What each kind of step leaves alone.
LEMMA BatchStepKeeps == AnyBatchStep => UNCHANGED batchOnly
  BY DEF AnyBatchStep, BatchStep, Fetch, FloatTooLow, HoldRow, Record, Send,
     BatchDies, RecordThrows

LEMMA WorkerStepKeeps == AnyWorkerStep => UNCHANGED workerOnly
  BY DEF AnyWorkerStep, WorkerStep, WorkerClaim, WorkerRereads, WorkerPays,
     WorkerEnds, WorkerThrows, WorkerDies

LEMMA RefundStepKeeps == AnyRefundStep => UNCHANGED refundOnly
  BY DEF AnyRefundStep, RefundStep, RefundFault, Enqueue, JobStarts, JobPays,
     JobRecords, JobNotifies, JobForgotten, JobThrows, JobStalls, LatePays,
     LateRecords

\* An update never leaves the statuses, and never leaves a final one.
LEMMA UpdatedStatus ==
    ASSUME RowsType, NEW t \in Txns, NEW s \in {"pending", "completed", "failed"}
    PROVE  /\ Updated(t, s) \in Statuses
           /\ status[t] \in {"completed", "failed"} => Updated(t, s) = status[t]
           /\ status[t] \in {"pending", "processing"} => Updated(t, s) = s
  BY DEF RowsType, Updated, Allowed, Statuses

\* The three ways in which a status moves.
LEMMA StatusMoves ==
    ASSUME Next
    PROVE  \/ UNCHANGED status
           \/ \E u \in Txns : \E s \in {"pending", "completed", "failed"} :
                 status' = [status EXCEPT ![u] = Updated(u, s)]
           \/ \E u \in Txns : /\ status[u] = "pending"
                              /\ status' = [status EXCEPT ![u] = "processing"]
           \/ \E u \in Txns : \E s \in {"completed", "failed"} :
                 /\ status[u] \in {"pending", "processing"}
                 /\ status' = [status EXCEPT ![u] = s]
<1>1. CASE AnyBatchStep
  BY <1>1 DEF AnyBatchStep, BatchStep, Fetch, FloatTooLow, HoldRow, Record, Send,
     BatchDies, RecordThrows, Verdict
<1>2. CASE AnyWorkerStep
  BY <1>2, RowOfAssumption DEF AnyWorkerStep, WorkerStep, WorkerClaim, WorkerRereads,
     WorkerPays, WorkerEnds, WorkerThrows, WorkerDies
<1>3. CASE AnyRefundStep
  BY <1>3, RefundStepKeeps DEF refundOnly
<1>4. CASE AnyHandlerStep
  BY <1>4 DEF AnyHandlerStep, HandlerEnds
<1> QED BY <1>1, <1>2, <1>3, <1>4, NextSplit

LEMMA NotesStep == TypeInv /\ Next => NotesType' /\ mishaps \subseteq mishaps'
<1> SUFFICES ASSUME TypeInv, Next PROVE NotesType' /\ mishaps \subseteq mishaps'
  OBVIOUS
<1>1. faults' \in 0..MaxFaults
  <2>1. faults' = faults \/ Fault
    <3>1. CASE AnyBatchStep
      BY <3>1 DEF AnyBatchStep, BatchStep, Fetch, FloatTooLow, HoldRow, Record, Send,
         BatchDies, RecordThrows
    <3>2. CASE AnyWorkerStep
      BY <3>2 DEF AnyWorkerStep, WorkerStep, WorkerClaim, WorkerRereads,
         WorkerPays, WorkerEnds, WorkerThrows, WorkerDies
    <3>3. CASE AnyRefundStep
      BY <3>3 DEF AnyRefundStep, RefundStep, RefundFault, Enqueue, JobStarts, JobPays,
         JobRecords, JobNotifies, JobForgotten, JobThrows, JobStalls, LatePays,
         LateRecords
    <3>4. CASE AnyHandlerStep
      BY <3>4 DEF AnyHandlerStep, HandlerEnds
    <3> QED BY <3>1, <3>2, <3>3, <3>4, NextSplit
  <2> QED BY <2>1, MaxFaultsAssumption DEF Fault, TypeInv, NotesType
<1>2. \/ mishaps' = mishaps
      \/ \E S1, S2 \in SUBSET Txns : \E c1, c2 \in Causes :
            mishaps' = mishaps \cup ({c1} \X S1) \cup ({c2} \X S2)
  <2>a. ASSUME NEW c \in Causes, NEW S \in SUBSET Txns, Mark(c, S)
        PROVE  \E S1, S2 \in SUBSET Txns : \E c1, c2 \in Causes :
                  mishaps' = mishaps \cup ({c1} \X S1) \cup ({c2} \X S2)
    <3>1. mishaps' = mishaps \cup ({c} \X S)
      BY <2>a DEF Mark
    <3>2. mishaps' = mishaps \cup ({c} \X S) \cup ({c} \X S)
      BY <3>1
    <3> QED BY <3>2
  <2>1. ASSUME NEW b \in Batches, BatchStep(b)
        PROVE  \/ mishaps' = mishaps
               \/ \E S1, S2 \in SUBSET Txns : \E c1, c2 \in Causes :
                     mishaps' = mishaps \cup ({c1} \X S1) \cup ({c2} \X S2)
    <3>0. batch[b].todo \in SUBSET Txns
      BY DEF TypeInv, CallsType, BatchType
    <3>1. CASE Fetch(b)
      <4>1. PICK found \in SUBSET Txns :
              mishaps' = mishaps
                \cup ({"behind"} \X {t \in found : status[t] # "pending"})
                \cup ({"raced"} \X {t \in found : Held(t)})
        BY <3>1 DEF Fetch
      <4>2. /\ {t \in found : status[t] # "pending"} \in SUBSET Txns
            /\ {t \in found : Held(t)} \in SUBSET Txns
            /\ "behind" \in Causes /\ "raced" \in Causes
        BY DEF Causes
      <4> QED BY <4>1, <4>2
    <3>2. CASE Send(b)
      <4>1. mishaps' = mishaps \/ \E taken \in SUBSET batch[b].todo : Mark("lost", taken)
        BY <3>2 DEF Send
      <4>2. "lost" \in Causes
        BY DEF Causes
      <4> QED BY <4>1, <4>2, <3>0, <2>a
    <3>3. CASE BatchDies(b) \/ \E t \in Txns : RecordThrows(b, t)
      <4>1. \E S \in SUBSET batch[b].todo : Mark("unrecorded", S)
        BY <3>3 DEF BatchDies, RecordThrows
      <4>2. "unrecorded" \in Causes
        BY DEF Causes
      <4> QED BY <4>1, <4>2, <3>0, <2>a
    <3> QED BY <2>1, <3>1, <3>2, <3>3 DEF BatchStep, FloatTooLow, HoldRow, Record
  <2>2. ASSUME NEW d \in Deliveries, WorkerStep(d)
        PROVE  \/ mishaps' = mishaps
               \/ \E S1, S2 \in SUBSET Txns : \E c1, c2 \in Causes :
                     mishaps' = mishaps \cup ({c1} \X S1) \cup ({c2} \X S2)
    <3>1. RowOf[d] \in Txns
      BY RowOfAssumption
    <3>2. \/ mishaps' = mishaps
          \/ \E c \in {"raced", "behind", "unheard", "unrecorded"} :
                \E S \in SUBSET {RowOf[d]} : Mark(c, S)
      BY <2>2 DEF WorkerStep, WorkerClaim, TakesRow, WorkerRereads,
         WorkerPays, WorkerEnds, WorkerThrows, WorkerDies
    <3>3. {"raced", "behind", "unheard", "unrecorded"} \subseteq Causes
      BY DEF Causes
    <3> QED BY <3>1, <3>2, <3>3, <2>a
  <2>3. ASSUME NEW t \in Txns, RefundStep(t) \/ RefundFault(t)
        PROVE  \/ mishaps' = mishaps
               \/ \E S1, S2 \in SUBSET Txns : \E c1, c2 \in Causes :
                     mishaps' = mishaps \cup ({c1} \X S1) \cup ({c2} \X S2)
    <3>1. "redone" \in Causes /\ "doubled" \in Causes
      BY DEF Causes
    <3>2. CASE JobStarts(t) \/ JobThrows(t)
      <4>1. \E S \in SUBSET {t} : Mark("redone", S)
        BY <3>2 DEF JobStarts, JobThrows
      <4> QED BY <4>1, <3>1, <2>a
    <3>3. CASE JobStalls(t)
      <4>1. /\ {u \in {t} : Forgotten(u)} \in SUBSET Txns
            /\ {u \in {t} : late'[u] # late[u]} \in SUBSET Txns
        OBVIOUS
      <4>2. mishaps' = mishaps \cup ({"redone"} \X {u \in {t} : Forgotten(u)})
                               \cup ({"doubled"} \X {u \in {t} : late'[u] # late[u]})
        BY <3>3 DEF JobStalls
      <4> QED BY <4>1, <4>2, <3>1
    <3> QED BY <2>3, <3>2, <3>3 DEF RefundStep, RefundFault, Enqueue, JobPays,
               JobRecords, JobNotifies, JobForgotten, LatePays, LateRecords
  <2>4. ASSUME NEW t \in Txns, HandlerEnds(t)
        PROVE  \E S1, S2 \in SUBSET Txns : \E c1, c2 \in Causes :
                  mishaps' = mishaps \cup ({c1} \X S1) \cup ({c2} \X S2)
    <3>1. \E S \in SUBSET {t} : Mark("overruled", S)
      BY <2>4 DEF HandlerEnds
    <3>2. "overruled" \in Causes
      BY DEF Causes
    <3> QED BY <3>1, <3>2, <2>a
  <2> QED BY <2>1, <2>2, <2>3, <2>4, NextSplit
          DEF AnyBatchStep, AnyWorkerStep, AnyRefundStep, AnyHandlerStep
<1>3. mishaps \subseteq mishaps' /\ mishaps' \subseteq Causes \X Txns
  <2>1. mishaps \subseteq Causes \X Txns
    BY DEF TypeInv, NotesType
  <2> QED BY <1>2, <2>1
<1> QED BY <1>1, <1>3 DEF NotesType

\* A cause stays on the record.
LEMMA BefellStays ==
    ASSUME TypeInv, [Next]_vars, NEW t, NEW causes, Befell(causes, t)
    PROVE  Befell(causes, t)'
<1>1. mishaps \subseteq mishaps'
  BY NotesStep DEF vars
<1> QED BY <1>1 DEF Befell

LEMMA TypeStep == TypeInv /\ [Next]_vars => TypeInv'
<1> SUFFICES ASSUME TypeInv, Next PROVE TypeInv'
  BY DEF vars, TypeInv, RowsType, CallsType, NotesType
<1>1. status' \in [Txns -> Statuses]
  <2>1. RowsType
    BY DEF TypeInv
  <2>2. ASSUME NEW u \in Txns, NEW s \in {"pending", "completed", "failed"},
               status' = [status EXCEPT ![u] = Updated(u, s)]
        PROVE  status' \in [Txns -> Statuses]
    BY <2>1, <2>2, UpdatedStatus DEF RowsType
  <2>3. ASSUME NEW u \in Txns, NEW s \in {"processing", "completed", "failed"},
               status' = [status EXCEPT ![u] = s]
        PROVE  status' \in [Txns -> Statuses]
    BY <2>1, <2>3 DEF RowsType, Statuses
  <2>4. CASE UNCHANGED status
    BY <2>1, <2>4 DEF RowsType
  <2> QED BY <2>2, <2>3, <2>4, StatusMoves
<1>2. batch' \in [Batches -> BatchType]
  <2>1. CASE AnyBatchStep
    BY <2>1, FetchEffect, FloatTooLowEffect, RowEffect, SendEffect, EndEffect
       DEF AnyBatchStep, BatchStep, TypeInv
  <2>2. CASE ~AnyBatchStep
    BY <2>2, WorkerStepKeeps, RefundStepKeeps, NextSplit
       DEF workerOnly, refundOnly, AnyHandlerStep, HandlerEnds, TypeInv, CallsType
  <2> QED BY <2>1, <2>2
<1>3. claim' \in [Deliveries -> {"queued", "refused", "claimed", "paid", "over"}]
  <2>0. claim \in [Deliveries -> {"queued", "refused", "claimed", "paid", "over"}]
    BY DEF TypeInv, RowsType
  <2>1. CASE AnyWorkerStep
    BY <2>0, <2>1 DEF AnyWorkerStep, WorkerStep, WorkerClaim, TakesRow, WorkerRereads,
       WorkerPays, WorkerEnds, WorkerThrows, WorkerDies
  <2>2. CASE ~AnyWorkerStep
    BY <2>0, <2>2, BatchStepKeeps, RefundStepKeeps, NextSplit
       DEF batchOnly, refundOnly, AnyHandlerStep, HandlerEnds
  <2> QED BY <2>1, <2>2
<1>4. paid' \in [Txns -> 0..2]
  <2>0. paid \in [Txns -> 0..2]
    BY DEF TypeInv, RowsType
  <2>1. paid' = paid \/ \E S \in SUBSET Txns : paid' = PaidAlso(S)
    <3>1. ASSUME NEW b \in Batches, BatchStep(b)
          PROVE  paid' = paid \/ \E S \in SUBSET Txns : paid' = PaidAlso(S)
      <4>1. batch[b].todo \in SUBSET Txns
        BY DEF TypeInv, CallsType, BatchType
      <4>2. CASE Send(b)
        BY <4>1, <4>2 DEF Send
      <4> QED BY <3>1, <4>2 DEF BatchStep, Fetch, FloatTooLow, HoldRow, Record,
                 BatchDies, RecordThrows
    <3>2. ASSUME NEW d \in Deliveries, WorkerStep(d)
          PROVE  paid' = paid \/ paid' = PaidAlso({RowOf[d]})
      BY <3>2 DEF WorkerStep, WorkerClaim, WorkerRereads, WorkerPays, WorkerEnds,
         WorkerThrows, WorkerDies
    <3>3. \A d \in Deliveries : {RowOf[d]} \in SUBSET Txns
      BY RowOfAssumption
    <3>4. CASE AnyRefundStep \/ AnyHandlerStep
      BY <3>4, RefundStepKeeps DEF refundOnly, AnyHandlerStep, HandlerEnds
    <3> QED BY <3>1, <3>2, <3>3, <3>4, NextSplit DEF AnyBatchStep, AnyWorkerStep
  <2> QED BY <2>0, <2>1 DEF PaidAlso, Twice
<1>5. /\ refund' \in [Txns -> RefundMarks]
      /\ late' \in [Txns -> {"none", "pay", "record"}]
      /\ refunded' \in [Txns -> 0..2]
      /\ job' \in [Txns -> JobType]
      /\ \A t \in Txns : job'[t].pc \notin {"finished", "exhausted"}
                           => job'[t].attempts < MaxAttempts
  <2>0. /\ refund \in [Txns -> RefundMarks]
        /\ late \in [Txns -> {"none", "pay", "record"}]
        /\ refunded \in [Txns -> 0..2]
        /\ job \in [Txns -> JobType]
        /\ \A t \in Txns : job[t].pc \notin {"finished", "exhausted"}
                             => job[t].attempts < MaxAttempts
    BY DEF TypeInv, RowsType, CallsType
  <2>1. CASE ~AnyRefundStep
    BY <2>0, <2>1, BatchStepKeeps, WorkerStepKeeps, NextSplit
       DEF batchOnly, workerOnly, AnyHandlerStep, HandlerEnds
  <2>2. CASE AnyRefundStep
    <3> PICK t \in Txns : RefundStep(t) \/ RefundFault(t)
      BY <2>2 DEF AnyRefundStep
    <3>1. refund' \in [Txns -> RefundMarks]
      <4>1. refund' = refund \/ \E m \in RefundMarks : refund' = [refund EXCEPT ![t] = m]
        BY <2>0 DEF RefundStep, RefundFault, Enqueue, JobStarts, JobPays, JobRecords,
           JobNotifies, JobForgotten, JobThrows, JobStalls, LatePays, LateRecords,
           FailedHandler, RefundMarks
      <4> QED BY <4>1, <2>0
    <3>2. late' \in [Txns -> {"none", "pay", "record"}]
      BY <2>0 DEF RefundStep, RefundFault, Enqueue, JobStarts, JobPays, JobRecords,
           JobNotifies, JobForgotten, JobThrows, JobStalls, LatePays, LateRecords
    <3>3. refunded' \in [Txns -> 0..2]
      BY <2>0 DEF RefundStep, RefundFault, Enqueue, JobStarts, JobPays, JobRecords,
           JobNotifies, JobForgotten, JobThrows, JobStalls, LatePays, LateRecords, Twice
    <3>4. /\ job' \in [Txns -> JobType]
          /\ \A u \in Txns : job'[u].pc \notin {"finished", "exhausted"}
                               => job'[u].attempts < MaxAttempts
      <4>0. /\ job \in [Txns -> JobType]
            /\ \A u \in Txns : job[u].pc \notin {"finished", "exhausted"}
                                 => job[u].attempts < MaxAttempts
        BY <2>0
      <4>a. ASSUME NEW p \in {"waiting", "pay", "record", "notify", "finished"},
                   job[t].pc \notin {"finished", "exhausted"},
                   job' = [job EXCEPT ![t].pc = p]
            PROVE  /\ job' \in [Txns -> JobType]
                   /\ \A u \in Txns : job'[u].pc \notin {"finished", "exhausted"}
                                        => job'[u].attempts < MaxAttempts
        BY <4>0, <4>a DEF JobType
      <4>1. CASE JobForgotten(t)
        BY <4>1, <4>0, MaxAttemptsAssumption DEF JobForgotten, NoJob, JobType
      <4>2. CASE JobThrows(t)
        <5>1. /\ job[t].attempts \in 0..MaxAttempts
              /\ job[t].attempts < MaxAttempts
          BY <4>0, <4>2 DEF JobThrows, JobType
        <5>2. PICK n \in 0..MaxAttempts : n = job[t].attempts + 1
          BY <5>1, MaxAttemptsAssumption
        <5>3. PICK p \in {"waiting", "exhausted"} :
                /\ p = "waiting" => n < MaxAttempts
                /\ job' = [job EXCEPT ![t].attempts = n, ![t].pc = p]
          BY <4>2, <5>2 DEF JobThrows
        <5> QED BY <5>3, <4>0 DEF JobType
      <4>3. CASE JobStalls(t)
        <5>1. \/ job' = [job EXCEPT ![t].pc = "exhausted"]
              \/ job' = [job EXCEPT ![t].pc = "waiting", ![t].stalled = TRUE]
          BY <4>3 DEF JobStalls
        <5>2. job[t].pc \notin {"finished", "exhausted"}
          BY <4>3 DEF JobStalls
        <5> QED BY <5>1, <5>2, <4>0 DEF JobType
      <4>4. CASE LatePays(t) \/ LateRecords(t)
        BY <2>0, <4>4 DEF LatePays, LateRecords
      <4>5. CASE JobStarts(t)
        <5>1. PICK p \in {"pay", "finished"} : job' = [job EXCEPT ![t].pc = p]
          BY <4>5 DEF JobStarts
        <5>2. job[t].pc \notin {"finished", "exhausted"}
          BY <4>5 DEF JobStarts
        <5> QED BY <5>1, <5>2, <4>a
      <4> QED BY <4>a, <4>1, <4>2, <4>3, <4>4, <4>5 DEF RefundStep, RefundFault,
                 Enqueue, JobPays, JobRecords, JobNotifies
    <3> QED BY <3>1, <3>2, <3>3, <3>4
  <2> QED BY <2>1, <2>2
<1> QED BY <1>1, <1>2, <1>3, <1>4, <1>5, NotesStep DEF TypeInv, RowsType, CallsType

----------------------------------------------------------------------------
\* The invariants of the payers.

LEMMA IdleStep == TypeInv /\ IdleInv /\ [Next]_vars => IdleInv'
<1> SUFFICES ASSUME TypeInv, IdleInv, [Next]_vars PROVE IdleInv'
  OBVIOUS
<1>1. CASE AnyBatchStep
  <2> PICK b \in Batches : BatchStep(b)
    BY <1>1 DEF AnyBatchStep
  <2>1. OthersKept(b)
    BY FetchEffect, FloatTooLowEffect, RowEffect, SendEffect, EndEffect
       DEF BatchStep, TypeInv
  <2>2. batch'[b].pc = "idle" => batch'[b].todo = {}
    <3>1. CASE Fetch(b)
      BY <3>1, FetchEffect DEF TypeInv, BecomesFetched
    <3>2. CASE \E t \in Txns : HoldRow(b, t) \/ Record(b, t)
      BY <3>2, RowEffect DEF TypeInv, LeavesRow, HoldRow, Record
    <3> QED BY <3>1, <3>2, FloatTooLowEffect, SendEffect, EndEffect
            DEF BatchStep, TypeInv
  <2> QED BY <2>1, <2>2 DEF IdleInv, OthersKept
<1>2. CASE AnyWorkerStep \/ AnyRefundStep \/ AnyHandlerStep \/ UNCHANGED vars
  <2>1. batch' = batch
    BY <1>2, WorkerStepKeeps, RefundStepKeeps
       DEF workerOnly, refundOnly, AnyHandlerStep, HandlerEnds, vars
  <2> QED BY <2>1 DEF IdleInv
<1> QED BY <1>1, <1>2, NextSplit

\* completed and failed are final.
LEMMA FinalStays ==
    ASSUME TypeInv, [Next]_vars, NEW t \in Txns, status[t] \in {"completed", "failed"}
    PROVE  status'[t] = status[t]
<1>1. ASSUME NEW u \in Txns, NEW s \in {"pending", "completed", "failed"},
             status' = [status EXCEPT ![u] = Updated(u, s)]
      PROVE  status'[t] = status[t]
  BY <1>1, UpdatedStatus DEF TypeInv, RowsType
<1>2. ASSUME NEW u \in Txns, NEW s, status[u] \in {"pending", "processing"},
             status' = [status EXCEPT ![u] = s]
      PROVE  status'[t] = status[t]
  BY <1>2 DEF TypeInv, RowsType
<1> QED BY <1>1, <1>2, StatusMoves DEF vars

LEMMA FailedStep == TypeInv /\ FailedInv /\ [Next]_vars => FailedInv'
<1> SUFFICES ASSUME TypeInv, FailedInv, [Next]_vars, NEW u \in Txns,
                    job'[u].pc # "none" \/ late'[u] # "none" \/ refunded'[u] > 0
             PROVE  status'[u] = "failed"
  BY DEF FailedInv
<1>1. job[u].pc # "none" \/ late[u] # "none" \/ refunded[u] > 0 \/ status[u] = "failed"
  <2>1. CASE AnyBatchStep \/ AnyWorkerStep \/ AnyHandlerStep \/ UNCHANGED vars
    BY <2>1, BatchStepKeeps, WorkerStepKeeps
       DEF batchOnly, workerOnly, AnyHandlerStep, HandlerEnds, vars
  <2>2. CASE AnyRefundStep
    <3> PICK t \in Txns : RefundStep(t) \/ RefundFault(t)
      BY <2>2 DEF AnyRefundStep
    <3>1. CASE t = u
      BY <3>1 DEF RefundStep, RefundFault, Enqueue, JobStarts, JobPays, JobRecords,
         JobNotifies, JobForgotten, JobThrows, JobStalls, LatePays, LateRecords
    <3>2. CASE t # u
      <4>1. job'[u] = job[u] /\ late'[u] = late[u] /\ refunded'[u] = refunded[u]
        BY <3>2 DEF RefundStep, RefundFault, Enqueue, JobStarts, JobPays, JobRecords,
           JobNotifies, JobForgotten, JobThrows, JobStalls, LatePays, LateRecords,
           TypeInv, RowsType, CallsType
      <4> QED BY <4>1
    <3> QED BY <3>1, <3>2
  <2> QED BY <2>1, <2>2, NextSplit
<1>2. status[u] = "failed"
  BY <1>1 DEF FailedInv
<1> QED BY <1>2, FinalStays

\* Clean says that four causes are not on the record; a cause stays there.
LEMMA BefellGrows ==
    ASSUME mishaps \subseteq mishaps', NEW t, NEW causes, Befell(causes, t)
    PROVE  Befell(causes, t)'
  BY DEF Befell

LEMMA CleanBefore ==
    ASSUME mishaps \subseteq mishaps', NEW t, Clean(t)'
    PROVE  Clean(t)
  BY BefellGrows DEF Clean, Befell

LEMMA NotedUnclean ==
    ASSUME NEW t \in Txns, NEW c \in {"raced", "unrecorded", "unheard", "behind"},
           NEW rows, t \in rows, Mark(c, rows)
    PROVE  ~Clean(t)'
  BY DEF Mark, Clean, Befell

\* A payout stays traced while its payers and its status stay as they are.
LEMMA TracedKept ==
    ASSUME NEW t \in Txns, Traced(t), mishaps \subseteq mishaps',
           status'[t] = status[t],
           \A d \in Deliveries : RowOf[d] = t => claim'[d] = claim[d],
           \A b \in Batches :
              batch[b].pc = "record" /\ t \in batch[b].todo /\ WasPaid(b, t) =>
                 /\ batch'[b].pc = "record" /\ t \in batch'[b].todo
                 /\ batch'[b].outcome = batch[b].outcome
    PROVE  Traced(t)'
<1>1. Befell({"lost", "overruled"}, t) => Befell({"lost", "overruled"}, t)'
  BY BefellGrows
<1>2. \A b \in Batches :
         WasPaid(b, t) /\ batch'[b].outcome = batch[b].outcome => WasPaid(b, t)'
  BY BefellGrows DEF WasPaid
<1> QED BY <1>1, <1>2 DEF Traced

\* Nothing is lost when payers only leave the row.
LEMMA PaymentKept ==
    ASSUME NEW t \in Txns, PaymentOf(t), mishaps \subseteq mishaps',
           status'[t] = status[t], paid'[t] = paid[t],
           \A d \in Deliveries : RowOf[d] = t => claim'[d] = claim[d],
           \A b \in Batches : InBatch(b, t)' =>
              /\ InBatch(b, t)
              /\ batch'[b].pc # "record" => batch[b].pc # "record",
           paid[t] = 1 /\ Traced(t) => Traced(t)'
    PROVE  PaymentOf(t)'
<1>1. \A d \in Deliveries : Holds(d, t)' <=> Holds(d, t)
  BY DEF Holds
<1>2. Held(t)' => Held(t)
  BY <1>1 DEF Held
<1>3. SoleHolder(t)'
  BY <1>1, <1>2, BefellGrows DEF PaymentOf, SoleHolder
<1>4. Refused(t)'
  BY DEF PaymentOf, Refused
<1>5. Unsent(t)'
  BY DEF PaymentOf, Unsent
<1> QED BY <1>3, <1>4, <1>5 DEF PaymentOf

\* A pending row that nobody holds has not been paid.
LEMMA Unpaid ==
    ASSUME NEW t \in Txns, PaymentOf(t), status[t] = "pending", ~Held(t)
    PROVE  paid[t] = 0
  BY DEF PaymentOf, Traced, Held, Holds, InBatch

LEMMA PaymentFetch ==
    ASSUME TypeInv, IdleInv, NEW t \in Txns, PaymentOf(t), Clean(t)',
           mishaps \subseteq mishaps', NEW b \in Batches, Fetch(b)
    PROVE  PaymentOf(t)'
<1>1. PICK found \in SUBSET Txns :
        /\ OthersKept(b)
        /\ BecomesFetched(b, found)
        /\ \A u \in found : /\ status[u] # "pending" => <<"behind", u>> \in mishaps'
                            /\ Held(u) => <<"raced", u>> \in mishaps'
  BY FetchEffect DEF TypeInv
<1>2. batch[b].pc = "idle" /\ batch[b].todo = {}
  BY DEF Fetch, IdleInv
<1>3. UNCHANGED <<status, claim, paid>>
  BY DEF Fetch, batchOnly
<1>4. CASE t \in found
  <2>1. status[t] = "pending" /\ ~Held(t)
    BY <1>1, <1>4 DEF Clean, Befell
  <2>2. paid'[t] = 0
    BY <1>3, <2>1, Unpaid
  <2>3. \A c \in Batches : InBatch(c, t)' => c = b
    BY <1>1, <2>1 DEF OthersKept, InBatch, Held
  <2>4. \A d \in Deliveries : ~Holds(d, t)'
    BY <1>3, <2>1 DEF Held, Holds
  <2>5. SoleHolder(t)'
    BY <1>3, <2>1, <2>3, <2>4 DEF SoleHolder
  <2>6. Refused(t)' /\ Unsent(t)'
    BY <1>3, <2>2 DEF PaymentOf, Refused, Unsent
  <2> QED BY <2>2, <2>5, <2>6 DEF PaymentOf
<1>5. CASE t \notin found
  <2>1. \A c \in Batches : InBatch(c, t)' => c # b /\ InBatch(c, t)
    BY <1>1, <1>5 DEF OthersKept, BecomesFetched, InBatch
  <2>2. Traced(t) => Traced(t)'
    BY <1>1, <1>2, <1>3, TracedKept DEF OthersKept
  <2> QED BY <1>1, <1>3, <2>1, <2>2, PaymentKept DEF OthersKept
<1> QED BY <1>4, <1>5

LEMMA PaymentFloat ==
    ASSUME TypeInv, NEW t \in Txns, PaymentOf(t), mishaps \subseteq mishaps',
           NEW b \in Batches, FloatTooLow(b)
    PROVE  PaymentOf(t)'
<1>1. OthersKept(b) /\ batch'[b].pc = "hold" /\ batch'[b].todo = batch[b].todo
  BY FloatTooLowEffect DEF TypeInv
<1>2. UNCHANGED <<status, claim, paid>> /\ batch[b].pc = "fetched"
  BY DEF FloatTooLow, batchOnly
<1>3. \A c \in Batches : InBatch(c, t)' =>
         /\ InBatch(c, t)
         /\ batch'[c].pc # "record" => batch[c].pc # "record"
  BY <1>1, <1>2 DEF InBatch, OthersKept
<1>4. Traced(t) => Traced(t)'
  BY <1>1, <1>2, TracedKept DEF OthersKept
<1> QED BY <1>2, <1>3, <1>4, PaymentKept

LEMMA PaymentSend ==
    ASSUME TypeInv, NEW t \in Txns, PaymentOf(t), mishaps \subseteq mishaps',
           NEW b \in Batches, Send(b)
    PROVE  PaymentOf(t)'
<1>1. PICK taken \in SUBSET batch[b].todo :
        /\ OthersKept(b)
        /\ batch'[b].pc = "record" /\ batch'[b].todo = batch[b].todo
        /\ SendsTo(b, taken)
  BY SendEffect DEF TypeInv
<1>2. UNCHANGED <<status, claim>> /\ batch[b].pc = "fetched"
  BY DEF Send, batchOnly
<1>3. \A c \in Batches : InBatch(c, t)' =>
         /\ InBatch(c, t)
         /\ batch'[c].pc # "record" => c # b /\ batch[c].pc # "record"
  BY <1>1, <1>2 DEF InBatch, OthersKept
<1>4. CASE t \notin taken
  <2>1. paid'[t] = paid[t]
    BY <1>1, <1>4 DEF SendsTo, PaidAlso
  <2>2. Traced(t) => Traced(t)'
    BY <1>1, <1>2, TracedKept DEF OthersKept
  <2> QED BY <1>2, <1>3, <2>1, <2>2, PaymentKept
<1>5. CASE t \in taken
  <2>1. InBatch(b, t) /\ t \in batch[b].todo
    BY <1>1, <1>2, <1>5 DEF InBatch
  <2>2. /\ paid[t] = 0 /\ status[t] # "processing"
        /\ \A c \in Batches : InBatch(c, t) => c = b
        /\ \A d \in Deliveries : ~Holds(d, t)
    BY <2>1, <1>2 DEF PaymentOf, SoleHolder, Unsent
  <2>3. paid'[t] = 1
    BY <1>1, <1>5, <2>2 DEF SendsTo, PaidAlso, Twice
  <2>4. WasPaid(b, t)'
    BY <1>1, <1>5 DEF SendsTo, WasPaid, Befell
  <2>5. Traced(t)'
    BY <1>1, <2>1, <2>4 DEF Traced
  <2>6. \A d \in Deliveries : ~Holds(d, t)'
    BY <1>2, <2>2 DEF Holds
  <2>7. SoleHolder(t)'
    BY <1>2, <1>3, <2>1, <2>2, <2>6, BefellGrows DEF PaymentOf, SoleHolder, Held
  <2>8. Refused(t)'
    BY <1>2 DEF PaymentOf, Refused
  <2>9. Unsent(t)'
    BY <1>2, <1>3, <2>2 DEF Unsent, Holds
  <2> QED BY <2>3, <2>5, <2>7, <2>8, <2>9 DEF PaymentOf
<1> QED BY <1>4, <1>5

\* The batch that holds a row writes its verdict down and lets the row go.
LEMMA VerdictWritten ==
    ASSUME TypeInv, NEW t \in Txns, PaymentOf(t), mishaps \subseteq mishaps',
           NEW b \in Batches, InBatch(b, t), batch[b].pc = "record",
           status'[t] = Updated(t, Verdict(b)), UNCHANGED <<claim, paid>>,
           \A c \in Batches : InBatch(c, t)' => InBatch(c, t) /\ c # b
    PROVE  PaymentOf(t)'
<1>1. /\ status[t] # "processing"
      /\ \A c \in Batches : InBatch(c, t) => c = b
      /\ \A d \in Deliveries : ~Holds(d, t)
      /\ status[t] = "failed" => Befell({"overruled"}, t)
  BY DEF PaymentOf, SoleHolder, Held
<1>2. ~Held(t)' /\ \A c \in Batches : ~InBatch(c, t)'
  BY <1>1 DEF Held, Holds
<1>3. SoleHolder(t)'
  BY <1>2 DEF SoleHolder, Held
<1>4. status[t] \in Statuses
  BY DEF TypeInv, RowsType
<1>5. \/ status[t] = "pending" /\ status'[t] = Verdict(b)
      \/ status[t] = "completed" /\ status'[t] = "completed"
      \/ status[t] = "failed" /\ status'[t] = "failed"
  BY <1>1, <1>4, UpdatedStatus DEF Verdict, Statuses, TypeInv
<1>6. Refused(t)'
  BY <1>5 DEF Refused, Verdict
<1>7. Unsent(t)'
  BY <1>1, <1>2 DEF Unsent, Holds
<1>8. ASSUME paid[t] = 1 PROVE Traced(t)'
  <2>1. \/ status[t] = "completed"
        \/ status[t] = "failed"
        \/ status[t] = "pending" /\ WasPaid(b, t)
    BY <1>8, <1>1, <1>4 DEF Statuses, PaymentOf, Traced, Holds, InBatch
  <2>2. CASE status[t] = "completed"
    BY <1>5, <2>2 DEF Traced
  <2>3. CASE status[t] = "failed"
    <3>1. Befell({"overruled"}, t)'
      BY <1>1, <2>3, BefellGrows
    <3> QED BY <1>5, <2>3, <3>1 DEF Traced, Befell
  <2>4. CASE status[t] = "pending" /\ WasPaid(b, t)
    <3>1. CASE batch[b].outcome = "success"
      BY <1>5, <2>4, <3>1 DEF Verdict, Traced
    <3>2. CASE batch[b].outcome # "success"
      <4>1. Befell({"lost"}, t)'
        BY <2>4, <3>2, BefellGrows DEF WasPaid
      <4> QED BY <1>5, <2>4, <3>2, <4>1 DEF Verdict, Traced, Befell
    <3> QED BY <3>1, <3>2
  <2> QED BY <2>1, <2>2, <2>3, <2>4
<1> QED BY <1>3, <1>6, <1>7, <1>8 DEF PaymentOf

\* A batch writes down one of its rows, or sends it back to pending.
LEMMA PaymentRow ==
    ASSUME TypeInv, NEW t \in Txns, PaymentOf(t), mishaps \subseteq mishaps',
           NEW b \in Batches, NEW u \in Txns, HoldRow(b, u) \/ Record(b, u)
    PROVE  PaymentOf(t)'
<1>1. OthersKept(b) /\ LeavesRow(b, u)
  BY RowEffect DEF TypeInv
<1>2. UNCHANGED <<claim, paid>> /\ u \in batch[b].todo /\ InBatch(b, u)
  BY DEF HoldRow, Record, InBatch, batchOnly
<1>3. \A c \in Batches : InBatch(c, t)' =>
         /\ InBatch(c, t)
         /\ batch'[c].pc # "record" => batch[c].pc # "record"
  BY <1>1 DEF InBatch, OthersKept, LeavesRow
<1>4. CASE t = u /\ Record(b, t)
  <2>1. ~InBatch(b, t)'
    BY <1>1, <1>4 DEF InBatch, LeavesRow
  <2>2. status'[t] = Updated(t, Verdict(b)) /\ batch[b].pc = "record"
    BY <1>4 DEF Record, TypeInv, RowsType
  <2>3. InBatch(b, t) /\ \A c \in Batches : InBatch(c, t)' => InBatch(c, t) /\ c # b
    BY <1>2, <1>3, <1>4, <2>1
  <2>4. UNCHANGED <<claim, paid>>
    BY <1>2
  <2> QED BY <2>2, <2>3, <2>4, VerdictWritten
<1>5. CASE t = u /\ HoldRow(b, t)
  <2>1. batch[b].pc = "hold" /\ status'[t] = Updated(t, "pending")
    BY <1>5 DEF HoldRow, TypeInv, RowsType
  <2>2. paid[t] = 0 /\ status[t] # "processing"
    BY <1>2, <1>5, <2>1 DEF PaymentOf, SoleHolder, Unsent
  <2>3. status[t] \in Statuses
    BY DEF TypeInv, RowsType
  <2>4. status'[t] = status[t]
    BY <2>1, <2>2, <2>3, UpdatedStatus DEF Statuses, TypeInv
  <2> QED BY <1>2, <1>3, <2>2, <2>4, PaymentKept
<1>6. CASE t # u
  <2>1. status'[t] = status[t]
    BY <1>6 DEF HoldRow, Record, TypeInv, RowsType
  <2>2. Traced(t) => Traced(t)'
    <3>1. \A c \in Batches : batch[c].pc = "record" /\ t \in batch[c].todo =>
             /\ batch'[c].pc = "record" /\ t \in batch'[c].todo
             /\ batch'[c].outcome = batch[c].outcome
      BY <1>1, <1>6 DEF OthersKept, LeavesRow
    <3> QED BY <3>1, <1>2, <2>1, TracedKept
  <2> QED BY <1>2, <1>3, <2>1, <2>2, PaymentKept
<1> QED BY <1>4, <1>5, <1>6

\* A call ends with rows it has not come to: the paid ones are unrecorded.
LEMMA PaymentEnd ==
    ASSUME TypeInv, NEW t \in Txns, PaymentOf(t), Clean(t)',
           mishaps \subseteq mishaps', NEW b \in Batches,
           BatchDies(b) \/ \E u \in Txns : RecordThrows(b, u)
    PROVE  PaymentOf(t)'
<1>1. OthersKept(b) /\ batch'[b].pc = "over" /\ batch'[b].todo = {}
  BY EndEffect DEF TypeInv
<1>2. UNCHANGED <<claim, paid>>
  BY DEF BatchDies, RecordThrows, batchOnly
<1>3. \A c \in Batches : InBatch(c, t)' =>
         c # b /\ InBatch(c, t) /\ batch'[c] = batch[c]
  BY <1>1 DEF InBatch, OthersKept
<1>4. ASSUME status'[t] = status[t],
             ~(batch[b].pc = "record" /\ t \in batch[b].todo /\ WasPaid(b, t))
      PROVE  PaymentOf(t)'
  <2>1. Traced(t) => Traced(t)'
    BY <1>1, <1>2, <1>4, TracedKept DEF OthersKept
  <2> QED BY <1>2, <1>3, <1>4, <2>1, PaymentKept
<1>5. CASE BatchDies(b)
  <2>1. status'[t] = status[t]
    BY <1>5 DEF BatchDies
  <2>2. ~(batch[b].pc = "record" /\ t \in batch[b].todo /\ WasPaid(b, t))
    BY <1>5, NotedUnclean DEF BatchDies
  <2> QED BY <1>4, <2>1, <2>2
<1>6. ASSUME NEW u \in Txns, RecordThrows(b, u) PROVE PaymentOf(t)'
  <2>1. PICK written \in BOOLEAN :
          /\ status' = IF written THEN [status EXCEPT ![u] = Updated(u, Verdict(b))]
                       ELSE status
          /\ Mark("unrecorded",
                  {v \in batch[b].todo : WasPaid(b, v) /\ ~(written /\ v = u)})
    BY <1>6 DEF RecordThrows
  <2>2. batch[b].pc = "record" /\ u \in batch[b].todo
    BY <1>6 DEF RecordThrows
  <2>3. CASE written /\ t = u
    <3>1. status'[t] = Updated(t, Verdict(b))
      BY <2>1, <2>3 DEF TypeInv, RowsType
    <3>2. InBatch(b, t)
      BY <2>2, <2>3 DEF InBatch
    <3>3. \A c \in Batches : InBatch(c, t)' => InBatch(c, t) /\ c # b
      BY <1>3
    <3> QED BY <1>2, <2>2, <3>1, <3>2, <3>3, VerdictWritten
  <2>4. CASE ~(written /\ t = u)
    <3>1. status'[t] = status[t]
      BY <2>1, <2>4 DEF TypeInv, RowsType
    <3>2. ~(t \in batch[b].todo /\ WasPaid(b, t))
      BY <2>1, <2>4, NotedUnclean
    <3> QED BY <1>4, <3>1, <3>2
  <2> QED BY <2>3, <2>4
<1> QED BY <1>5, <1>6

\* A run of the queue worker whose row is t, step by step.

\* The run lets the row go, or had not taken it.
LEMMA RunLeaves ==
    ASSUME TypeInv, NEW t \in Txns, PaymentOf(t), mishaps \subseteq mishaps',
           NEW d \in Deliveries, RowOf[d] = t,
           NEW pc \in {"refused", "over"}, claim' = [claim EXCEPT ![d] = pc],
           UNCHANGED <<batch, paid>>, status'[t] # "pending",
           status[t] \in {"completed", "failed"} => status'[t] = status[t],
           status'[t] # status[t] => Holds(d, t),
           paid[t] = 1 => Traced(t)'
    PROVE  PaymentOf(t)'
<1>1. claim \in [Deliveries -> {"queued", "refused", "claimed", "paid", "over"}]
  BY DEF TypeInv, RowsType
<1>2. claim'[d] = pc /\ \A e \in Deliveries : e # d => claim'[e] = claim[e]
  BY <1>1
<1>3. \A e \in Deliveries : Holds(e, t)' => e # d /\ Holds(e, t)
  BY <1>2 DEF Holds
<1>4. \A b \in Batches : InBatch(b, t)' => InBatch(b, t) /\ status'[t] = status[t]
  BY DEF InBatch, PaymentOf, SoleHolder
<1>5. Held(t)' => Held(t) /\ status'[t] = status[t]
  BY <1>3, <1>4 DEF Held, PaymentOf, SoleHolder
<1>6. SoleHolder(t)'
  BY <1>3, <1>4, <1>5, BefellGrows DEF PaymentOf, SoleHolder
<1>7. Refused(t)'
  BY DEF Refused
<1>8. Unsent(t)'
  BY <1>2 DEF PaymentOf, Unsent, InBatch
<1> QED BY <1>6, <1>7, <1>8 DEF PaymentOf

\* claimForProcessing on a row nobody holds.
LEMMA RunClaims ==
    ASSUME TypeInv, NEW t \in Txns, PaymentOf(t), Clean(t)',
           NEW d \in Deliveries, RowOf[d] = t, status[t] = "pending",
           status' = [status EXCEPT ![t] = "processing"], TakesRow(d),
           UNCHANGED <<batch, paid>>
    PROVE  PaymentOf(t)'
<1>1. ~Held(t)
  BY NotedUnclean DEF TakesRow
<1>2. paid'[t] = 0
  BY <1>1, Unpaid
<1>3. status'[t] = "processing"
  BY DEF TypeInv, RowsType
<1>4. \A e \in Deliveries : Holds(e, t)' => e = d
  BY <1>1 DEF TakesRow, Held, Holds, TypeInv, RowsType
<1>5. \A b \in Batches : ~InBatch(b, t)'
  BY <1>1 DEF Held, InBatch
<1>6. SoleHolder(t)' /\ Refused(t)' /\ Unsent(t)'
  BY <1>2, <1>3, <1>4, <1>5 DEF SoleHolder, Refused, Unsent
<1> QED BY <1>2, <1>6 DEF PaymentOf

\* sendPayout, accepted and answered so.
LEMMA RunPays ==
    ASSUME TypeInv, NEW t \in Txns, PaymentOf(t), mishaps \subseteq mishaps',
           NEW d \in Deliveries, RowOf[d] = t, claim[d] = "claimed",
           paid' = PaidAlso({t}), claim' = [claim EXCEPT ![d] = "paid"],
           UNCHANGED <<batch, status>>
    PROVE  PaymentOf(t)'
<1>1. claim \in [Deliveries -> {"queued", "refused", "claimed", "paid", "over"}]
  BY DEF TypeInv, RowsType
<1>2. claim'[d] = "paid" /\ \A e \in Deliveries : e # d => claim'[e] = claim[e]
  BY <1>1
<1>3. Holds(d, t) /\ paid[t] = 0
  BY DEF Holds, PaymentOf, Unsent
<1>4. paid'[t] = 1 /\ Traced(t)'
  BY <1>2, <1>3 DEF PaidAlso, Twice, Traced
<1>5. \A e \in Deliveries : Holds(e, t)' <=> Holds(e, t)
  BY <1>2 DEF Holds
<1>6. /\ \A e \in Deliveries : Holds(e, t) => e = d
      /\ \A b \in Batches : ~InBatch(b, t)'
  BY <1>3 DEF PaymentOf, SoleHolder, InBatch
<1>7. Held(t)' => Held(t)
  BY <1>3 DEF Held
<1>8. SoleHolder(t)'
  BY <1>5, <1>6, <1>7, BefellGrows DEF PaymentOf, SoleHolder
<1>9. Refused(t)'
  BY <1>2 DEF PaymentOf, Refused
<1>10. Unsent(t)'
  BY <1>2, <1>6 DEF Unsent, Holds
<1> QED BY <1>4, <1>8, <1>9, <1>10 DEF PaymentOf

LEMMA PaymentWorker ==
    ASSUME TypeInv, NEW t \in Txns, PaymentOf(t), Clean(t)',
           mishaps \subseteq mishaps', NEW d \in Deliveries, WorkerStep(d)
    PROVE  PaymentOf(t)'
<1>1. UNCHANGED batch
  BY DEF WorkerStep, WorkerClaim, WorkerRereads, WorkerPays, WorkerEnds,
     WorkerThrows, WorkerDies, workerOnly
<1>2. CASE t # RowOf[d]
  <2>1. /\ status'[t] = status[t] /\ paid'[t] = paid[t]
        /\ \A e \in Deliveries : RowOf[e] = t => claim'[e] = claim[e]
    BY <1>2 DEF WorkerStep, WorkerClaim, TakesRow, WorkerRereads, WorkerPays,
       WorkerEnds, WorkerThrows, WorkerDies, PaidAlso, TypeInv, RowsType
  <2>2. Traced(t) => Traced(t)'
    BY <1>1, <2>1, TracedKept
  <2> QED BY <1>1, <2>1, <2>2, PaymentKept DEF InBatch
<1>3. CASE t = RowOf[d]
  <2>1. CASE WorkerClaim(d)
    <3>1. CASE status[t] = "pending"
      BY <1>1, <1>3, <2>1, <3>1, RunClaims DEF WorkerClaim
    <3>2. CASE status[t] # "pending"
      <4>1. /\ claim[d] = "queued" /\ claim' = [claim EXCEPT ![d] = "refused"]
            /\ UNCHANGED <<status, paid>>
        BY <1>3, <2>1, <3>2 DEF WorkerClaim
      <4>2. Traced(t) => Traced(t)'
        BY <1>1, <4>1, BefellGrows DEF Traced, WasPaid, TypeInv, RowsType
      <4> QED BY <1>1, <1>3, <3>2, <4>1, <4>2, RunLeaves DEF PaymentOf
    <3> QED BY <3>1, <3>2
  <2>2. CASE WorkerRereads(d)
    <3>1. claim[d] = "refused" /\ status[t] # "pending"
      BY <1>3, <2>2 DEF WorkerRereads, PaymentOf, Refused
    <3>2. claim' = [claim EXCEPT ![d] = "over"] /\ UNCHANGED <<status, paid>>
      BY <1>3, <2>2, <3>1, NotedUnclean DEF WorkerRereads
    <3>3. Traced(t) => Traced(t)'
      BY <1>1, <3>1, <3>2, BefellGrows DEF Traced, WasPaid, TypeInv, RowsType
    <3> QED BY <1>1, <1>3, <3>1, <3>2, <3>3, RunLeaves DEF PaymentOf
  <2>3. CASE WorkerPays(d)
    <3>1. /\ claim[d] = "claimed" /\ claim' = [claim EXCEPT ![d] = "paid"]
          /\ paid' = PaidAlso({t}) /\ UNCHANGED status
      BY <1>3, <2>3, NotedUnclean DEF WorkerPays
    <3> QED BY <1>1, <1>3, <3>1, RunPays
  <2>4. CASE WorkerEnds(d)
    <3>1. /\ Holds(d, t) /\ claim' = [claim EXCEPT ![d] = "over"]
          /\ UNCHANGED paid
          /\ status'[t] = Updated(t, IF claim[d] = "paid" THEN "completed" ELSE "failed")
      BY <1>3, <2>4 DEF WorkerEnds, Holds, TypeInv, RowsType
    <3>2. /\ status[t] # "pending" /\ \A e \in Deliveries : Holds(e, t) => e = d
          /\ \A b \in Batches : ~InBatch(b, t)
          /\ status[t] = "failed" => Befell({"overruled"}, t)
      BY <3>1 DEF PaymentOf, SoleHolder, Held
    <3>3. status[t] \in Statuses
      BY DEF TypeInv, RowsType
    <3>4. \/ status[t] = "processing" /\ claim[d] = "paid" /\ status'[t] = "completed"
          \/ status[t] = "processing" /\ claim[d] # "paid" /\ status'[t] = "failed"
          \/ status[t] = "completed" /\ status'[t] = "completed"
          \/ status[t] = "failed" /\ status'[t] = "failed"
      BY <3>1, <3>2, <3>3, UpdatedStatus DEF Statuses, TypeInv
    <3>5. ASSUME paid[t] = 1 PROVE Traced(t)'
      <4>1. claim[d] = "paid"
        BY <1>3, <3>1, <3>5 DEF Holds, PaymentOf, Unsent
      <4>2. Befell({"overruled"}, t) => Befell({"lost", "overruled"}, t)'
        BY BefellGrows DEF Befell
      <4> QED BY <3>2, <3>4, <4>1, <4>2 DEF Traced
    <3> QED BY <1>1, <1>3, <3>1, <3>4, <3>5, RunLeaves
  <2>5. CASE WorkerThrows(d)
    BY <1>3, <2>5, NotedUnclean DEF WorkerThrows
  <2>6. CASE WorkerDies(d)
    <3>1. claim[d] = "claimed"
      BY <1>3, <2>6, NotedUnclean DEF WorkerDies
    <3>2. claim' = [claim EXCEPT ![d] = "over"] /\ UNCHANGED <<status, paid>>
      BY <2>6 DEF WorkerDies
    <3>3. Holds(d, t) /\ status[t] # "pending" /\ paid[t] = 0
      BY <1>3, <3>1 DEF Holds, PaymentOf, SoleHolder, Unsent
    <3>4. paid[t] # 1 /\ status'[t] = status[t]
      BY <3>2, <3>3
    <3> QED BY <1>1, <1>3, <3>2, <3>3, <3>4, RunLeaves
  <2> QED BY <2>1, <2>2, <2>3, <2>4, <2>5, <2>6 DEF WorkerStep
<1> QED BY <1>2, <1>3

\* A handler decides about a row that somebody may hold.
LEMMA PaymentHandler ==
    ASSUME TypeInv, NEW t \in Txns, PaymentOf(t), mishaps \subseteq mishaps',
           NEW u \in Txns, HandlerEnds(u)
    PROVE  PaymentOf(t)'
<1>1. UNCHANGED <<batch, claim, paid>>
  BY DEF HandlerEnds
<1>2. CASE t # u
  <2>1. status'[t] = status[t]
    BY <1>2 DEF HandlerEnds, TypeInv, RowsType
  <2>2. Traced(t) => Traced(t)'
    BY <1>1, <2>1, TracedKept
  <2> QED BY <1>1, <2>1, <2>2, PaymentKept DEF InBatch
<1>3. CASE t = u
  <2>1. PICK s \in {"completed", "failed"} :
          /\ status' = [status EXCEPT ![t] = s]
          /\ Mark("overruled", {v \in {t} : s = "failed" /\ Held(v)})
    BY <1>3 DEF HandlerEnds
  <2>2. status'[t] = s /\ status[t] \in {"pending", "processing"}
    BY <1>3, <2>1 DEF HandlerEnds, TypeInv, RowsType
  <2>3. /\ \A b \in Batches : InBatch(b, t)' <=> InBatch(b, t)
        /\ \A d \in Deliveries : Holds(d, t)' <=> Holds(d, t)
    BY <1>1 DEF InBatch, Holds
  <2>4. Held(t)' => Held(t)
    BY <2>3 DEF Held
  <2>5. s = "failed" /\ Held(t) => Befell({"overruled"}, t)'
    BY <2>1 DEF Mark, Befell
  <2>6. SoleHolder(t)'
    BY <2>2, <2>3, <2>4, <2>5 DEF PaymentOf, SoleHolder
  <2>7. Refused(t)' /\ Unsent(t)'
    BY <1>1, <2>2, <2>3 DEF PaymentOf, Refused, Unsent
  <2>8. paid[t] = 1 => Traced(t)'
    BY <1>1, <2>2, BefellGrows DEF PaymentOf, Traced, WasPaid
  <2> QED BY <1>1, <2>6, <2>7, <2>8 DEF PaymentOf
<1> QED BY <1>2, <1>3

LEMMA PaymentStep ==
    TypeInv /\ IdleInv /\ PaymentInv /\ [Next]_vars => PaymentInv'
<1> SUFFICES ASSUME TypeInv, IdleInv, PaymentInv, [Next]_vars, NEW t \in Txns,
                    Clean(t)'
             PROVE  PaymentOf(t)'
  BY DEF PaymentInv
<1>0. mishaps \subseteq mishaps' /\ PaymentOf(t)
  <2>1. mishaps \subseteq mishaps'
    BY NotesStep DEF vars
  <2> QED BY <2>1, CleanBefore DEF PaymentInv
<1>1. CASE AnyBatchStep
  BY <1>0, <1>1, PaymentFetch, PaymentFloat, PaymentSend, PaymentRow, PaymentEnd
     DEF AnyBatchStep, BatchStep
<1>2. CASE AnyWorkerStep
  BY <1>0, <1>2, PaymentWorker DEF AnyWorkerStep
<1>3. CASE AnyHandlerStep
  BY <1>0, <1>3, PaymentHandler DEF AnyHandlerStep
<1>4. CASE AnyRefundStep \/ UNCHANGED vars
  <2>1. UNCHANGED <<batch, claim, status, paid>>
    BY <1>4, RefundStepKeeps DEF refundOnly, vars
  <2>2. Traced(t) => Traced(t)'
    BY <1>0, <2>1, TracedKept
  <2> QED BY <1>0, <2>1, <2>2, PaymentKept DEF InBatch
<1> QED BY <1>1, <1>2, <1>3, <1>4, NextSplit

----------------------------------------------------------------------------
\* The refund of a row, and what the retries know of it.

\* A refunded row without its marker after a failed attempt is in redone.
LEMMA NotedRedone ==
    ASSUME NEW t \in Txns, Mark("redone", {u \in {t} : Forgotten(u)}),
           ~Befell({"redone", "doubled"}, t)'
    PROVE  ~Forgotten(t)
  BY DEF Mark, Befell

\* A step of the job of t: the marker and the job move together.
LEMMA RefundForward ==
    ASSUME TypeInv, NEW t \in Txns, RefundOf(t), RefundStep(t),
           ~Befell({"redone", "doubled"}, t)'
    PROVE  RefundOf(t)'
<1> USE DEF TypeInv, RowsType, CallsType, JobType
<1>1. CASE Enqueue(t) \/ JobRecords(t) \/ JobNotifies(t) \/ JobForgotten(t)
  BY <1>1 DEF Enqueue, JobRecords, JobNotifies, JobForgotten, NoJob, RefundOf
<1>2. CASE JobStarts(t)
  <2>1. PICK needed \in BOOLEAN :
          /\ IF needed
             THEN /\ refund' = [refund EXCEPT ![t] = "processing"]
                  /\ job' = [job EXCEPT ![t].pc = "pay"]
             ELSE /\ job' = [job EXCEPT ![t].pc = "finished"]
                  /\ UNCHANGED refund
          /\ Mark("redone", {u \in {t} : needed # NeedsRefund(u) /\ Forgotten(u)})
    BY <1>2 DEF JobStarts
  <2>2. UNCHANGED <<late, refunded>> /\ job[t].pc = "waiting"
    BY <1>2 DEF JobStarts
  <2>3. CASE ~needed
    BY <2>1, <2>2, <2>3 DEF RefundOf
  <2>4. CASE needed
    <3>1. job'[t].pc = "pay" /\ refund'[t] = "processing"
      BY <2>1, <2>4
    <3>2. CASE NeedsRefund(t)
      BY <2>2, <3>1, <3>2 DEF NeedsRefund, RefundOf
    <3>3. CASE ~NeedsRefund(t)
      <4>1. ~Forgotten(t)
        BY <2>1, <2>4, <3>3 DEF Mark, Befell
      <4> QED BY <2>2, <3>1, <4>1 DEF Forgotten, RefundOf
    <3> QED BY <3>2, <3>3
  <2> QED BY <2>3, <2>4
<1>3. CASE JobPays(t)
  <2>1. refunded[t] = 0 /\ job'[t].pc = "record" /\ late' = late
    BY <1>3 DEF JobPays, RefundOf
  <2>2. refunded'[t] = 1
    BY <1>3, <2>1 DEF JobPays, Twice
  <2> QED BY <2>1, <2>2 DEF RefundOf
<1> QED BY <1>1, <1>2, <1>3 DEF RefundStep

\* A failed attempt, or one taken from its worker.
LEMMA RefundFails ==
    ASSUME TypeInv, NEW t \in Txns, RefundOf(t), RefundFault(t),
           ~Befell({"redone", "doubled"}, t)'
    PROVE  RefundOf(t)'
<1>1. CASE JobThrows(t)
  <2>1. /\ refunded' = refunded /\ late' = late
        /\ job'[t].pc \in {"waiting", "exhausted"}
    BY <1>1 DEF JobThrows, TypeInv, CallsType, JobType
  <2>2. ~Forgotten(t)
    BY <1>1, NotedRedone DEF JobThrows
  <2> QED BY <2>1, <2>2 DEF Forgotten, RefundOf
<1>2. CASE JobStalls(t)
  <2>1. refunded' = refunded /\ job'[t].pc \in {"waiting", "exhausted"}
    BY <1>2 DEF JobStalls, TypeInv, CallsType, JobType
  <2>2. mishaps' = mishaps \cup ({"redone"} \X {u \in {t} : Forgotten(u)})
                           \cup ({"doubled"} \X {u \in {t} : late'[u] # late[u]})
    BY <1>2 DEF JobStalls
  <2>3. ~Forgotten(t)
    BY <2>2 DEF Befell
  <2>4. late'[t] = late[t]
    BY <2>2 DEF Befell
  <2> QED BY <2>1, <2>3, <2>4 DEF Forgotten, RefundOf
<1>3. ~LatePays(t) /\ ~LateRecords(t)
  BY DEF LatePays, LateRecords, RefundOf
<1> QED BY <1>1, <1>2, <1>3 DEF RefundFault

LEMMA RefundStepInv == TypeInv /\ RefundInv /\ [Next]_vars => RefundInv'
<1> SUFFICES ASSUME TypeInv, RefundInv, [Next]_vars, NEW t \in Txns,
                    ~Befell({"redone", "doubled"}, t)'
             PROVE  RefundOf(t)'
  BY DEF RefundInv
<1>0. RefundOf(t)
  BY BefellStays DEF RefundInv
<1>1. CASE AnyBatchStep \/ AnyWorkerStep \/ AnyHandlerStep \/ UNCHANGED vars
  <2>1. UNCHANGED <<refund, job, late, refunded>>
    BY <1>1, BatchStepKeeps, WorkerStepKeeps
       DEF batchOnly, workerOnly, AnyHandlerStep, HandlerEnds, vars
  <2> QED BY <1>0, <2>1 DEF RefundOf
<1>2. ASSUME NEW u \in Txns, RefundStep(u) \/ RefundFault(u)
      PROVE  RefundOf(t)'
  <2>1. CASE t = u
    BY <1>0, <1>2, <2>1, RefundForward, RefundFails
  <2>2. CASE t # u
    <3>1. /\ refund'[t] = refund[t] /\ refunded'[t] = refunded[t]
          /\ job'[t] = job[t] /\ late'[t] = late[t]
      BY <1>2, <2>2 DEF RefundStep, RefundFault, Enqueue, JobStarts, JobPays,
         JobRecords, JobNotifies, JobForgotten, JobThrows, JobStalls, LatePays,
         LateRecords, FailedHandler, TypeInv, RowsType, CallsType
    <3> QED BY <1>0, <3>1 DEF RefundOf
  <2> QED BY <2>1, <2>2
<1> QED BY <1>1, <1>2, NextSplit DEF AnyRefundStep

----------------------------------------------------------------------------
\* The theorems.

LEMMA InitInv == Init => IInv
<1> SUFFICES ASSUME Init PROVE IInv
  OBVIOUS
<1>1. TypeInv
  <2>1. NotesType
    BY MaxFaultsAssumption DEF Init, NotesType
  <2> QED BY <2>1, MaxAttemptsAssumption DEF Init, TypeInv, RowsType, CallsType,
             BatchType, JobType, NoJob, Statuses, RefundMarks
<1>2. IdleInv /\ FailedInv /\ RefundInv
  BY DEF Init, IdleInv, FailedInv, RefundInv, RefundOf, NoJob
<1>3. PaymentInv
  BY DEF Init, PaymentInv, PaymentOf, SoleHolder, Refused, Unsent, Held, InBatch, Holds
<1> QED BY <1>1, <1>2, <1>3 DEF IInv

LEMMA NextInv == IInv /\ [Next]_vars => IInv'
  BY TypeStep, IdleStep, PaymentStep, FailedStep, RefundStepInv DEF IInv

LEMMA Invariance == Spec => []IInv
  BY InitInv, NextInv, PTL DEF Spec

\* TypeOK: every call, delivery and refund job works on stored rows, and every
\* mishap on the record is one of the named causes at a stored row.
THEOREM TypeCorrect == Spec => []TypeOK
<1>1. IInv => TypeOK
  BY DEF IInv, TypeInv, RowsType, CallsType, NotesType, TypeOK
<1> QED BY <1>1, Invariance, PTL

\* PaidOnce, for any number of rows, of overlapping executeProviderBatchPayout
\* calls, of deliveries to processTransaction and of faults: a second payout is
\* accepted only after two payers held the row together, a paid row was not
\* written down, an accepted payout was answered with an error, or a payer read
\* an old row.
THEOREM PaidOnlyOnce == Spec => []PaidOnce
<1>1. IInv => PaidOnce
  BY DEF IInv, PaymentInv, PaymentOf, PaidOnce, Clean
<1> QED BY <1>1, Invariance, PTL

\* PaidOrRefunded, likewise: processRefundJob refunds no customer who has the
\* money, but for those causes, a lost answer and a handler that failed the row
\* under its payer; and no later answer of a batch, a worker or a handler turns
\* a refunded withdrawal into a completed one.
THEOREM NotPaidAndRefunded == Spec => []PaidOrRefunded
<1>1. IInv => PaidOrRefunded
  <2> SUFFICES ASSUME IInv, NEW t \in Txns, refunded[t] > 0
               PROVE  /\ paid[t] > 0 => Befell({"raced", "unrecorded", "unheard",
                                                "behind", "lost", "overruled"}, t)
                      /\ status[t] = "failed"
    BY DEF PaidOrRefunded
  <2>1. status[t] = "failed"
    BY DEF IInv, FailedInv
  <2>2. ASSUME Clean(t), paid[t] > 0 PROVE Befell({"lost", "overruled"}, t)
    <3>1. Traced(t) /\ SoleHolder(t)
      BY <2>2 DEF IInv, PaymentInv, PaymentOf
    <3>2. ASSUME Held(t) PROVE Befell({"lost", "overruled"}, t)
      BY <2>1, <3>1, <3>2 DEF SoleHolder, Befell
    <3> QED BY <2>1, <3>1, <3>2 DEF Traced, Held, Holds, InBatch
  <2> QED BY <2>1, <2>2 DEF Clean, Befell
<1> QED BY <1>1, Invariance, PTL

\* RefundedOnce, for any number of attempts of a refund job, stalls included: a
\* second refund is sent only after a refunded row was left without its
\* completed marker or the job was taken from a worker that lives on.
THEOREM RefundedOnlyOnce == Spec => []RefundedOnce
<1>1. IInv => RefundedOnce
  BY DEF IInv, RefundInv, RefundOf, RefundedOnce
<1> QED BY <1>1, Invariance, PTL
=============================================================================
