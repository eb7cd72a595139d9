----------------------- MODULE TransactionOutboxProofs -----------------------
(***************************************************************************)
(* Proofs about TransactionOutbox, for any sets of transactions, calls and *)
(* processes and any values of the bounds.                                 *)
(***************************************************************************)
EXTENDS TransactionOutbox, FiniteSetTheorems, TLAPS

-----------------------------------------------------------------------------
(* Updates of the record-valued state *)

\* A store statement that rewrites the columns the relay touches leaves a row.
LEMMA RowUpdate ==
    /\ \A r \in RowType, s \in RowStatuses, n \in NextAttempts :
          [r EXCEPT !.status = s, !.next = n, !.age = "fresh"] \in RowType
    /\ \A r \in RowType :
          /\ [r EXCEPT !.status = "processing", !.age = "fresh"] \in RowType
          /\ [r EXCEPT !.next = "due"] \in RowType
          /\ [r EXCEPT !.age = "stale"] \in RowType
BY DEF RowType, RowStatuses, NextAttempts

\* markFailed leaves a row, its attempts within max_attempts.
LEMMA FailedType == \A r \in RowType : Failed(r) \in RowType
<1> TAKE r \in RowType
<1>1. r.attempts \in 0..MaxAttempts
  BY DEF RowType
<1> DEFINE k == IF r.attempts < MaxAttempts THEN r.attempts + 1 ELSE MaxAttempts
           n == IF r.attempts + 1 >= MaxAttempts THEN "null" ELSE "later"
<1>2. k \in 0..MaxAttempts
  BY <1>1, MaxAttemptsAssumption
<1>3. n \in NextAttempts
  BY DEF NextAttempts
<1>4. Failed(r) = [r EXCEPT !.status = "failed", !.attempts = k, !.next = n,
                            !.age = "fresh"]
  BY DEF Failed
<1> HIDE DEF k, n
<1> QED
  BY <1>2, <1>3, <1>4 DEF RowType, RowStatuses

\* A call that moves on is still a call.
LEMMA CallUpdate ==
    ASSUME NEW f \in [Calls -> CallType], NEW c \in Calls, NEW s \in CallPcs
    PROVE  [f EXCEPT ![c].pc = s] \in [Calls -> CallType]
BY DEF CallType

\* A relay that moves to another statement is still a relay.
LEMMA RelayUpdate ==
    ASSUME NEW r \in RelayType, NEW s \in RelayPcs, NEW S \in SUBSET Calls
    PROVE  /\ [r EXCEPT !.pc = s, !.cur = S] \in RelayType
           /\ [r EXCEPT !.pc = s] \in RelayType
BY DEF RelayType

\* A fresh tick record is a relay.
LEMMA RelayRecord ==
    ASSUME NEW s \in RelayPcs, NEW R \in SUBSET Calls, NEW S \in SUBSET Calls
    PROVE  [pc |-> s, rows |-> R, cur |-> S] \in RelayType
BY DEF RelayType

\* The number of rows in outbox_events, the creation order of a new one.
LEMMA InsertedCount == Cardinality(Inserted) \in Nat
<1>1. IsFiniteSet(Inserted)
  BY CallsAssumption, FS_Subset DEF Inserted
<1> QED
  BY <1>1, FS_CardinalityType

-----------------------------------------------------------------------------
(* Type correctness *)

\* A process that starts has well-typed state.
LEMMA TypeInit == Init => TypeOK
BY MaxFaultsAssumption, MaxAttemptsAssumption
   DEF Init, TypeOK, CallType, CallPcs, RowType, RowStatuses, NextAttempts,
       RelayType, RelayPcs, JobStates, Idle

\* Queue.add keeps the table of BullMQ jobs well-typed.
LEMMA LandType ==
    ASSUME TypeOK, NEW t \in Txns, Land(t)
    PROVE  job' \in [Txns -> JobStates]
BY DEF TypeOK, Land, JobStates

\* So does a dispatch that ends in a Redis error, for all it may change.
LEMMA RedisErrorType ==
    ASSUME TypeOK, NEW p \in Procs, NEW t \in Txns, RedisError(p, t)
    PROVE  /\ job' \in [Txns -> JobStates]
           /\ offline' \in [Procs -> SUBSET Txns]
           /\ faults' \in 0..MaxFaults
<1>1. CASE redis = "down"
  BY <1>1 DEF TypeOK, RedisError
<1>2. CASE redis # "down"
  BY <1>2, LandType, MaxFaultsAssumption DEF TypeOK, RedisError
<1> QED
  BY <1>1, <1>2

\* The SQL statements, the relay and the Redis client keep every variable in
\* its declared range.
LEMMA TypeStep == TypeOK /\ [Next]_vars => TypeOK'
<1> SUFFICES ASSUME TypeOK, [Next]_vars PROVE TypeOK'
  OBVIOUS
<1> USE MaxFaultsAssumption, MaxAttemptsAssumption DEF TypeOK
<1>c. \A s \in CallPcs, c \in Calls :
        [call EXCEPT ![c].pc = s] \in [Calls -> CallType]
  BY CallUpdate
<1>i. Idle \in RelayType
  BY RelayRecord DEF Idle, RelayPcs
<1>r. \A p \in Procs : relay[p].rows \in SUBSET Calls
                        /\ relay[p].cur \in SUBSET Calls
  BY DEF RelayType
<1>t. /\ \A c \in Calls : call[c].tx \in Txns /\ call[c].proc \in Procs
      /\ \A i \in Calls : row[i].tx \in Txns
  BY DEF CallType, RowType
<1>a. ASSUME NEW p \in Procs, NEW i \in Calls, Advance(p, i)
      PROVE relay' \in [Procs -> RelayType]
  <2> DEFINE left == relay[p].rows \ {i}
  <2>1. [pc |-> "loop", rows |-> left, cur |-> {}] \in RelayType
    BY <1>r, RelayRecord DEF RelayPcs
  <2> QED
    BY <2>1, <1>i, <1>a DEF Advance
<1>1. ASSUME NEW c \in Calls, NEW p \in Procs, NEW t \in Txns,
             StartCall(c, p, t)
      PROVE TypeOK'
  <2>1. [pc |-> "dispatch", proc |-> p, tx |-> t] \in CallType
    BY DEF CallType, CallPcs
  <2> QED
    BY <1>1, <2>1 DEF StartCall
<1>2. ASSUME NEW c \in Calls, CallDispatchOk(c)
      PROVE TypeOK'
  <2>1. call' \in [Calls -> CallType]
    BY <1>2, <1>c DEF CallDispatchOk, CallPcs
  <2>2. job' \in [Txns -> JobStates]
    BY <1>2, <1>t, LandType DEF CallDispatchOk
  <2> QED
    BY <1>2, <2>1, <2>2 DEF CallDispatchOk
<1>3. ASSUME NEW c \in Calls, CallRefused(c)
      PROVE TypeOK'
  BY <1>3, <1>c DEF CallRefused, CallPcs
<1>4. ASSUME NEW c \in Calls, CallRedisError(c)
      PROVE TypeOK'
  <2>1. call' \in [Calls -> CallType]
    BY <1>4, <1>c DEF CallRedisError, CallPcs
  <2>2. /\ job' \in [Txns -> JobStates]
        /\ offline' \in [Procs -> SUBSET Txns]
        /\ faults' \in 0..MaxFaults
    BY <1>4, <1>t, RedisErrorType DEF CallRedisError
  <2> QED
    BY <1>4, <2>1, <2>2 DEF CallRedisError
<1>5. ASSUME NEW c \in Calls, InsertSnapshot(c)
      PROVE TypeOK'
  BY <1>5, <1>c DEF InsertSnapshot, CallPcs
<1>6. ASSUME NEW c \in Calls, InsertWrite(c)
      PROVE TypeOK'
  <2>1. [tx |-> call[c].tx, status |-> "pending", attempts |-> 0,
         next |-> "due", age |-> "fresh",
         born |-> Cardinality(Inserted)] \in RowType
    BY <1>t, InsertedCount DEF RowType, RowStatuses, NextAttempts
  <2>2. call' \in [Calls -> CallType]
    BY <1>6, <1>c DEF InsertWrite, CallPcs
  <2> QED
    BY <1>6, <2>1, <2>2 DEF InsertWrite
<1>7. ASSUME NEW p \in Procs, Claim(p)
      PROVE TypeOK'
  <2>1. PICK S \in SUBSET Inserted :
          /\ row' = [i \in Calls |->
                IF i \in S
                THEN [row[i] EXCEPT !.status = "processing", !.age = "fresh"]
                ELSE row[i]]
          /\ reclaimed' = reclaimed
                           \cup {i \in S : row[i].status = "processing"}
          /\ relay' = [relay EXCEPT ![p] =
                          [pc |-> "loop", rows |-> S, cur |-> {}]]
    BY <1>7 DEF Claim
  <2>2. S \in SUBSET Calls
    BY DEF Inserted
  <2>3. relay' \in [Procs -> RelayType]
    BY <2>1, <2>2, RelayRecord DEF RelayPcs
  <2>4. \A i \in Calls :
          [row[i] EXCEPT !.status = "processing", !.age = "fresh"] \in RowType
    BY RowUpdate DEF RowStatuses, NextAttempts
  <2>5. row' \in [Calls -> RowType]
    BY <2>1, <2>4
  <2> QED
    BY <1>7, <2>1, <2>2, <2>3, <2>5 DEF Claim
<1>8. ASSUME NEW p \in Procs, RelayDispatchOk(p)
      PROVE TypeOK'
  <2>1. PICK i \in relay[p].rows :
          /\ Land(row[i].tx)
          /\ relay' = [relay EXCEPT
                ![p] = [@ EXCEPT !.pc = "publish", !.cur = {i}]]
    BY <1>8 DEF RelayDispatchOk
  <2>2. i \in Calls
    BY <1>r
  <2>3. [relay[p] EXCEPT !.pc = "publish", !.cur = {i}] \in RelayType
    BY <2>2, RelayUpdate DEF RelayPcs
  <2>4. job' \in [Txns -> JobStates]
    BY <2>1, <2>2, <1>t, LandType
  <2> QED
    BY <1>8, <2>1, <2>3, <2>4 DEF RelayDispatchOk
<1>9. ASSUME NEW p \in Procs, RelayRedisError(p)
      PROVE TypeOK'
  <2>1. PICK i \in relay[p].rows : RedisError(p, row[i].tx)
    BY <1>9 DEF RelayRedisError
  <2>2. /\ job' \in [Txns -> JobStates]
        /\ offline' \in [Procs -> SUBSET Txns]
        /\ faults' \in 0..MaxFaults
    BY <2>1, <1>r, <1>t, RedisErrorType
  <2>3. [relay[p] EXCEPT !.pc = "release", !.cur = {}] \in RelayType
    BY RelayUpdate DEF RelayPcs
  <2> QED
    BY <1>9, <2>2, <2>3 DEF RelayRedisError
<1>10. ASSUME NEW p \in Procs, RelayRefused(p)
       PROVE TypeOK'
  <2>1. PICK i \in relay[p].rows :
          relay' = [relay EXCEPT
                ![p] = [@ EXCEPT !.pc = "markFailed", !.cur = {i}]]
    BY <1>10 DEF RelayRefused
  <2>2. [relay[p] EXCEPT !.pc = "markFailed", !.cur = {i}] \in RelayType
    BY <1>r, RelayUpdate DEF RelayPcs
  <2> QED
    BY <1>10, <2>1, <2>2 DEF RelayRefused
<1>11. ASSUME NEW p \in Procs, MarkPublished(p)
       PROVE TypeOK'
  <2>1. PICK i \in relay[p].cur :
          /\ row' = [row EXCEPT ![i] = [@ EXCEPT
                !.status = "published", !.next = "null", !.age = "fresh"]]
          /\ Advance(p, i)
    BY <1>11 DEF MarkPublished
  <2>2. i \in Calls
    BY <1>r
  <2>3. [row[i] EXCEPT !.status = "published", !.next = "null",
                       !.age = "fresh"] \in RowType
    BY <2>2, RowUpdate DEF RowStatuses, NextAttempts
  <2>4. row' \in [Calls -> RowType] /\ relay' \in [Procs -> RelayType]
    BY <2>1, <2>2, <2>3, <1>a
  <2> QED
    BY <1>11, <2>4 DEF MarkPublished
<1>12. ASSUME NEW p \in Procs, MarkFailed(p)
       PROVE TypeOK'
  <2>1. PICK i \in relay[p].cur :
          row' = [row EXCEPT ![i] = Failed(@)] /\ Advance(p, i)
    BY <1>12 DEF MarkFailed
  <2>2. i \in Calls
    BY <1>r
  <2>3. Failed(row[i]) \in RowType
    BY <2>2, FailedType
  <2>4. row' \in [Calls -> RowType] /\ relay' \in [Procs -> RelayType]
    BY <2>1, <2>2, <2>3, <1>a
  <2> QED
    BY <1>12, <2>4 DEF MarkFailed
<1>13. ASSUME NEW p \in Procs, Release(p)
       PROVE TypeOK'
  <2>1. PICK i \in relay[p].rows :
          /\ row' = [row EXCEPT ![i] = [@ EXCEPT
                !.status = "pending", !.next = "later", !.age = "fresh"]]
          /\ relay' = [relay EXCEPT ![p] =
                IF @.rows = {i} THEN Idle
                ELSE [pc |-> "release", rows |-> @.rows \ {i}, cur |-> {}]]
    BY <1>13 DEF Release
  <2>2. i \in Calls
    BY <1>r
  <2>3. [row[i] EXCEPT !.status = "pending", !.next = "later",
                       !.age = "fresh"] \in RowType
    BY <2>2, RowUpdate DEF RowStatuses, NextAttempts
  <2>4. [pc |-> "release", rows |-> relay[p].rows \ {i}, cur |-> {}]
          \in RelayType
    BY <1>r, RelayRecord DEF RelayPcs
  <2>5. row' \in [Calls -> RowType]
    BY <2>1, <2>2, <2>3
  <2>6. relay' \in [Procs -> RelayType]
    BY <2>1, <2>4, <1>i
  <2> QED
    BY <1>13, <2>5, <2>6 DEF Release
<1>14. ASSUME NEW p \in Procs, PublishThrows(p)
       PROVE TypeOK'
  <2>1. /\ [relay[p] EXCEPT !.pc = "release", !.cur = {}] \in RelayType
        /\ [relay[p] EXCEPT !.pc = "markFailed"] \in RelayType
    BY RelayUpdate DEF RelayPcs
  <2> QED
    BY <1>14, <2>1 DEF PublishThrows
<1>15. ASSUME NEW p \in Procs, StoreThrows(p)
       PROVE TypeOK'
  BY <1>15, <1>i DEF StoreThrows
<1>16. ASSUME NEW p \in Procs, FlushOffline(p)
       PROVE TypeOK'
  <2>1. job' \in [Txns -> JobStates]
    BY <1>16, LandType DEF FlushOffline
  <2> QED
    BY <1>16, <2>1 DEF FlushOffline
<1>17. ASSUME NEW p \in Procs, CheckRedisMemory(p)
       PROVE TypeOK'
  BY <1>17 DEF CheckRedisMemory
<1>18. ASSUME NEW p \in Procs, Crash(p)
       PROVE TypeOK'
  <2>1. call' \in [Calls -> CallType]
    BY <1>18 DEF Crash, CallType, CallPcs
  <2> QED
    BY <1>18, <1>i, <2>1 DEF Crash
<1>19. ASSUME NEW i \in Calls, NextAttemptDue(i) \/ GoStale(i)
       PROVE TypeOK'
  <2>1. /\ [row[i] EXCEPT !.next = "due"] \in RowType
        /\ [row[i] EXCEPT !.age = "stale"] \in RowType
    BY RowUpdate DEF RowStatuses, NextAttempts
  <2> QED
    BY <1>19, <2>1 DEF NextAttemptDue, GoStale
<1>20. ASSUME NEW t \in Txns, QueueStep(t) \/ JobStalls(t) \/ RemoveFinished(t)
       PROVE TypeOK'
  BY <1>20 DEF QueueStep, WorkerStart, WorkerFinish, JobStalls, RemoveFinished, JobStates
<1>21. ASSUME RedisFails \/ RedisRecovers
       PROVE TypeOK'
  BY <1>21 DEF RedisFails, RedisRecovers
<1>22. ASSUME NEW m \in MemLevels, MemoryMoves(m)
       PROVE TypeOK'
  BY <1>22 DEF MemoryMoves
<1>23. CASE UNCHANGED vars
  BY <1>23 DEF vars
<1> QED
  BY <1>1, <1>2, <1>3, <1>4, <1>5, <1>6, <1>7, <1>8, <1>9, <1>10, <1>11,
     <1>12, <1>13, <1>14, <1>15, <1>16, <1>17, <1>18, <1>19, <1>20, <1>21,
     <1>22, <1>23 DEF Next, CallStep, RelayStep

\* Every reachable state of the outbox is well-typed.
THEOREM TypeCorrect == Spec => []TypeOK
BY TypeInit, TypeStep, PTL DEF Spec

-----------------------------------------------------------------------------
(* The job of a transaction *)

\* A job past "waiting" was picked up.
JobInv ==
    \A t \in Txns : job[t] \in {"active", "finished"} => t \in started

\* The job table changes by an add, a worker step or retention, one job at a
\* time; every other step leaves it alone.
LEMMA JobChange ==
    ASSUME TypeOK, [Next]_vars
    PROVE  \/ UNCHANGED <<job, started>>
           \/ \E t \in Txns : Land(t) /\ UNCHANGED started
           \/ \E t \in Txns : QueueStep(t) \/ JobStalls(t) \/ RemoveFinished(t)
<1> DEFINE Goal ==
           \/ UNCHANGED <<job, started>>
           \/ \E t \in Txns : Land(t) /\ UNCHANGED started
           \/ \E t \in Txns : QueueStep(t) \/ JobStalls(t) \/ RemoveFinished(t)
<1>t. /\ \A c \in Calls : call[c].tx \in Txns
      /\ \A i \in Calls : row[i].tx \in Txns
      /\ \A p \in Procs : relay[p].rows \subseteq Calls
  BY DEF TypeOK, CallType, RowType, RelayType
<1>1. ASSUME NEW c \in Calls, CallStep(c) PROVE Goal
  BY <1>1, <1>t DEF CallStep, CallDispatchOk, CallRefused, CallRedisError,
     RedisError, InsertSnapshot, InsertWrite
<1>2. ASSUME NEW p \in Procs, RelayStep(p) PROVE Goal
  <2>1. CASE RelayDispatchOk(p)
    BY <2>1, <1>t DEF RelayDispatchOk
  <2>2. CASE RelayRedisError(p)
    BY <2>2, <1>t DEF RelayRedisError, RedisError
  <2>3. CASE Claim(p) \/ RelayRefused(p) \/ MarkPublished(p) \/ MarkFailed(p)
             \/ Release(p)
    BY <2>3 DEF Claim, RelayRefused, MarkPublished, MarkFailed, Release
  <2> QED
    BY <1>2, <2>1, <2>2, <2>3 DEF RelayStep
<1>3. ASSUME NEW p \in Procs, FlushOffline(p) PROVE Goal
  BY <1>3 DEF FlushOffline, TypeOK
<1>4. ASSUME NEW p \in Procs,
             PublishThrows(p) \/ StoreThrows(p) \/ CheckRedisMemory(p) \/ Crash(p)
      PROVE Goal
  BY <1>4 DEF PublishThrows, StoreThrows, CheckRedisMemory, Crash
<1>5. ASSUME NEW i \in Calls, NextAttemptDue(i) \/ GoStale(i) PROVE Goal
  BY <1>5 DEF NextAttemptDue, GoStale
<1>6. ASSUME NEW c \in Calls, NEW p \in Procs, NEW t \in Txns,
             StartCall(c, p, t)
      PROVE Goal
  BY <1>6 DEF StartCall
<1>7. ASSUME NEW m \in MemLevels, MemoryMoves(m) PROVE Goal
  BY <1>7 DEF MemoryMoves
<1>8. CASE RedisFails \/ RedisRecovers \/ UNCHANGED vars
  BY <1>8 DEF RedisFails, RedisRecovers, vars
<1> QED
  BY <1>1, <1>2, <1>3, <1>4, <1>5, <1>6, <1>7, <1>8 DEF Next

\* Only a worker takes a job past "waiting".
LEMMA JobInvStep ==
    ASSUME TypeOK, JobInv, [Next]_vars
    PROVE  JobInv'
<1> USE DEF TypeOK, JobStates, JobInv
<1>1. CASE UNCHANGED <<job, started>>
  BY <1>1
<1>2. ASSUME NEW t \in Txns, Land(t), UNCHANGED started
      PROVE JobInv'
  BY <1>2 DEF Land
<1>3. ASSUME NEW t \in Txns, QueueStep(t)
      PROVE JobInv'
  BY <1>3 DEF QueueStep, WorkerStart, WorkerFinish
<1>4. ASSUME NEW t \in Txns, JobStalls(t) \/ RemoveFinished(t)
      PROVE JobInv'
  BY <1>4 DEF JobStalls, RemoveFinished
<1> QED
  BY JobChange, <1>1, <1>2, <1>3, <1>4

\* A transaction whose job a worker will run, or has run, stays so: retention
\* removes only what has run.
LEMMA DeliveredStable ==
    ASSUME TypeOK, JobInv, [Next]_vars,
           NEW t \in Txns, Delivered(t)
    PROVE  Delivered(t)'
<1> USE DEF TypeOK, JobStates, Delivered, JobInv
<1>1. CASE UNCHANGED <<job, started>>
  BY <1>1
<1>2. ASSUME NEW u \in Txns, Land(u), UNCHANGED started
      PROVE Delivered(t)'
  BY <1>2 DEF Land
<1>3. ASSUME NEW u \in Txns, QueueStep(u)
      PROVE Delivered(t)'
  BY <1>3 DEF QueueStep, WorkerStart, WorkerFinish
<1>4. ASSUME NEW u \in Txns, JobStalls(u) \/ RemoveFinished(u)
      PROVE Delivered(t)'
  BY <1>4 DEF JobStalls, RemoveFinished
<1> QED
  BY JobChange, <1>1, <1>2, <1>3, <1>4

\* An add that Redis accepts delivers, whatever the job's state was.
LEMMA LandDelivers ==
    ASSUME TypeOK, JobInv, NEW t \in Txns, Land(t), UNCHANGED started
    PROVE  Delivered(t)'
BY DEF TypeOK, JobStates, Land, Delivered, JobInv

-----------------------------------------------------------------------------
(* The claim of a row *)

\* A relay holds rows of the table only, and nothing between ticks.
RelayShape ==
    \A p \in Procs :
        /\ relay[p].pc = "idle" => relay[p].rows = {}
        /\ relay[p].cur \subseteq relay[p].rows
        /\ relay[p].rows \subseteq Inserted

\* A call has no row before it is accepted, and a rejected one never has.
RowAfterAccept ==
    \A c \in Calls : call[c].pc # "accepted" => row[c].status = "absent"

ClaimInv == RelayShape /\ RowAfterAccept /\ ExclusiveClaim

\* A step that changes no row, no claim and at most moves calls before their
\* insert keeps the claims exclusive.
LEMMA ClaimQuiet ==
    ASSUME TypeOK, ClaimInv, UNCHANGED <<row, relay, reclaimed>>,
           \A c \in Calls : call'[c].pc # "accepted" => call[c].pc # "accepted"
    PROVE  ClaimInv'
BY DEF TypeOK, ClaimInv, RelayShape, RowAfterAccept, ExclusiveClaim, Held,
       Inserted

\* A relay that only moves between statements, or forgets its claims, keeps
\* them exclusive.
LEMMA ClaimShrinks ==
    ASSUME TypeOK, ClaimInv, UNCHANGED <<row, reclaimed>>,
           NEW p \in Procs, NEW r \in RelayType,
           relay' = [relay EXCEPT ![p] = r],
           r.rows \subseteq relay[p].rows, r.cur \subseteq r.rows,
           r.pc = "idle" => r.rows = {},
           \A c \in Calls : call'[c].pc # "accepted" => call[c].pc # "accepted"
    PROVE  ClaimInv'
<1>1. \A q \in Procs : relay'[q] = IF q = p THEN r ELSE relay[q]
  BY DEF TypeOK
<1>2. RelayShape'
  BY <1>1 DEF ClaimInv, RelayShape, Inserted
<1>3. RowAfterAccept'
  BY DEF ClaimInv, RowAfterAccept
<1>4. ExclusiveClaim'
  BY <1>1 DEF ClaimInv, ExclusiveClaim, Held
<1> QED
  BY <1>2, <1>3, <1>4 DEF ClaimInv

\* A row written back by its only holder is held by nobody.
LEMMA ClaimWriteBack ==
    ASSUME TypeOK, ClaimInv, UNCHANGED <<call, reclaimed>>,
           NEW p \in Procs, NEW r \in RelayType,
           NEW i \in relay[p].rows, NEW x \in RowType, x.status # "absent",
           row' = [row EXCEPT ![i] = x],
           relay' = [relay EXCEPT ![p] = r],
           r.rows = relay[p].rows \ {i}, r.cur = {},
           r.pc = "idle" => r.rows = {}
    PROVE  ClaimInv'
<1>0. i \in Calls /\ i \in Inserted
  BY DEF TypeOK, RelayType, ClaimInv, RelayShape
<1>1. \A q \in Procs : relay'[q] = IF q = p THEN r ELSE relay[q]
  BY DEF TypeOK
<1>2. \A j \in Calls : row'[j] = IF j = i THEN x ELSE row[j]
  BY <1>0 DEF TypeOK
<1>3. Inserted' = Inserted
  BY <1>0, <1>2 DEF Inserted
<1>4. RelayShape'
  BY <1>1, <1>3 DEF ClaimInv, RelayShape
<1>5. RowAfterAccept'
  BY <1>0, <1>2 DEF ClaimInv, RowAfterAccept, Inserted
<1>6. ASSUME NEW j \in Calls, j \notin reclaimed'
      PROVE  /\ \A q1, q2 \in Procs : j \in Held(q1)' \cap Held(q2)' => q1 = q2
             /\ \A q \in Procs : j \in Held(q)' => row'[j].status = "processing"
  <2>1. \A q \in Procs : Held(q)' \subseteq Held(q)
    BY <1>1 DEF Held
  <2>2. j \notin reclaimed
    BY <1>6
  <2>3. CASE j = i
    <3>1. \A q \in Procs : i \notin Held(q)'
      BY <1>0, <1>1, <2>1, <2>2, <2>3 DEF ClaimInv, ExclusiveClaim, Held
    <3> QED
      BY <3>1, <2>3
  <2>4. CASE j # i
    BY <1>2, <2>1, <2>2, <2>4 DEF ClaimInv, ExclusiveClaim
  <2> QED
    BY <2>3, <2>4
<1>7. ExclusiveClaim'
  BY <1>6 DEF ExclusiveClaim
<1> QED
  BY <1>4, <1>5, <1>7 DEF ClaimInv

\* A change of one row that keeps its status keeps the claims exclusive.
LEMMA ClaimSameStatus ==
    ASSUME TypeOK, ClaimInv, UNCHANGED <<call, relay, reclaimed>>,
           NEW i \in Calls, NEW x \in RowType, x.status = row[i].status,
           row' = [row EXCEPT ![i] = x]
    PROVE  ClaimInv'
<1>1. \A j \in Calls : row'[j] = IF j = i THEN x ELSE row[j]
  BY DEF TypeOK
<1>2. Inserted' = Inserted
  BY <1>1 DEF Inserted
<1> QED
  BY <1>1, <1>2 DEF ClaimInv, RelayShape, RowAfterAccept, ExclusiveClaim, Held

\* The claim itself: a pending or failed row has no holder, and a stale one is
\* counted as taken over.
LEMMA ClaimClaims ==
    ASSUME TypeOK, ClaimInv, NEW p \in Procs, Claim(p)
    PROVE  ClaimInv'
<1>1. PICK S \in SUBSET Inserted :
        /\ row' = [i \in Calls |->
              IF i \in S
              THEN [row[i] EXCEPT !.status = "processing", !.age = "fresh"]
              ELSE row[i]]
        /\ reclaimed' = reclaimed
                         \cup {i \in S : row[i].status = "processing"}
        /\ relay' = [relay EXCEPT ![p] =
                        [pc |-> "loop", rows |-> S, cur |-> {}]]
  BY DEF Claim
<1>2. \A q \in Procs : relay'[q] = IF q = p
            THEN [pc |-> "loop", rows |-> S, cur |-> {}] ELSE relay[q]
  BY <1>1 DEF TypeOK
<1>3. \A i \in Calls : row'[i].status = IF i \in S THEN "processing"
                                        ELSE row[i].status
  BY <1>1 DEF TypeOK, RowType
<1>4. Inserted' = Inserted
  BY <1>3 DEF Inserted
<1>5. RelayShape'
  BY <1>2, <1>4 DEF ClaimInv, RelayShape
<1>6. RowAfterAccept'
  BY <1>3 DEF ClaimInv, RowAfterAccept, Inserted, Claim
<1>7. ASSUME NEW i \in Calls, i \notin reclaimed'
      PROVE  /\ \A q1, q2 \in Procs : i \in Held(q1)' \cap Held(q2)' => q1 = q2
             /\ \A q \in Procs : i \in Held(q)' => row'[i].status = "processing"
  <2>1. i \notin reclaimed /\ (i \in S => row[i].status # "processing")
    BY <1>1, <1>7
  <2>2. CASE i \in S
    <3>1. \A q \in Procs : i \notin Held(q)
      BY <2>1, <2>2 DEF ClaimInv, ExclusiveClaim
    <3> QED
      BY <1>2, <1>3, <2>2, <3>1 DEF Held
  <2>3. CASE i \notin S
    <3>1. \A q \in Procs : i \in Held(q)' => i \in Held(q)
      BY <1>2, <2>3 DEF Held
    <3> QED
      BY <1>3, <2>1, <2>3, <3>1 DEF ClaimInv, ExclusiveClaim
  <2> QED
    BY <2>2, <2>3
<1>8. ExclusiveClaim'
  BY <1>7 DEF ExclusiveClaim
<1> QED
  BY <1>5, <1>6, <1>8 DEF ClaimInv

\* A new row belongs to no relay.
LEMMA ClaimInsert ==
    ASSUME TypeOK, ClaimInv, NEW c \in Calls, InsertWrite(c)
    PROVE  ClaimInv'
<1>1. row[c].status = "absent" /\ c \notin Inserted
  BY DEF InsertWrite, ClaimInv, RowAfterAccept, Inserted
<1>2. /\ row'[c].status = "pending"
      /\ \A j \in Calls \ {c} : row'[j] = row[j]
  BY DEF InsertWrite, TypeOK
<1>3. /\ call'[c].pc = "accepted"
      /\ \A d \in Calls \ {c} : call'[d] = call[d]
  BY DEF InsertWrite, TypeOK, CallType
<1>4. UNCHANGED <<relay, reclaimed>>
  BY DEF InsertWrite
<1>5. \A p \in Procs : c \notin relay[p].rows
  BY <1>1 DEF ClaimInv, RelayShape
<1>6. RelayShape'
  BY <1>2, <1>4, <1>5 DEF ClaimInv, RelayShape, Inserted
<1>7. RowAfterAccept'
  BY <1>2, <1>3 DEF ClaimInv, RowAfterAccept
<1>8. ExclusiveClaim'
  BY <1>2, <1>4, <1>5 DEF ClaimInv, ExclusiveClaim, Held
<1> QED
  BY <1>6, <1>7, <1>8 DEF ClaimInv

\* What Advance leaves of a tick.
LEMMA AdvanceRelay ==
    ASSUME TypeOK, NEW p \in Procs, NEW i, Advance(p, i)
    PROVE  \E r \in RelayType :
             /\ relay' = [relay EXCEPT ![p] = r]
             /\ r.rows = relay[p].rows \ {i}
             /\ r.cur = {}
             /\ r.pc = "idle" => r.rows = {}
             /\ r.pc # "publish"
<1> DEFINE left == relay[p].rows \ {i}
           r == IF left = {} THEN Idle
                ELSE [pc |-> "loop", rows |-> left, cur |-> {}]
<1>1. left \in SUBSET Calls
  BY DEF TypeOK, RelayType
<1>2. r \in RelayType
  BY <1>1, RelayRecord DEF Idle, RelayPcs
<1>3. relay' = [relay EXCEPT ![p] = r]
  BY DEF Advance
<1>4. r.rows = left /\ r.cur = {} /\ (r.pc = "idle" => r.rows = {})
      /\ r.pc # "publish"
  BY DEF Idle
<1> QED
  BY <1>2, <1>3, <1>4

\* What one release leaves of a tick.
LEMMA ReleaseRelay ==
    ASSUME TypeOK, NEW p \in Procs, NEW i,
           relay' = [relay EXCEPT ![p] =
                IF @.rows = {i} THEN Idle
                ELSE [pc |-> "release", rows |-> @.rows \ {i}, cur |-> {}]],
           i \in relay[p].rows
    PROVE  \E r \in RelayType :
             /\ relay' = [relay EXCEPT ![p] = r]
             /\ r.rows = relay[p].rows \ {i}
             /\ r.cur = {}
             /\ r.pc = "idle" => r.rows = {}
             /\ r.pc # "publish"
<1> DEFINE left == relay[p].rows \ {i}
           r == IF relay[p].rows = {i} THEN Idle
                ELSE [pc |-> "release", rows |-> left, cur |-> {}]
<1>1. left \in SUBSET Calls
  BY DEF TypeOK, RelayType
<1>2. r \in RelayType
  BY <1>1, RelayRecord DEF Idle, RelayPcs
<1>3. relay' = [relay EXCEPT ![p] = r]
  OBVIOUS
<1>4. r.rows = left /\ r.cur = {} /\ (r.pc = "idle" => r.rows = {})
      /\ r.pc # "publish"
  BY DEF Idle
<1> QED
  BY <1>2, <1>3, <1>4

\* Every step keeps each row with at most one relay until a stale takeover.
LEMMA ClaimInvStep ==
    ASSUME TypeOK, ClaimInv, [Next]_vars
    PROVE  ClaimInv'
<1>t. /\ \A c \in Calls : call[c] \in CallType
      /\ \A p \in Procs : relay[p] \in RelayType
      /\ \A i \in Calls : row[i] \in RowType
  BY DEF TypeOK
<1>s. \A p \in Procs : \A i \in relay[p].cur : i \in relay[p].rows
  BY DEF ClaimInv, RelayShape
<1>u. \A p \in Procs : \A i \in relay[p].rows : i \in Calls
  BY DEF ClaimInv, RelayShape, Inserted
<1>i. Idle \in RelayType /\ Idle.rows = {} /\ Idle.cur = {}
  BY RelayRecord DEF Idle, RelayPcs
<1>1. ASSUME NEW c \in Calls, NEW p \in Procs, NEW t \in Txns,
             StartCall(c, p, t)
      PROVE ClaimInv'
  <2>1. \A d \in Calls :
          call'[d].pc # "accepted" => call[d].pc # "accepted"
    BY <1>1 DEF StartCall, TypeOK
  <2> QED
    BY <1>1, <2>1, ClaimQuiet DEF StartCall
<1>2. ASSUME NEW c \in Calls, CallStep(c)
      PROVE ClaimInv'
  <2>1. CASE InsertWrite(c)
    BY <2>1, ClaimInsert
  <2>2. CASE CallDispatchOk(c) \/ CallRefused(c) \/ CallRedisError(c)
             \/ InsertSnapshot(c)
    <3>1. PICK s : call[c].pc # "accepted" /\ call' = [call EXCEPT ![c].pc = s]
      BY <2>2 DEF CallDispatchOk, CallRefused, CallRedisError, InsertSnapshot
    <3>2. \A d \in Calls :
            call'[d].pc # "accepted" => call[d].pc # "accepted"
      BY <3>1 DEF TypeOK
    <3>3. UNCHANGED <<row, relay, reclaimed>>
      BY <2>2 DEF CallDispatchOk, CallRefused, CallRedisError, InsertSnapshot
    <3> QED
      BY <3>2, <3>3, ClaimQuiet
  <2> QED
    BY <1>2, <2>1, <2>2 DEF CallStep
<1>3. ASSUME NEW p \in Procs, Claim(p)
      PROVE ClaimInv'
  BY <1>3, ClaimClaims
<1>4. ASSUME NEW p \in Procs,
             RelayDispatchOk(p) \/ RelayRefused(p) \/ RelayRedisError(p)
             \/ PublishThrows(p)
      PROVE ClaimInv'
  <2>1. PICK s \in RelayPcs \ {"idle"}, S \in SUBSET relay[p].rows :
          relay' = [relay EXCEPT ![p] = [@ EXCEPT !.pc = s, !.cur = S]]
    <3>1. CASE RelayDispatchOk(p)
      BY <3>1 DEF RelayDispatchOk, RelayPcs
    <3>2. CASE RelayRefused(p)
      BY <3>2 DEF RelayRefused, RelayPcs
    <3>3. CASE RelayRedisError(p)
      BY <3>3 DEF RelayRedisError, RelayPcs
    <3>4. CASE PublishThrows(p)
      <4>1. CASE relay' = [relay EXCEPT
                ![p] = [@ EXCEPT !.pc = "release", !.cur = {}]]
        BY <4>1 DEF RelayPcs
      <4>2. CASE relay' = [relay EXCEPT ![p].pc = "markFailed"]
        <5>1. [relay[p] EXCEPT !.pc = "markFailed"]
                = [relay[p] EXCEPT !.pc = "markFailed", !.cur = relay[p].cur]
          BY <1>t DEF RelayType
        <5>2. relay' = [relay EXCEPT ![p] = [@ EXCEPT !.pc = "markFailed"]]
          BY <4>2
        <5>3. relay[p].cur \in SUBSET relay[p].rows
          BY <1>s
        <5>4. relay' = [relay EXCEPT ![p] =
                 [relay[p] EXCEPT !.pc = "markFailed", !.cur = relay[p].cur]]
          BY <5>1, <5>2
        <5>5. "markFailed" \in RelayPcs \ {"idle"}
          BY DEF RelayPcs
        <5> QED
          BY <5>3, <5>4, <5>5
      <4> QED
        BY <3>4, <4>1, <4>2 DEF PublishThrows
    <3> QED
      BY <1>4, <3>1, <3>2, <3>3, <3>4
  <2> DEFINE r == [relay[p] EXCEPT !.pc = s, !.cur = S]
  <2>2. r \in RelayType
    <3>1. S \in SUBSET Calls
      BY <1>u
    <3> QED
      BY <1>t, <3>1, RelayUpdate
  <2>3. r.rows = relay[p].rows /\ r.cur = S /\ r.pc # "idle"
    BY <1>t DEF RelayType
  <2>4. UNCHANGED <<call, row, reclaimed>>
    BY <1>4 DEF RelayDispatchOk, RelayRefused, RelayRedisError, PublishThrows
  <2>5. relay' = [relay EXCEPT ![p] = r]
    BY <2>1
  <2> HIDE DEF r
  <2> QED
    BY <2>2, <2>3, <2>4, <2>5, ClaimShrinks
<1>5. ASSUME NEW p \in Procs, StoreThrows(p) \/ Crash(p)
      PROVE ClaimInv'
  <2>1. relay' = [relay EXCEPT ![p] = Idle] /\ UNCHANGED <<row, reclaimed>>
    BY <1>5 DEF StoreThrows, Crash
  <2>2. \A c \in Calls : call'[c].pc # "accepted" => call[c].pc # "accepted"
    BY <1>5 DEF StoreThrows, Crash
  <2> QED
    BY <2>1, <2>2, <1>i, ClaimShrinks
<1>6. ASSUME NEW p \in Procs, MarkPublished(p)
      PROVE ClaimInv'
  <2>1. PICK i \in relay[p].cur :
          /\ row' = [row EXCEPT ![i] = [@ EXCEPT
                !.status = "published", !.next = "null", !.age = "fresh"]]
          /\ Advance(p, i)
    BY <1>6 DEF MarkPublished
  <2> DEFINE x == [row[i] EXCEPT
                !.status = "published", !.next = "null", !.age = "fresh"]
  <2>2. i \in Calls /\ i \in relay[p].rows
    BY <1>s, <1>u
  <2>3. x \in RowType
    BY <1>t, <2>2, RowUpdate DEF RowStatuses, NextAttempts
  <2>s. x.status = "published"
    BY <1>t, <2>2 DEF RowType
  <2>4. row' = [row EXCEPT ![i] = x] /\ UNCHANGED <<call, reclaimed>>
    BY <1>6, <2>1 DEF MarkPublished
  <2>5. PICK r \in RelayType :
             /\ relay' = [relay EXCEPT ![p] = r]
             /\ r.rows = relay[p].rows \ {i}
             /\ r.cur = {}
             /\ r.pc = "idle" => r.rows = {}
    BY <2>1, AdvanceRelay
  <2> HIDE DEF x
  <2> QED
    BY <2>2, <2>3, <2>s, <2>4, <2>5, ClaimWriteBack
<1>7. ASSUME NEW p \in Procs, MarkFailed(p)
      PROVE ClaimInv'
  <2>1. PICK i \in relay[p].cur :
          row' = [row EXCEPT ![i] = Failed(@)] /\ Advance(p, i)
    BY <1>7 DEF MarkFailed
  <2>2. i \in Calls /\ i \in relay[p].rows
    BY <1>s, <1>u
  <2>3. Failed(row[i]) \in RowType /\ Failed(row[i]).status = "failed"
    BY <1>t, <2>2, FailedType DEF Failed, RowType
  <2>4. row' = [row EXCEPT ![i] = Failed(row[i])] /\ UNCHANGED <<call, reclaimed>>
    BY <1>7, <2>1 DEF MarkFailed
  <2>5. PICK r \in RelayType :
             /\ relay' = [relay EXCEPT ![p] = r]
             /\ r.rows = relay[p].rows \ {i}
             /\ r.cur = {}
             /\ r.pc = "idle" => r.rows = {}
    BY <2>1, AdvanceRelay
  <2> QED
    BY <2>2, <2>3, <2>4, <2>5, ClaimWriteBack
<1>8. ASSUME NEW p \in Procs, Release(p)
      PROVE ClaimInv'
  <2>1. PICK i \in relay[p].rows :
          /\ row' = [row EXCEPT ![i] = [@ EXCEPT
                !.status = "pending", !.next = "later", !.age = "fresh"]]
          /\ relay' = [relay EXCEPT ![p] =
                IF @.rows = {i} THEN Idle
                ELSE [pc |-> "release", rows |-> @.rows \ {i}, cur |-> {}]]
    BY <1>8 DEF Release
  <2> DEFINE x == [row[i] EXCEPT
                !.status = "pending", !.next = "later", !.age = "fresh"]
  <2>2. i \in Calls
    BY <1>u
  <2>3. x \in RowType
    BY <1>t, <2>2, RowUpdate DEF RowStatuses, NextAttempts
  <2>s. x.status = "pending"
    BY <1>t, <2>2 DEF RowType
  <2>4. row' = [row EXCEPT ![i] = x] /\ UNCHANGED <<call, reclaimed>>
    BY <1>8, <2>1 DEF Release
  <2>5. PICK r \in RelayType :
             /\ relay' = [relay EXCEPT ![p] = r]
             /\ r.rows = relay[p].rows \ {i}
             /\ r.cur = {}
             /\ r.pc = "idle" => r.rows = {}
    BY <2>1, ReleaseRelay
  <2> HIDE DEF x
  <2> QED
    BY <2>2, <2>3, <2>s, <2>4, <2>5, ClaimWriteBack
<1>9. ASSUME NEW i \in Calls, NextAttemptDue(i) \/ GoStale(i)
      PROVE ClaimInv'
  <2>1. /\ [row[i] EXCEPT !.next = "due"] \in RowType
        /\ [row[i] EXCEPT !.age = "stale"] \in RowType
    BY <1>t, RowUpdate
  <2>2. /\ [row[i] EXCEPT !.next = "due"].status = row[i].status
        /\ [row[i] EXCEPT !.age = "stale"].status = row[i].status
    BY <1>t DEF RowType
  <2> QED
    BY <1>9, <2>1, <2>2, ClaimSameStatus DEF NextAttemptDue, GoStale
<1>10. ASSUME UNCHANGED <<call, row, relay, reclaimed>>
       PROVE ClaimInv'
  BY <1>10, ClaimQuiet
<1>11. ASSUME NEW p \in Procs, FlushOffline(p) \/ CheckRedisMemory(p)
       PROVE ClaimInv'
  BY <1>10, <1>11 DEF FlushOffline, CheckRedisMemory
<1>12. ASSUME NEW t \in Txns, QueueStep(t) \/ JobStalls(t) \/ RemoveFinished(t)
       PROVE ClaimInv'
  BY <1>10, <1>12 DEF QueueStep, WorkerStart, WorkerFinish, JobStalls, RemoveFinished
<1>13. ASSUME NEW m \in MemLevels, MemoryMoves(m)
       PROVE ClaimInv'
  BY <1>10, <1>13 DEF MemoryMoves
<1>14. CASE RedisFails \/ RedisRecovers \/ UNCHANGED vars
  BY <1>10, <1>14 DEF RedisFails, RedisRecovers, vars
<1> QED
  BY <1>1, <1>2, <1>3, <1>4, <1>5, <1>6, <1>7, <1>8, <1>9, <1>11, <1>12,
     <1>13, <1>14 DEF Next, RelayStep

\* FOR UPDATE SKIP LOCKED and the status column give every row to one relay at
\* a time, and that relay alone may write it back, until a stale takeover.
THEOREM ClaimsExclusive == Spec => []ExclusiveClaim
<1>1. Init => ClaimInv
  BY DEF Init, ClaimInv, RelayShape, RowAfterAccept, ExclusiveClaim, Held, Idle
<1>2. TypeOK /\ ClaimInv /\ [Next]_vars => ClaimInv'
  BY ClaimInvStep
<1>3. ClaimInv => ExclusiveClaim
  BY DEF ClaimInv
<1> QED
  BY <1>1, <1>2, <1>3, TypeCorrect, PTL DEF Spec

-----------------------------------------------------------------------------
(* Delivery *)

\* markPublished follows a successful dispatch of the same transaction.
PublishAfterDispatch ==
    /\ \A p \in Procs : relay[p].pc = "publish" =>
          \A i \in relay[p].cur : Delivered(row[i].tx)
    /\ \A i \in Calls : row[i].status = "published" => Delivered(row[i].tx)

\* next_attempt_at is NULL only in published and dead-lettered rows.
RetryScheduled ==
    \A i \in Calls :
        row[i].status \in {"pending", "processing"} => row[i].next # "null"

\* An answered call left a job or a row behind.
AcceptedSomewhere ==
    \A c \in Calls : call[c].pc = "accepted" =>
        \/ Delivered(call[c].tx)
        \/ \E i \in Inserted : row[i].tx = call[c].tx

DeliveryInv == PublishAfterDispatch /\ RetryScheduled /\ AcceptedSomewhere

\* A step after which every delivered transaction is still delivered.
DeliveryKept == \A t \in Txns : Delivered(t) => Delivered(t)'

\* An answered call stays covered when no row disappears.
LEMMA AcceptedKept ==
    ASSUME TypeOK, AcceptedSomewhere, DeliveryKept,
           \A i \in Inserted : i \in Inserted' /\ row'[i].tx = row[i].tx,
           \A c \in Calls : call'[c].pc = "accepted" =>
              \/ call[c].pc = "accepted" /\ call'[c].tx = call[c].tx
              \/ Delivered(call[c].tx)' /\ call'[c].tx = call[c].tx
              \/ \E i \in Inserted' : row'[i].tx = call'[c].tx
    PROVE  AcceptedSomewhere'
<1> SUFFICES ASSUME NEW c \in Calls, call'[c].pc = "accepted"
             PROVE  \/ Delivered(call[c].tx)'
                    \/ \E i \in Inserted' : row'[i].tx = call'[c].tx
  BY DEF AcceptedSomewhere
<1>1. call[c].tx \in Txns
  BY DEF TypeOK, CallType
<1>2. CASE call[c].pc = "accepted" /\ call'[c].tx = call[c].tx
  <2>1. CASE Delivered(call[c].tx)
    BY <1>1, <1>2, <2>1 DEF DeliveryKept, Delivered
  <2>2. CASE \E i \in Inserted : row[i].tx = call[c].tx
    BY <1>2, <2>2
  <2> QED
    BY <1>2, <2>1, <2>2 DEF AcceptedSomewhere
<1> QED
  BY <1>2

\* Steps that leave the table alone: a relay enters markPublished only with a
\* delivered row in hand.
LEMMA DeliverySameRows ==
    ASSUME TypeOK, PublishAfterDispatch, RetryScheduled, DeliveryKept,
           UNCHANGED row,
           \A q \in Procs : relay'[q].pc = "publish" =>
              \/ relay'[q] = relay[q]
              \/ \A i \in relay'[q].cur : Delivered(row[i].tx)'
    PROVE  PublishAfterDispatch' /\ RetryScheduled'
<1>1. \A i \in Calls : row[i].tx \in Txns
  BY DEF TypeOK, RowType
<1>2. \A q \in Procs : \A i \in relay[q].cur : i \in Calls
  BY DEF TypeOK, RelayType
<1>3. RetryScheduled'
  BY DEF RetryScheduled
<1>4. \A i \in Calls : row'[i].status = "published" => Delivered(row[i].tx)'
  BY <1>1 DEF PublishAfterDispatch, DeliveryKept, Delivered
<1>5. ASSUME NEW q \in Procs, relay'[q].pc = "publish", NEW i \in relay'[q].cur
      PROVE  Delivered(row[i].tx)'
  <2>1. CASE relay'[q] = relay[q]
    BY <1>1, <1>2, <1>5, <2>1 DEF PublishAfterDispatch, DeliveryKept, Delivered
  <2> QED
    BY <1>5, <2>1
<1> QED
  BY <1>3, <1>4, <1>5 DEF PublishAfterDispatch

\* Statements that rewrite one row: a row becomes published only when its
\* transaction is delivered, and pending only with a next attempt.
LEMMA DeliveryRowWrite ==
    ASSUME TypeOK, DeliveryInv, DeliveryKept, UNCHANGED call,
           NEW i \in Inserted, NEW x \in RowType,
           x.tx = row[i].tx, x.status # "absent",
           x.status = "published" => Delivered(row[i].tx),
           x.status \in {"pending", "processing"} => x.next # "null",
           row' = [row EXCEPT ![i] = x],
           \A q \in Procs : relay'[q].pc = "publish" => relay'[q] = relay[q]
    PROVE  DeliveryInv'
<1>0. i \in Calls
  BY DEF Inserted
<1>1. \A j \in Calls : row'[j] = IF j = i THEN x ELSE row[j]
  BY <1>0 DEF TypeOK
<1>2. \A j \in Calls : row'[j].tx = row[j].tx /\ row[j].tx \in Txns
  BY <1>1 DEF TypeOK, RowType
<1>3. RetryScheduled'
  BY <1>1 DEF DeliveryInv, RetryScheduled
<1>4. ASSUME NEW j \in Calls, row'[j].status = "published"
      PROVE  Delivered(row[j].tx)'
  <2>1. Delivered(row[j].tx)
    BY <1>1, <1>4 DEF DeliveryInv, PublishAfterDispatch
  <2> QED
    BY <1>2, <2>1 DEF DeliveryKept, Delivered
<1>5. ASSUME NEW q \in Procs, relay'[q].pc = "publish", NEW j \in relay'[q].cur
      PROVE  Delivered(row[j].tx)'
  <2>1. relay'[q] = relay[q]
    BY <1>5
  <2>2. j \in Calls
    BY <1>5, <2>1 DEF TypeOK, RelayType
  <2>3. Delivered(row[j].tx)
    BY <1>5, <2>1 DEF DeliveryInv, PublishAfterDispatch
  <2> QED
    BY <1>2, <2>2, <2>3 DEF DeliveryKept, Delivered
<1>6. \A j \in Inserted : j \in Inserted' /\ row'[j].tx = row[j].tx
  BY <1>1, <1>2 DEF Inserted
<1>7. AcceptedSomewhere'
  BY <1>6, AcceptedKept DEF DeliveryInv
<1> QED
  BY <1>3, <1>4, <1>5, <1>7 DEF DeliveryInv, PublishAfterDispatch

\* Every step keeps what has been accepted in BullMQ or in the table.
LEMMA DeliveryInvStep ==
    ASSUME TypeOK, TypeOK', JobInv, ClaimInv, DeliveryInv, [Next]_vars
    PROVE  DeliveryInv'
<1>d. DeliveryKept
  BY DeliveredStable DEF DeliveryKept, JobInv
<1>t. /\ \A p \in Procs : relay[p] \in RelayType
      /\ \A i \in Calls : row[i] \in RowType
  BY DEF TypeOK
<1>x. /\ \A c \in Calls : call[c].tx \in Txns
      /\ \A i \in Calls : row[i].tx \in Txns
  BY DEF TypeOK, CallType, RowType
<1>s. \A p \in Procs : \A i \in relay[p].cur : i \in relay[p].rows
  BY DEF ClaimInv, RelayShape
<1>u. \A p \in Procs : \A i \in relay[p].rows : i \in Inserted /\ i \in Calls
  BY DEF ClaimInv, RelayShape, Inserted
<1>v. \A i \in Inserted : row[i].status # "absent"
  BY DEF Inserted
<1>q. ASSUME UNCHANGED <<call, row>>,
             \A q \in Procs : relay'[q].pc = "publish" =>
                \/ relay'[q] = relay[q]
                \/ \A i \in relay'[q].cur : Delivered(row[i].tx)'
      PROVE DeliveryInv'
  <2>1. PublishAfterDispatch' /\ RetryScheduled'
    BY <1>q, <1>d, DeliverySameRows DEF DeliveryInv
  <2>2. \A i \in Inserted : i \in Inserted' /\ row'[i].tx = row[i].tx
    BY <1>q DEF Inserted
  <2>3. AcceptedSomewhere'
    BY <1>q, <1>d, <2>2, AcceptedKept DEF DeliveryInv
  <2> QED
    BY <2>1, <2>3 DEF DeliveryInv
<1>1. ASSUME NEW c \in Calls,
             \/ \E p \in Procs, t \in Txns : StartCall(c, p, t)
             \/ CallDispatchOk(c) \/ CallRefused(c) \/ CallRedisError(c)
             \/ InsertSnapshot(c)
      PROVE DeliveryInv'
  <2>1. UNCHANGED <<row, relay>>
    BY <1>1 DEF StartCall, CallDispatchOk, CallRefused, CallRedisError,
       InsertSnapshot
  <2>2. PublishAfterDispatch' /\ RetryScheduled'
    BY <2>1, <1>d, DeliverySameRows DEF DeliveryInv
  <2>3. \A i \in Inserted : i \in Inserted' /\ row'[i].tx = row[i].tx
    BY <2>1 DEF Inserted
  <2>4. \A e \in Calls \ {c} : call'[e] = call[e]
    BY <1>1 DEF StartCall, CallDispatchOk, CallRefused, CallRedisError,
       InsertSnapshot, TypeOK
  <2>5. ASSUME call'[c].pc = "accepted"
        PROVE  \/ Delivered(call[c].tx)' /\ call'[c].tx = call[c].tx
               \/ \E i \in Inserted' : row'[i].tx = call'[c].tx
    <3>1. CASE CallDispatchOk(c)
      <4>1. call'[c].tx = call[c].tx
        BY <3>1 DEF CallDispatchOk, TypeOK, CallType
      <4>2. PICK t \in Txns : t = call[c].tx
        BY <1>x
      <4>3. Land(t) /\ UNCHANGED started
        BY <3>1, <4>2 DEF CallDispatchOk
      <4>4. Delivered(t)'
        BY <4>3, LandDelivers DEF JobInv
      <4> QED
        BY <4>1, <4>2, <4>4 DEF Delivered
    <3>2. CASE InsertSnapshot(c)
      <4>1. call'[c].tx = call[c].tx
        BY <3>2 DEF InsertSnapshot, TypeOK, CallType
      <4>2. call' = [call EXCEPT ![c].pc =
              IF \E i \in Inserted : row[i].tx = call[c].tx /\ Outstanding(row[i])
              THEN "accepted" ELSE "write"]
        BY <3>2 DEF InsertSnapshot
      <4>3. \E i \in Inserted : row[i].tx = call[c].tx
        BY <2>5, <4>2 DEF TypeOK, CallType
      <4> QED
        BY <2>3, <4>1, <4>3
    <3>3. CASE \/ \E p \in Procs, t \in Txns : StartCall(c, p, t)
               \/ CallRefused(c) \/ CallRedisError(c)
      <4>1. call'[c].pc # "accepted"
        BY <3>3 DEF StartCall, CallRefused, CallRedisError, TypeOK, CallType
      <4> QED
        BY <2>5, <4>1
    <3> QED
      BY <1>1, <3>1, <3>2, <3>3
  <2>6. AcceptedSomewhere'
    BY <1>d, <2>3, <2>4, <2>5, AcceptedKept DEF DeliveryInv
  <2> QED
    BY <2>2, <2>6 DEF DeliveryInv
<1>2. ASSUME NEW c \in Calls, InsertWrite(c)
      PROVE DeliveryInv'
  <2>1. c \notin Inserted
    BY <1>2 DEF InsertWrite, ClaimInv, RowAfterAccept, Inserted
  <2>2. /\ row'[c].tx = call[c].tx
        /\ row'[c].status = "pending"
        /\ row'[c].next = "due"
        /\ \A j \in Calls \ {c} : row'[j] = row[j]
    BY <1>2 DEF InsertWrite, TypeOK
  <2>3. /\ call'[c].tx = call[c].tx
        /\ \A e \in Calls \ {c} : call'[e] = call[e]
    BY <1>2 DEF InsertWrite, TypeOK, CallType
  <2>4. UNCHANGED relay
    BY <1>2 DEF InsertWrite
  <2>5. c \in Inserted'
    BY <2>2 DEF Inserted
  <2>6. \A i \in Inserted : i \in Inserted' /\ row'[i].tx = row[i].tx
    BY <2>1, <2>2 DEF Inserted
  <2>7. AcceptedSomewhere'
    BY <1>d, <2>2, <2>3, <2>5, <2>6, AcceptedKept DEF DeliveryInv
  <2>8. RetryScheduled'
    BY <2>2 DEF DeliveryInv, RetryScheduled
  <2>9. ASSUME NEW q \in Procs, relay'[q].pc = "publish", NEW i \in relay'[q].cur
        PROVE  Delivered(row[i].tx)'
    <3>1. i \in Inserted /\ i \in Calls /\ Delivered(row[i].tx)
      BY <1>s, <1>u, <2>4, <2>9 DEF DeliveryInv, PublishAfterDispatch
    <3> QED
      BY <1>x, <1>d, <2>6, <3>1 DEF DeliveryKept, Delivered
  <2>10. ASSUME NEW i \in Calls, row'[i].status = "published"
         PROVE  Delivered(row[i].tx)'
    <3>1. row'[i] = row[i] /\ Delivered(row[i].tx)
      BY <2>2, <2>10 DEF DeliveryInv, PublishAfterDispatch
    <3> QED
      BY <1>x, <1>d, <3>1 DEF DeliveryKept, Delivered
  <2> QED
    BY <2>7, <2>8, <2>9, <2>10 DEF DeliveryInv, PublishAfterDispatch
<1>3. ASSUME NEW p \in Procs, Claim(p)
      PROVE DeliveryInv'
  <2>1. PICK S \in SUBSET Inserted :
        /\ OldestBatch(S)
        /\ row' = [i \in Calls |->
              IF i \in S
              THEN [row[i] EXCEPT !.status = "processing", !.age = "fresh"]
              ELSE row[i]]
        /\ relay' = [relay EXCEPT ![p] =
                        [pc |-> "loop", rows |-> S, cur |-> {}]]
    BY <1>3 DEF Claim
  <2>2. \A i \in S : i \in Calls /\ row[i].next # "null"
    BY <2>1 DEF OldestBatch, Claimable, Inserted, DeliveryInv, RetryScheduled
  <2>3. \A i \in Calls :
          /\ row'[i].tx = row[i].tx
          /\ row'[i].next = row[i].next
          /\ i \in S => row'[i].status = "processing"
          /\ i \notin S => row'[i] = row[i]
    <3> TAKE i \in Calls
    <3> DEFINE x == [row[i] EXCEPT !.status = "processing", !.age = "fresh"]
    <3>1. x.tx = row[i].tx /\ x.next = row[i].next /\ x.status = "processing"
      BY <1>t DEF RowType
    <3>2. row'[i] = IF i \in S THEN x ELSE row[i]
      BY <2>1
    <3> HIDE DEF x
    <3> QED
      BY <3>1, <3>2
  <2>4. \A q \in Procs : relay'[q].pc = "publish" => relay'[q] = relay[q]
    BY <2>1 DEF TypeOK
  <2>5. RetryScheduled'
    BY <2>2, <2>3 DEF DeliveryInv, RetryScheduled
  <2>6. \A i \in Inserted : i \in Inserted' /\ row'[i].tx = row[i].tx
    BY <2>3 DEF Inserted
  <2>7. AcceptedSomewhere'
    BY <1>3, <1>d, <2>6, AcceptedKept DEF DeliveryInv, Claim
  <2>8. ASSUME NEW q \in Procs, relay'[q].pc = "publish", NEW i \in relay'[q].cur
        PROVE  Delivered(row[i].tx)'
    <3>1. i \in Calls /\ Delivered(row[i].tx)
      BY <1>s, <1>u, <2>4, <2>8 DEF DeliveryInv, PublishAfterDispatch
    <3> QED
      BY <1>x, <1>d, <2>3, <3>1 DEF DeliveryKept, Delivered
  <2>9. ASSUME NEW i \in Calls, row'[i].status = "published"
        PROVE  Delivered(row[i].tx)'
    <3>1. row'[i] = row[i] /\ Delivered(row[i].tx)
      BY <2>3, <2>9 DEF DeliveryInv, PublishAfterDispatch
    <3> QED
      BY <1>x, <1>d, <3>1 DEF DeliveryKept, Delivered
  <2> QED
    BY <2>5, <2>7, <2>8, <2>9 DEF DeliveryInv, PublishAfterDispatch
<1>4. ASSUME NEW p \in Procs, RelayDispatchOk(p)
      PROVE DeliveryInv'
  <2>1. PICK i \in relay[p].rows :
          /\ Land(row[i].tx)
          /\ relay' = [relay EXCEPT
                ![p] = [@ EXCEPT !.pc = "publish", !.cur = {i}]]
    BY <1>4 DEF RelayDispatchOk
  <2>2. PICK t \in Txns : t = row[i].tx
    BY <1>u, <1>x
  <2>3. Land(t) /\ UNCHANGED <<call, row, started>>
    BY <1>4, <2>1, <2>2 DEF RelayDispatchOk
  <2>4. Delivered(t)'
    BY <2>3, LandDelivers DEF JobInv
  <2>5. relay'[p].cur = {i} /\ \A q \in Procs \ {p} : relay'[q] = relay[q]
    BY <1>t, <2>1 DEF TypeOK, RelayType
  <2>6. \A j \in relay'[p].cur : Delivered(row[j].tx)'
    BY <2>2, <2>3, <2>4, <2>5 DEF Delivered
  <2> QED
    BY <1>q, <2>3, <2>5, <2>6
<1>5. ASSUME NEW p \in Procs,
             RelayRefused(p) \/ RelayRedisError(p) \/ PublishThrows(p)
             \/ StoreThrows(p)
      PROVE DeliveryInv'
  <2>1. relay'[p].pc # "publish"
    <3>1. CASE RelayRefused(p)
      BY <3>1, <1>t DEF RelayRefused, TypeOK, RelayType
    <3>2. CASE RelayRedisError(p)
      BY <3>2, <1>t DEF RelayRedisError, TypeOK, RelayType
    <3>3. CASE PublishThrows(p)
      <4>1. PICK s \in {"release", "markFailed"} :
              \/ relay' = [relay EXCEPT ![p] = [@ EXCEPT !.pc = s, !.cur = {}]]
              \/ relay' = [relay EXCEPT ![p] = [@ EXCEPT !.pc = s]]
        BY <3>3 DEF PublishThrows
      <4>2. /\ [relay[p] EXCEPT !.pc = s, !.cur = {}].pc = s
            /\ [relay[p] EXCEPT !.pc = s].pc = s
        BY <1>t DEF RelayType
      <4> QED
        BY <4>1, <4>2 DEF TypeOK
    <3>4. CASE StoreThrows(p)
      BY <3>4 DEF StoreThrows, TypeOK, Idle
    <3> QED
      BY <1>5, <3>1, <3>2, <3>3, <3>4
  <2>2. \A q \in Procs \ {p} : relay'[q] = relay[q]
    BY <1>5 DEF RelayRefused, RelayRedisError, PublishThrows, StoreThrows, TypeOK
  <2>3. UNCHANGED <<call, row>>
    BY <1>5 DEF RelayRefused, RelayRedisError, PublishThrows, StoreThrows
  <2> QED
    BY <1>q, <2>1, <2>2, <2>3
<1>6. ASSUME NEW p \in Procs, Crash(p)
      PROVE DeliveryInv'
  <2>1. relay'[p].pc # "publish" /\ \A q \in Procs \ {p} : relay'[q] = relay[q]
    BY <1>6 DEF Crash, TypeOK, Idle
  <2>2. UNCHANGED row
    BY <1>6 DEF Crash
  <2>3. \A c \in Calls : call'[c].pc = "accepted" => call'[c] = call[c]
    BY <1>6 DEF Crash, TypeOK, CallType
  <2>4. PublishAfterDispatch' /\ RetryScheduled'
    BY <2>1, <2>2, <1>d, DeliverySameRows DEF DeliveryInv
  <2>5. \A i \in Inserted : i \in Inserted' /\ row'[i].tx = row[i].tx
    BY <2>2 DEF Inserted
  <2>6. AcceptedSomewhere'
    BY <1>d, <2>3, <2>5, AcceptedKept DEF DeliveryInv
  <2> QED
    BY <2>4, <2>6 DEF DeliveryInv
<1>7. ASSUME NEW p \in Procs, MarkPublished(p)
      PROVE DeliveryInv'
  <2>1. PICK i \in relay[p].cur :
          /\ row' = [row EXCEPT ![i] = [@ EXCEPT
                !.status = "published", !.next = "null", !.age = "fresh"]]
          /\ Advance(p, i)
    BY <1>7 DEF MarkPublished
  <2> DEFINE x == [row[i] EXCEPT
                !.status = "published", !.next = "null", !.age = "fresh"]
  <2>2. i \in Inserted /\ i \in Calls
    BY <1>s, <1>u
  <2>3. x \in RowType
    BY <1>t, <2>2, RowUpdate DEF RowStatuses, NextAttempts
  <2>4. x.status = "published" /\ x.tx = row[i].tx
    BY <1>t, <2>2 DEF RowType
  <2>5. row' = [row EXCEPT ![i] = x] /\ UNCHANGED call
    BY <1>7, <2>1 DEF MarkPublished
  <2>6. Delivered(row[i].tx)
    BY <1>7 DEF MarkPublished, DeliveryInv, PublishAfterDispatch
  <2>7. \A q \in Procs : relay'[q].pc = "publish" => relay'[q] = relay[q]
    BY <2>1, AdvanceRelay DEF TypeOK
  <2> HIDE DEF x
  <2> QED
    BY <1>d, <2>2, <2>3, <2>4, <2>5, <2>6, <2>7, DeliveryRowWrite
<1>8. ASSUME NEW p \in Procs, MarkFailed(p)
      PROVE DeliveryInv'
  <2>1. PICK i \in relay[p].cur :
          row' = [row EXCEPT ![i] = Failed(@)] /\ Advance(p, i)
    BY <1>8 DEF MarkFailed
  <2>2. i \in Inserted /\ i \in Calls
    BY <1>s, <1>u
  <2>3. Failed(row[i]) \in RowType
    BY <1>t, <2>2, FailedType
  <2>4. Failed(row[i]).status = "failed" /\ Failed(row[i]).tx = row[i].tx
    BY <1>t, <2>2 DEF Failed, RowType
  <2>5. row' = [row EXCEPT ![i] = Failed(row[i])] /\ UNCHANGED call
    BY <1>8, <2>1 DEF MarkFailed
  <2>6. \A q \in Procs : relay'[q].pc = "publish" => relay'[q] = relay[q]
    BY <2>1, AdvanceRelay DEF TypeOK
  <2> QED
    BY <1>d, <2>2, <2>3, <2>4, <2>5, <2>6, DeliveryRowWrite
<1>9. ASSUME NEW p \in Procs, Release(p)
      PROVE DeliveryInv'
  <2>1. PICK i \in relay[p].rows :
          /\ row' = [row EXCEPT ![i] = [@ EXCEPT
                !.status = "pending", !.next = "later", !.age = "fresh"]]
          /\ relay' = [relay EXCEPT ![p] =
                IF @.rows = {i} THEN Idle
                ELSE [pc |-> "release", rows |-> @.rows \ {i}, cur |-> {}]]
    BY <1>9 DEF Release
  <2> DEFINE x == [row[i] EXCEPT
                !.status = "pending", !.next = "later", !.age = "fresh"]
  <2>2. i \in Inserted /\ i \in Calls
    BY <1>u
  <2>3. x \in RowType
    BY <1>t, <2>2, RowUpdate DEF RowStatuses, NextAttempts
  <2>4. x.status = "pending" /\ x.tx = row[i].tx /\ x.next = "later"
    BY <1>t, <2>2 DEF RowType
  <2>5. row' = [row EXCEPT ![i] = x] /\ UNCHANGED call
    BY <1>9, <2>1 DEF Release
  <2>6. \A q \in Procs : relay'[q].pc = "publish" => relay'[q] = relay[q]
    BY <2>1 DEF TypeOK, Idle
  <2> HIDE DEF x
  <2> QED
    BY <1>d, <2>2, <2>3, <2>4, <2>5, <2>6, DeliveryRowWrite
<1>10. ASSUME NEW i \in Calls, NextAttemptDue(i) \/ GoStale(i)
       PROVE DeliveryInv'
  <2>1. PICK x \in RowType :
          /\ row' = [row EXCEPT ![i] = x]
          /\ x.tx = row[i].tx
          /\ x.status = row[i].status
          /\ x.next = "null" => row[i].next = "null"
    <3>1. CASE NextAttemptDue(i)
      <4> DEFINE x == [row[i] EXCEPT !.next = "due"]
      <4>1. x \in RowType
        BY <1>t, RowUpdate
      <4>2. x.tx = row[i].tx /\ x.status = row[i].status /\ x.next = "due"
        BY <1>t DEF RowType
      <4>3. row' = [row EXCEPT ![i] = x]
        BY <3>1 DEF NextAttemptDue
      <4> HIDE DEF x
      <4> QED
        BY <4>1, <4>2, <4>3
    <3>2. CASE GoStale(i)
      <4> DEFINE x == [row[i] EXCEPT !.age = "stale"]
      <4>1. x \in RowType
        BY <1>t, RowUpdate
      <4>2. x.tx = row[i].tx /\ x.status = row[i].status /\ x.next = row[i].next
        BY <1>t DEF RowType
      <4>3. row' = [row EXCEPT ![i] = x]
        BY <3>2 DEF GoStale
      <4> HIDE DEF x
      <4> QED
        BY <4>1, <4>2, <4>3
    <3> QED
      BY <1>10, <3>1, <3>2
  <2>2. UNCHANGED <<call, relay>>
    BY <1>10 DEF NextAttemptDue, GoStale
  <2>3. i \in Inserted
    BY <1>10 DEF NextAttemptDue, GoStale, Inserted
  <2>4. x.status # "absent"
    BY <2>1, <2>3, <1>v
  <2>5. x.status = "published" => Delivered(row[i].tx)
    BY <2>1 DEF DeliveryInv, PublishAfterDispatch
  <2>6. x.status \in {"pending", "processing"} => x.next # "null"
    BY <2>1 DEF DeliveryInv, RetryScheduled
  <2> QED
    BY <1>d, <2>1, <2>2, <2>3, <2>4, <2>5, <2>6, DeliveryRowWrite
<1>11. ASSUME UNCHANGED <<call, row, relay>>
       PROVE DeliveryInv'
  BY <1>11, <1>q
<1>12. ASSUME NEW p \in Procs, FlushOffline(p) \/ CheckRedisMemory(p)
       PROVE DeliveryInv'
  BY <1>11, <1>12 DEF FlushOffline, CheckRedisMemory
<1>13. ASSUME NEW t \in Txns, QueueStep(t) \/ JobStalls(t) \/ RemoveFinished(t)
       PROVE DeliveryInv'
  BY <1>11, <1>13 DEF QueueStep, WorkerStart, WorkerFinish, JobStalls, RemoveFinished
<1>14. ASSUME NEW m \in MemLevels, MemoryMoves(m)
       PROVE DeliveryInv'
  BY <1>11, <1>14 DEF MemoryMoves
<1>15. CASE RedisFails \/ RedisRecovers \/ UNCHANGED vars
  BY <1>11, <1>15 DEF RedisFails, RedisRecovers, vars
<1> QED
  BY <1>1, <1>2, <1>3, <1>4, <1>5, <1>6, <1>7, <1>8, <1>9, <1>10, <1>12,
     <1>13, <1>14, <1>15 DEF Next, CallStep, RelayStep

\* The delivery invariant is what the outbox promises: a row is outstanding,
\* dead-lettered, or published after its job was added.
LEMMA DeliveryImplies ==
    ASSUME TypeOK, DeliveryInv
    PROVE  NeverVanishes
<1> SUFFICES ASSUME NEW t \in Txns, Accepted(t), ~Delivered(t)
             PROVE  InOutbox(t) \/ GivenUp(t)
  BY DEF NeverVanishes
<1>1. PICK c \in Calls : call[c].pc = "accepted" /\ call[c].tx = t
  BY DEF Accepted
<1>2. PICK i \in Inserted : row[i].tx = t
  BY <1>1 DEF DeliveryInv, AcceptedSomewhere
<1>3. i \in Calls /\ row[i].status \in RowStatuses /\ row[i].status # "absent"
  BY DEF Inserted, TypeOK, RowType
<1>4. row[i].status # "published"
  BY <1>2, <1>3 DEF DeliveryInv, PublishAfterDispatch
<1>5. Outstanding(row[i]) \/ DeadLettered(row[i])
  BY <1>3, <1>4 DEF DeliveryInv, RetryScheduled, Outstanding, DeadLettered,
     RowStatuses
<1> QED
  BY <1>2, <1>5 DEF InOutbox, GivenUp

\* No order of outages, timeouts, lost replies, crashes, stale takeovers and
\* competing relays makes an accepted transaction vanish: it is in BullMQ, has
\* run, is still in outbox_events, or was dead-lettered by markFailed.
THEOREM NothingVanishes == Spec => []NeverVanishes
<1> DEFINE IInv == TypeOK /\ JobInv /\ ClaimInv /\ DeliveryInv
<1>1. Init => IInv
  <2>1. Init => JobInv
    BY DEF Init, JobInv
  <2>2. Init => ClaimInv
    BY DEF Init, ClaimInv, RelayShape, RowAfterAccept, ExclusiveClaim, Held, Idle
  <2>3. Init => DeliveryInv
    BY DEF Init, DeliveryInv, PublishAfterDispatch, RetryScheduled,
       AcceptedSomewhere, Idle
  <2> QED
    BY <2>1, <2>2, <2>3, TypeInit
<1>2. IInv /\ [Next]_vars => IInv'
  BY TypeStep, JobInvStep, ClaimInvStep, DeliveryInvStep
<1>3. IInv => NeverVanishes
  BY DeliveryImplies
<1> QED
  BY <1>1, <1>2, <1>3, PTL DEF Spec

-----------------------------------------------------------------------------
(* Outstanding rows of one transaction *)

\* No row to replay stands behind the snapshot of an INSERT, unless another one
\* of the transaction overlapped it or the row was taken over.
WriteClear ==
    \A c, i \in Calls :
        /\ call[c].pc = "write"
        /\ row[i].tx = call[c].tx
        /\ Outstanding(row[i])
        => row[i].tx \in overlapped \/ i \in reclaimed

\* Two INSERTs between snapshot and commit are counted as overlapping.
WritesOverlap ==
    \A c, d \in Calls :
        /\ call[c].pc = "write"
        /\ call[d].pc = "write"
        /\ call[c].tx = call[d].tx
        => c = d \/ call[c].tx \in overlapped

RowsInv == WriteClear /\ WritesOverlap /\ OneOutstandingRow

\* Row i is to be replayed after a step only if it was before, or had been
\* taken over from a relay that may write it back.
RowKept(i) ==
    Outstanding(row'[i]) =>
        \/ Outstanding(row[i]) /\ row'[i].tx = row[i].tx
        \/ i \in reclaimed

\* Nothing but an INSERT makes a row outstanding, short of a takeover: a relay
\* writes back 'processing' rows, which are outstanding already.
LEMMA RowsKept ==
    ASSUME TypeOK, ClaimInv, DeliveryInv, [Next]_vars,
           \A c \in Calls : ~InsertWrite(c)
    PROVE  \A i \in Calls : RowKept(i)
<1>t. \A i \in Calls : row[i] \in RowType
  BY DEF TypeOK
<1>p. \A i \in Calls : row[i].status = "processing" => Outstanding(row[i])
  BY DEF DeliveryInv, RetryScheduled, Outstanding
<1>h. \A p \in Procs : \A i \in relay[p].rows :
        i \in Calls /\ (Outstanding(row[i]) \/ i \in reclaimed)
  BY <1>p DEF ClaimInv, ExclusiveClaim, RelayShape, Held, Inserted
<1>s. \A p \in Procs : \A i \in relay[p].cur : i \in relay[p].rows
  BY DEF ClaimInv, RelayShape
<1>w. ASSUME NEW j \in Calls, NEW x \in RowType, row' = [row EXCEPT ![j] = x],
             x.tx = row[j].tx,
             Outstanding(row[j]) \/ j \in reclaimed \/ ~Outstanding(x)
      PROVE  \A i \in Calls : RowKept(i)
  BY <1>w DEF RowKept, TypeOK
<1>u. ASSUME UNCHANGED row
      PROVE  \A i \in Calls : RowKept(i)
  BY <1>u DEF RowKept
<1>1. ASSUME NEW p \in Procs, Claim(p)
      PROVE  \A i \in Calls : RowKept(i)
  <2>1. PICK S \in SUBSET Inserted :
        /\ OldestBatch(S)
        /\ row' = [i \in Calls |->
              IF i \in S
              THEN [row[i] EXCEPT !.status = "processing", !.age = "fresh"]
              ELSE row[i]]
    BY <1>1 DEF Claim
  <2>2. \A i \in S : Outstanding(row[i])
    BY <1>p, <2>1 DEF OldestBatch, Claimable, Inserted, Outstanding
  <2>3. \A i \in Calls :
          [row[i] EXCEPT !.status = "processing", !.age = "fresh"].tx = row[i].tx
    BY <1>t DEF RowType
  <2> QED
    BY <2>1, <2>2, <2>3 DEF RowKept
<1>2. ASSUME NEW p \in Procs, MarkPublished(p)
      PROVE  \A i \in Calls : RowKept(i)
  <2>1. PICK i \in relay[p].cur : row' = [row EXCEPT ![i] = [@ EXCEPT
                !.status = "published", !.next = "null", !.age = "fresh"]]
    BY <1>2 DEF MarkPublished
  <2> DEFINE x == [row[i] EXCEPT
                !.status = "published", !.next = "null", !.age = "fresh"]
  <2>2. i \in Calls
    BY <1>h, <1>s
  <2>3. x \in RowType
    BY <1>t, <2>2, RowUpdate DEF RowStatuses, NextAttempts
  <2>4. x.tx = row[i].tx /\ ~Outstanding(x)
    BY <1>t, <2>2 DEF RowType, Outstanding
  <2>5. row' = [row EXCEPT ![i] = x]
    BY <2>1
  <2> HIDE DEF x
  <2> QED
    BY <1>w, <2>2, <2>3, <2>4, <2>5
<1>3. ASSUME NEW p \in Procs, MarkFailed(p)
      PROVE  \A i \in Calls : RowKept(i)
  <2>1. PICK i \in relay[p].cur : row' = [row EXCEPT ![i] = Failed(@)]
    BY <1>3 DEF MarkFailed
  <2>2. i \in Calls /\ (Outstanding(row[i]) \/ i \in reclaimed)
    BY <1>h, <1>s
  <2>3. Failed(row[i]) \in RowType /\ Failed(row[i]).tx = row[i].tx
    BY <1>t, <2>2, FailedType DEF Failed, RowType
  <2> QED
    BY <1>w, <2>1, <2>2, <2>3
<1>4. ASSUME NEW p \in Procs, Release(p)
      PROVE  \A i \in Calls : RowKept(i)
  <2>1. PICK i \in relay[p].rows : row' = [row EXCEPT ![i] = [@ EXCEPT
                !.status = "pending", !.next = "later", !.age = "fresh"]]
    BY <1>4 DEF Release
  <2> DEFINE x == [row[i] EXCEPT
                !.status = "pending", !.next = "later", !.age = "fresh"]
  <2>2. i \in Calls /\ (Outstanding(row[i]) \/ i \in reclaimed)
    BY <1>h
  <2>3. x \in RowType
    BY <1>t, <2>2, RowUpdate DEF RowStatuses, NextAttempts
  <2>4. x.tx = row[i].tx
    BY <1>t, <2>2 DEF RowType
  <2>5. row' = [row EXCEPT ![i] = x]
    BY <2>1
  <2> HIDE DEF x
  <2> QED
    BY <1>w, <2>2, <2>3, <2>4, <2>5
<1>5. ASSUME NEW j \in Calls, NextAttemptDue(j)
      PROVE  \A i \in Calls : RowKept(i)
  <2> DEFINE x == [row[j] EXCEPT !.next = "due"]
  <2>1. x \in RowType
    BY <1>t, RowUpdate
  <2>2. x.tx = row[j].tx /\ x.status = row[j].status
    BY <1>t DEF RowType
  <2>3. row' = [row EXCEPT ![j] = x] /\ row[j].next = "later"
    BY <1>5 DEF NextAttemptDue
  <2>4. Outstanding(row[j]) \/ ~Outstanding(x)
    BY <2>2, <2>3 DEF Outstanding
  <2> HIDE DEF x
  <2> QED
    BY <1>w, <2>1, <2>2, <2>3, <2>4
<1>6. ASSUME NEW j \in Calls, GoStale(j)
      PROVE  \A i \in Calls : RowKept(i)
  <2> DEFINE x == [row[j] EXCEPT !.age = "stale"]
  <2>1. x \in RowType
    BY <1>t, RowUpdate
  <2>2. x.tx = row[j].tx
    BY <1>t DEF RowType
  <2>3. row' = [row EXCEPT ![j] = x] /\ Outstanding(row[j])
    BY <1>p, <1>6 DEF GoStale
  <2> HIDE DEF x
  <2> QED
    BY <1>w, <2>1, <2>2, <2>3
<1>7. ASSUME NEW p \in Procs,
             \/ RelayDispatchOk(p) \/ RelayRefused(p) \/ RelayRedisError(p)
             \/ PublishThrows(p) \/ StoreThrows(p) \/ Crash(p)
             \/ FlushOffline(p) \/ CheckRedisMemory(p)
      PROVE  \A i \in Calls : RowKept(i)
  BY <1>u, <1>7 DEF RelayDispatchOk, RelayRefused, RelayRedisError,
     PublishThrows, StoreThrows, Crash, FlushOffline, CheckRedisMemory
<1>8. ASSUME NEW c \in Calls,
             \/ CallDispatchOk(c) \/ CallRefused(c) \/ CallRedisError(c)
             \/ InsertSnapshot(c)
      PROVE  \A i \in Calls : RowKept(i)
  BY <1>u, <1>8 DEF CallDispatchOk, CallRefused, CallRedisError, InsertSnapshot
<1>9. ASSUME NEW c \in Calls, NEW p \in Procs, NEW t \in Txns,
             StartCall(c, p, t)
      PROVE  \A i \in Calls : RowKept(i)
  BY <1>u, <1>9 DEF StartCall
<1>10. ASSUME NEW t \in Txns, QueueStep(t) \/ JobStalls(t) \/ RemoveFinished(t)
       PROVE  \A i \in Calls : RowKept(i)
  BY <1>u, <1>10 DEF QueueStep, WorkerStart, WorkerFinish, JobStalls,
     RemoveFinished
<1>11. ASSUME NEW m \in MemLevels, MemoryMoves(m)
       PROVE  \A i \in Calls : RowKept(i)
  BY <1>u, <1>11 DEF MemoryMoves
<1>12. CASE RedisFails \/ RedisRecovers \/ UNCHANGED vars
  BY <1>u, <1>12 DEF RedisFails, RedisRecovers, vars
<1> QED
  BY <1>1, <1>2, <1>3, <1>4, <1>5, <1>6, <1>7, <1>8, <1>9, <1>10, <1>11,
     <1>12 DEF Next, CallStep, RelayStep

\* The overlaps and takeovers counted so far stay counted.
LEMMA CausesGrow ==
    ASSUME [Next]_vars
    PROVE  overlapped \subseteq overlapped' /\ reclaimed \subseteq reclaimed'
BY DEF Next, vars, CallStep, RelayStep, StartCall, CallDispatchOk, CallRefused,
   CallRedisError, InsertSnapshot, InsertWrite, Claim, RelayDispatchOk,
   RelayRedisError, RelayRefused, MarkPublished, MarkFailed, Release,
   PublishThrows, StoreThrows, FlushOffline, CheckRedisMemory, Crash,
   NextAttemptDue, GoStale, QueueStep, WorkerStart, WorkerFinish, JobStalls,
   RemoveFinished, RedisFails, RedisRecovers, MemoryMoves

\* Only a snapshot takes a call to its write.
LEMMA WritesKept ==
    ASSUME TypeOK, [Next]_vars, \A c \in Calls : ~InsertSnapshot(c)
    PROVE  \A c \in Calls : call'[c].pc = "write" => call'[c] = call[c]
<1> DEFINE Goal == \A c \in Calls : call'[c].pc = "write" => call'[c] = call[c]
<1>t. \A c \in Calls : call[c] \in CallType
  BY DEF TypeOK
<1>1. ASSUME NEW c \in Calls, NEW p \in Procs, NEW t \in Txns,
             StartCall(c, p, t)
      PROVE  Goal
  BY <1>1 DEF StartCall, TypeOK
<1>2. ASSUME NEW c \in Calls,
             CallDispatchOk(c) \/ CallRefused(c) \/ CallRedisError(c)
             \/ InsertWrite(c)
      PROVE  Goal
  <2>1. PICK s \in {"accepted", "rejected", "insert"} :
          call' = [call EXCEPT ![c].pc = s]
    BY <1>2 DEF CallDispatchOk, CallRefused, CallRedisError, InsertWrite
  <2>2. call'[c].pc # "write" /\ \A d \in Calls \ {c} : call'[d] = call[d]
    BY <1>t, <2>1 DEF TypeOK, CallType
  <2> QED
    BY <2>2
<1>3. ASSUME NEW p \in Procs, Crash(p) PROVE Goal
  BY <1>3 DEF Crash, TypeOK, CallType
<1>4. ASSUME UNCHANGED call PROVE Goal
  BY <1>4
<1>5. ASSUME NEW p \in Procs,
             RelayStep(p) \/ PublishThrows(p) \/ StoreThrows(p)
             \/ FlushOffline(p) \/ CheckRedisMemory(p)
      PROVE  Goal
  BY <1>4, <1>5 DEF RelayStep, Claim, RelayDispatchOk, RelayRedisError,
     RelayRefused, MarkPublished, MarkFailed, Release, PublishThrows,
     StoreThrows, FlushOffline, CheckRedisMemory
<1>6. ASSUME NEW i \in Calls, NextAttemptDue(i) \/ GoStale(i) PROVE Goal
  BY <1>4, <1>6 DEF NextAttemptDue, GoStale
<1>7. ASSUME NEW t \in Txns, QueueStep(t) \/ JobStalls(t) \/ RemoveFinished(t)
      PROVE  Goal
  BY <1>4, <1>7 DEF QueueStep, WorkerStart, WorkerFinish, JobStalls,
     RemoveFinished
<1>8. ASSUME NEW m \in MemLevels, MemoryMoves(m) PROVE Goal
  BY <1>4, <1>8 DEF MemoryMoves
<1>9. CASE RedisFails \/ RedisRecovers \/ UNCHANGED vars
  BY <1>4, <1>9 DEF RedisFails, RedisRecovers, vars
<1> QED
  BY <1>1, <1>2, <1>3, <1>5, <1>6, <1>7, <1>8, <1>9 DEF Next, CallStep

\* Every step keeps the rows to replay apart.
LEMMA RowsInvStep ==
    ASSUME TypeOK, ClaimInv, DeliveryInv, RowsInv, [Next]_vars
    PROVE  RowsInv'
<1>g. overlapped \subseteq overlapped' /\ reclaimed \subseteq reclaimed'
  BY CausesGrow
<1>1. ASSUME NEW c \in Calls, InsertSnapshot(c)
      PROVE RowsInv'
  <2>1. UNCHANGED <<row, reclaimed>>
    BY <1>1 DEF InsertSnapshot
  <2>2. \A d \in Calls : /\ call'[d].tx = call[d].tx
                         /\ d # c => call'[d] = call[d]
    BY <1>1 DEF InsertSnapshot, TypeOK, CallType
  <2>3. call'[c].pc = "write" =>
          \A i \in Calls : ~(row[i].tx = call[c].tx /\ Outstanding(row[i]))
    <3>1. CASE \E i \in Inserted : row[i].tx = call[c].tx /\ Outstanding(row[i])
      <4>1. call' = [call EXCEPT ![c].pc = "accepted"]
        BY <1>1, <3>1 DEF InsertSnapshot
      <4> QED
        BY <4>1 DEF TypeOK, CallType
    <3>2. CASE ~\E i \in Inserted : row[i].tx = call[c].tx /\ Outstanding(row[i])
      BY <3>2 DEF Inserted, Outstanding
    <3> QED
      BY <3>1, <3>2
  <2>4. WriteClear'
    BY <1>g, <2>1, <2>2, <2>3 DEF RowsInv, WriteClear
  <2>5. \A d \in Calls \ {c} :
          call[d].pc = "write" /\ call[d].tx = call[c].tx
            => call[c].tx \in overlapped'
    BY <1>1 DEF InsertSnapshot, Overlaps, TypeOK, CallType
  <2>6. WritesOverlap'
    BY <1>g, <2>2, <2>5 DEF RowsInv, WritesOverlap
  <2>7. OneOutstandingRow'
    BY <1>g, <2>1 DEF RowsInv, OneOutstandingRow
  <2> QED
    BY <2>4, <2>6, <2>7 DEF RowsInv
<1>2. ASSUME NEW c \in Calls, InsertWrite(c)
      PROVE RowsInv'
  <2>1. /\ call[c].pc = "write"
        /\ row'[c].tx = call[c].tx
        /\ \A i \in Calls \ {c} : row'[i] = row[i]
        /\ UNCHANGED <<overlapped, reclaimed>>
    BY <1>2 DEF InsertWrite, TypeOK
  <2>2. call'[c].pc # "write" /\ \A d \in Calls \ {c} : call'[d] = call[d]
    BY <1>2 DEF InsertWrite, TypeOK, CallType
  <2>3. WriteClear'
    BY <2>1, <2>2 DEF RowsInv, WriteClear, WritesOverlap
  <2>4. WritesOverlap'
    BY <2>1, <2>2 DEF RowsInv, WritesOverlap
  <2>5. OneOutstandingRow'
    BY <2>1 DEF RowsInv, OneOutstandingRow, WriteClear
  <2> QED
    BY <2>3, <2>4, <2>5 DEF RowsInv
<1>3. CASE \A c \in Calls : ~InsertSnapshot(c) /\ ~InsertWrite(c)
  <2>1. \A i \in Calls : RowKept(i)
    BY <1>3, RowsKept
  <2>2. \A c \in Calls : call'[c].pc = "write" => call'[c] = call[c]
    BY <1>3, WritesKept
  <2>3. WriteClear'
    BY <1>g, <2>1, <2>2 DEF RowsInv, WriteClear, RowKept
  <2>4. WritesOverlap'
    BY <1>g, <2>2 DEF RowsInv, WritesOverlap
  <2>5. OneOutstandingRow'
    BY <1>g, <2>1 DEF RowsInv, OneOutstandingRow, RowKept
  <2> QED
    BY <2>3, <2>4, <2>5 DEF RowsInv
<1> QED
  BY <1>1, <1>2, <1>3

\* An enqueue request is "a no-op if one is already outstanding for the id":
\* a transaction has two rows to replay only after two inserts of it overlapped
\* or after a takeover of one of the rows.
THEOREM OneRowToReplay == Spec => []OneOutstandingRow
<1> DEFINE IInv == TypeOK /\ JobInv /\ ClaimInv /\ DeliveryInv /\ RowsInv
<1>1. Init => IInv
  <2>1. Init => JobInv
    BY DEF Init, JobInv
  <2>2. Init => ClaimInv
    BY DEF Init, ClaimInv, RelayShape, RowAfterAccept, ExclusiveClaim, Held, Idle
  <2>3. Init => DeliveryInv
    BY DEF Init, DeliveryInv, PublishAfterDispatch, RetryScheduled,
       AcceptedSomewhere, Idle
  <2>4. Init => RowsInv
    BY DEF Init, RowsInv, WriteClear, WritesOverlap, OneOutstandingRow,
       Outstanding
  <2> QED
    BY <2>1, <2>2, <2>3, <2>4, TypeInit
<1>2. IInv /\ [Next]_vars => IInv'
  BY TypeStep, JobInvStep, ClaimInvStep, DeliveryInvStep, RowsInvStep
<1>3. IInv => OneOutstandingRow
  BY DEF RowsInv
<1> QED
  BY <1>1, <1>2, <1>3, PTL DEF Spec
=============================================================================
