--------------------- MODULE ProviderQueueControlProofs ---------------------
(***************************************************************************)
(* Proofs about ProviderQueueControl, for any set of transactions, any set *)
(* of concurrent calls and any bounds.                                     *)
(*                                                                         *)
(* Both safety properties rest on what the release lock gives while it has *)
(* not expired under a drain: one drain at a time (LockInv), which removes *)
(* from the hold queue only what it has read there (DrainInv).  That no    *)
(* accepted job is lost is shown by following, for the job a drain is      *)
(* about to take out of the hold queue, the copy that stays behind         *)
(* (MoveInv); that none is multiplied, by counting the places from which   *)
(* a run can still start (TokenInv).                                       *)
(***************************************************************************)
EXTENDS ProviderQueueControl, FiniteSetTheorems, TLAPS

-----------------------------------------------------------------------------
\* The inductive invariant.

\* The parts of TypeOK that threads do, and do not, take part in.
ThreadType == [op : Ops, pc : Pcs, ids : SUBSET Ids, page : SUBSET Ids,
               cur : SUBSET Ids]

ThreadsType == thread \in [Threads -> ThreadType]

QueuesType ==
    /\ hold \in SUBSET Ids
    /\ main \in [Ids -> MainStates]
    /\ lock \in Threads \cup {NoThread}
    /\ copies \in [Txns -> 0..MaxCopies]

HistoryType ==
    /\ paused \in BOOLEAN
    /\ dispatched \in [Txns -> 0..MaxDispatch]
    /\ accepted \in SUBSET Txns
    /\ runs \in [Txns -> Nat]
    /\ swallowed \in SUBSET Txns
    /\ overtaken \in BOOLEAN
    /\ pauses \in 0..MaxPauses
    /\ faults \in 0..MaxFaults

\* What a call's place in the code says about its operation and its job.
MovePcs == {"removeOld", "addMain", "addFresh", "unhold"}
ShapeOf(r) ==
    /\ r.op \in {"dispatch", "work"} => \E id \in Ids : r.ids = {id}
    /\ r.op = "dispatch" => \E t \in Txns : r.ids = {<<t, 0>>}
    /\ r.op \in {"none", "resume"} => r.ids = {}
    /\ r.pc \in {"check", "add"} => r.op = "dispatch"
    /\ r.pc \in {"divert", "run", "finish"} => r.op = "work"
    /\ r.pc = "park" => r.op \in {"dispatch", "work"}
    /\ r.pc = "idle" => r.op = "none"
    /\ r.pc \in MovePcs => \E id \in Ids : r.cur = {id}
    /\ r.pc \notin MovePcs => r.cur = {}

ShapeInv == \A th \in Threads : ShapeOf(thread[th])

\* Drains exclude each other while no lock has expired under one; without
\* faults none has.
LockInv ==
    /\ ~overtaken => \A th \in Threads : thread[th].pc \in DrainPcs => lock = th
    /\ faults = 0 => ~overtaken

\* A drain works on jobs of the hold queue.
DrainOf(r, held) ==
    /\ r.pc \in MovePcs => r.cur \subseteq held /\ r.cur \cap r.page = {}
    /\ r.pc \in {"inspect"} \cup MovePcs => r.page \subseteq held

DrainInv == ~overtaken => \A th \in Threads : DrainOf(thread[th], hold)

\* An id is active for exactly the one worker that runs it.
WorkOn(th, id) == thread[th].op = "work" /\ id \in thread[th].ids

WorkInv ==
    \A th \in Threads : \A id \in Ids : WorkOn(th, id) =>
        /\ main[id] = "active"
        /\ \A other \in Threads : WorkOn(other, id) => other = th

\* An id not yet made is nowhere.
Unmade(id) == id[2] > copies[id[1]]
NotIn(id, r) == id \notin r.ids /\ id \notin r.page /\ id \notin r.cur

FreshInv ==
    \A id \in Ids : Unmade(id) => /\ main[id] = "none" /\ id \notin hold
                                  /\ \A th \in Threads : NotIn(id, thread[th])

\* A job of the main queue that will still be run, be parked or be seen.
Undecided(id) ==
    \E th \in Threads : WorkOn(th, id) /\ thread[th].pc \in {"divert", "park", "run"}
InMain(id) == main[id] \in {"waiting", "failed"} \/ Undecided(id)

Alive(t) ==
    \/ t \in swallowed
    \/ runs[t] > 0
    \/ \E id \in Ids : id[1] = t /\ (id \in hold \/ InMain(id))

\* The transaction of a held job is alive without that job.
Elsewhere(id) ==
    \/ id[1] \in swallowed
    \/ runs[id[1]] > 0
    \/ \E j \in Ids : j[1] = id[1] /\ ((j \in hold /\ j # id) \/ InMain(j))

MoveInv ==
    ~overtaken => \A th \in Threads : \A id \in thread[th].cur :
        /\ thread[th].pc = "addMain" => main[id] = "none" \/ Elsewhere(id)
        /\ thread[th].pc = "unhold" => Elsewhere(id)

\* A dispatch has left a trace of the transaction.
Dispatching(th, t) ==
    /\ thread[th].op = "dispatch"
    /\ thread[th].pc \notin {"check", "add", "park"}
    /\ \E id \in thread[th].ids : id[1] = t

Started(t) ==
    \/ t \in accepted
    \/ \E id \in Ids : id[1] = t /\ main[id] # "none"
    \/ \E th \in Threads : Dispatching(th, t)

AliveInv == ~overtaken => \A t \in Txns : Started(t) => Alive(t)

\* The places from which a run of t can still start: a call that has not
\* handed its job over, a waiting job, a held job that is not being removed.
Moving == {id \in Ids : \E th \in Threads : /\ thread[th].pc = "unhold"
                                            /\ id \in thread[th].cur}
InCall(t) == {th \in Threads :
                 /\ thread[th].pc \in {"check", "add", "park", "divert", "run"}
                 /\ \E id \in thread[th].ids : id[1] = t}
InWait(t) == {id \in Ids : id[1] = t /\ main[id] = "waiting"}
InHold(t) == {id \in hold : id[1] = t /\ id \notin Moving}

TokensOf(t) ==
    /\ IsFiniteSet(InCall(t)) /\ IsFiniteSet(InWait(t)) /\ IsFiniteSet(InHold(t))
    /\ runs[t] + Cardinality(InCall(t)) + Cardinality(InWait(t))
         + Cardinality(InHold(t)) <= dispatched[t]

TokenInv == faults = 0 => \A t \in Txns : TokensOf(t)

TypeInv == ThreadsType /\ QueuesType /\ HistoryType
IInv == /\ TypeInv /\ ShapeInv /\ LockInv /\ DrainInv /\ WorkInv /\ FreshInv
        /\ MoveInv /\ AliveInv /\ TokenInv

-----------------------------------------------------------------------------
\* What the steps of a call do to its record.

Becomes(th, op, pc, ids, page, cur) ==
    /\ thread'[th].op = op /\ thread'[th].pc = pc /\ thread'[th].ids = ids
    /\ thread'[th].page = page /\ thread'[th].cur = cur
    /\ \A other \in Threads : other # th => thread'[other] = thread[other]

Steps(th, pc) ==
    Becomes(th, thread[th].op, pc, thread[th].ids, thread[th].page, thread[th].cur)
Starts(th, op, pc, ids) == Becomes(th, op, pc, ids, {}, {})
Rests(th) == Starts(th, "none", "idle", {})
Returns(th) == \/ thread[th].op = "work" /\ Starts(th, "work", "finish", thread[th].ids)
               \/ thread[th].op # "work" /\ Rests(th)

LEMMA GotoEffect ==
    ASSUME ThreadsType, NEW th \in Threads, NEW pc, Goto(th, pc)
    PROVE  Steps(th, pc)
  BY DEF ThreadsType, ThreadType, Goto, Steps, Becomes

LEMMA ReturnEffect ==
    ASSUME ThreadsType, NEW th \in Threads, Return(th)
    PROVE  Returns(th)
<1>1. CASE thread[th].op = "work"
  BY <1>1 DEF ThreadsType, ThreadType, Return, Returns, Starts, Becomes, Idle
<1>2. CASE thread[th].op # "work"
  BY <1>2 DEF ThreadsType, ThreadType, Return, Returns, Rests, Starts, Becomes, Idle
<1> QED BY <1>1, <1>2

LEMMA DrainPageEffect ==
    ASSUME ThreadsType, NEW th \in Threads, DrainPage(th)
    PROVE  /\ thread[th].pc = "drain"
           /\ \/ Steps(th, "unlock")
              \/ Becomes(th, thread[th].op, "inspect", thread[th].ids, hold,
                         thread[th].cur)
  BY GotoEffect DEF DrainPage, ThreadsType, ThreadType, Becomes

LEMMA InspectEffect ==
    ASSUME ThreadsType, NEW th \in Threads, NEW id, InspectMain(th, id)
    PROVE  Becomes(th, thread[th].op, AfterInspect(main[id]), thread[th].ids,
                   thread[th].page \ {id}, {id})
  BY DEF InspectMain, ThreadsType, ThreadType, Becomes

LEMMA UnholdEffect ==
    ASSUME ThreadsType, NEW th \in Threads, Unhold(th)
    PROVE  \E pc \in {"drain", "inspect"} :
              Becomes(th, thread[th].op, pc, thread[th].ids, thread[th].page, {})
  BY DEF Unhold, ThreadsType, ThreadType, Becomes

LEMMA MoveFailsEffect ==
    ASSUME ThreadsType, NEW th \in Threads, MoveFails(th)
    PROVE  Becomes(th, thread[th].op, "unlock", thread[th].ids, {}, {})
  BY DEF MoveFails, ThreadsType, ThreadType, Becomes

LEMMA StartEffect ==
    ASSUME ThreadsType, NEW th \in Threads
    PROVE  /\ \A t \in Txns : Dispatch(th, t) => Starts(th, "dispatch", "check", {<<t, 0>>})
           /\ \A id : WorkerTakes(th, id) => Starts(th, "work", "divert", {id})
           /\ Resume(th) => Starts(th, "resume", "relCheck", {})
           /\ AddDirect(th) \/ WorkerFinishes(th) \/ Crash(th) \/ WorkerThrows(th)
                => Rests(th)
<1> USE DEF Starts, Becomes, Idle, ThreadsType
<1>1. \A t \in Txns : Dispatch(th, t) => Starts(th, "dispatch", "check", {<<t, 0>>})
  BY DEF Dispatch
<1>2. \A id : WorkerTakes(th, id) => Starts(th, "work", "divert", {id})
  BY DEF WorkerTakes
<1>3. Resume(th) => Starts(th, "resume", "relCheck", {})
  BY DEF Resume
<1>4. AddDirect(th) \/ WorkerFinishes(th) \/ Crash(th) \/ WorkerThrows(th) => Rests(th)
  BY DEF AddDirect, WorkerFinishes, Crash, WorkerThrows, Rests
<1> QED BY <1>1, <1>2, <1>3, <1>4

\* The steps that only walk on, and where they come from.
WalkEffects(th) ==
    /\ CheckPaused(th) => /\ thread[th].pc = "check"
                          /\ Steps(th, "park") \/ Steps(th, "add")
    /\ Park(th) => thread[th].pc = "park" /\ Steps(th, "recheck")
    /\ Recheck(th) => /\ thread[th].pc = "recheck"
                      /\ Returns(th) \/ Steps(th, "relCheck")
    /\ ReleaseCheck(th) => /\ thread[th].pc = "relCheck"
                           /\ Returns(th) \/ Steps(th, "lock")
    /\ AcquireLock(th) => /\ thread[th].pc = "lock"
                          /\ \/ lock = NoThread /\ lock' = th /\ Steps(th, "drain")
                             \/ lock' = lock /\ Returns(th)
    /\ RemoveOld(th) => /\ thread[th].pc = "removeOld"
                        /\ Steps(th, "addFresh") \/ Steps(th, "addMain")
    /\ AddBack(th) => thread[th].pc = "addMain" /\ Steps(th, "unhold")
    /\ AddFresh(th) => thread[th].pc = "addFresh" /\ Steps(th, "unhold")
    /\ ReleaseLock(th) => thread[th].pc = "unlock" /\ Steps(th, "again")
    /\ LookAgain(th) => /\ thread[th].pc = "again"
                        /\ Returns(th) \/ Steps(th, "relCheck")
    /\ DivertIfPaused(th) => /\ thread[th].pc = "divert"
                             /\ Steps(th, "park") \/ Steps(th, "run")
    /\ ProcessTransaction(th) => thread[th].pc = "run" /\ Steps(th, "finish")

LEMMA WalkEffect ==
    ASSUME ThreadsType, NEW th \in Threads
    PROVE  WalkEffects(th)
  BY GotoEffect, ReturnEffect
     DEF WalkEffects, CheckPaused, Park, Recheck, ReleaseCheck, AcquireLock, RemoveOld,
         AddBack, AddFresh, ReleaseLock, LookAgain, DivertIfPaused, ProcessTransaction

\* Every step of a call: walking on, the drain's own steps, a start, an end.
LEMMA EveryStep ==
    Next => \/ \E th \in Threads :
                  \/ ThreadStep(th) \/ MoveFails(th) \/ Crash(th) \/ WorkerThrows(th)
                  \/ Resume(th)
                  \/ \E t \in Txns : Dispatch(th, t)
                  \/ \E id \in Ids : WorkerTakes(th, id)
            \/ Pause
            \/ LockExpires
  BY DEF Next

-----------------------------------------------------------------------------
\* Types.

LEMMA ZeroCopies == \A t \in Txns : <<t, 0>> \in Ids
  BY BoundsAssumption DEF Ids

LEMMA IdParts == \A id \in Ids : id[1] \in Txns /\ id[2] \in 0..MaxCopies
                                  /\ id = <<id[1], id[2]>>
  BY DEF Ids

LEMMA ThreadsStep == TypeInv /\ [Next]_vars => ThreadsType'
<1> SUFFICES ASSUME TypeInv, [Next]_vars PROVE ThreadsType'
  OBVIOUS
<1> USE DEF TypeInv, ThreadsType
<1>0. ASSUME NEW th \in Threads, NEW r \in ThreadType, thread' = [thread EXCEPT ![th] = r]
      PROVE  ThreadsType'
  BY <1>0
<1>1. ASSUME NEW th \in Threads, NEW pc \in Pcs, Goto(th, pc) PROVE ThreadsType'
  BY <1>1 DEF Goto, ThreadType
<1>2. Idle \in ThreadType
  BY DEF Idle, ThreadType, Ops, Pcs
<1>3. ASSUME NEW th \in Threads, Return(th) PROVE ThreadsType'
  <2>1. [Idle EXCEPT !.op = "work", !.pc = "finish", !.ids = thread[th].ids]
          \in ThreadType
    BY DEF Idle, ThreadType, Ops, Pcs
  <2> QED BY <1>0, <1>2, <1>3, <2>1 DEF Return
<1>4. ASSUME NEW th \in Threads, ThreadStep(th) PROVE ThreadsType'
  <2>1. CASE DrainPage(th) \/ Unhold(th)
    BY <1>1, <2>1 DEF DrainPage, Unhold, ThreadType, Pcs, QueuesType
  <2>2. ASSUME NEW id \in Ids, InspectMain(th, id) PROVE ThreadsType'
    <3>1. AfterInspect(main[id]) \in Pcs
      BY DEF AfterInspect, Pcs
    <3> QED BY <2>2, <3>1 DEF InspectMain, ThreadType
  <2>3. CASE AddDirect(th) \/ WorkerFinishes(th)
    BY <1>0, <1>2, <2>3 DEF AddDirect, WorkerFinishes
  <2> QED BY <1>1, <1>3, <1>4, <2>1, <2>2, <2>3
         DEF ThreadStep, CheckPaused, Park, Recheck, ReleaseCheck, AcquireLock,
             RemoveOld, AddBack, AddFresh, ReleaseLock, LookAgain, DivertIfPaused,
             ProcessTransaction, Pcs
<1>5. ASSUME NEW th \in Threads, NEW t \in Txns, Dispatch(th, t) PROVE ThreadsType'
  <2>1. [Idle EXCEPT !.op = "dispatch", !.pc = "check", !.ids = {<<t, 0>>}]
          \in ThreadType
    BY ZeroCopies DEF Idle, ThreadType, Ops, Pcs
  <2> QED BY <1>0, <1>5, <2>1 DEF Dispatch
<1>6. ASSUME NEW th \in Threads, NEW id \in Ids, WorkerTakes(th, id) PROVE ThreadsType'
  <2>1. [Idle EXCEPT !.op = "work", !.pc = "divert", !.ids = {id}] \in ThreadType
    BY DEF Idle, ThreadType, Ops, Pcs
  <2> QED BY <1>0, <1>6, <2>1 DEF WorkerTakes
<1>7. ASSUME NEW th \in Threads, Resume(th) PROVE ThreadsType'
  <2>1. [Idle EXCEPT !.op = "resume", !.pc = "relCheck"] \in ThreadType
    BY DEF Idle, ThreadType, Ops, Pcs
  <2> QED BY <1>0, <1>7, <2>1 DEF Resume
<1>8. ASSUME NEW th \in Threads, MoveFails(th) \/ Crash(th) \/ WorkerThrows(th)
      PROVE  ThreadsType'
  <2>1. CASE MoveFails(th)
    <3>1. "unlock" \in Pcs
      BY DEF Pcs
    <3> QED BY <2>1, <3>1 DEF MoveFails, ThreadType
  <2> QED BY <1>0, <1>2, <1>8, <2>1 DEF Crash, WorkerThrows
<1>9. CASE Pause \/ LockExpires \/ UNCHANGED vars
  BY <1>9 DEF Pause, LockExpires, vars
<1> QED BY <1>4, <1>5, <1>6, <1>7, <1>8, <1>9, EveryStep

\* What a step may do to the main queue.
LEMMA AddToMainType ==
    ASSUME QueuesType, NEW id \in Ids, AddToMain(id)
    PROVE  main' \in [Ids -> MainStates]
  BY DEF AddToMain, QueuesType, MainStates

LEMMA QueuesStep == TypeInv /\ [Next]_vars => QueuesType'
<1> SUFFICES ASSUME TypeInv, [Next]_vars PROVE QueuesType'
  OBVIOUS
<1>0. QueuesType /\ ThreadsType
  BY DEF TypeInv
<1>t. \A th \in Threads : /\ thread[th].ids \in SUBSET Ids
                          /\ thread[th].cur \in SUBSET Ids
  BY <1>0 DEF ThreadsType, ThreadType
<1>1. ASSUME NEW th \in Threads, ThreadStep(th) PROVE QueuesType'
  <2>1. CASE \/ CheckPaused(th) \/ Recheck(th) \/ ReleaseCheck(th) \/ AcquireLock(th)
             \/ DrainPage(th) \/ (\E id \in Ids : InspectMain(th, id))
             \/ ReleaseLock(th) \/ LookAgain(th) \/ DivertIfPaused(th)
             \/ ProcessTransaction(th)
    BY <1>0, <2>1 DEF CheckPaused, Recheck, ReleaseCheck, AcquireLock, DrainPage,
       InspectMain, ReleaseLock, LookAgain, DivertIfPaused, ProcessTransaction,
       QueuesType
  <2>2. CASE Park(th) \/ Unhold(th)
    BY <1>0, <1>t, <2>2 DEF Park, Unhold, QueuesType
  <2>3. CASE AddDirect(th) \/ AddBack(th)
    <3>1. main' \in [Ids -> MainStates]
      BY <1>0, <1>t, <2>3, AddToMainType DEF AddDirect, AddBack
    <3> QED BY <1>0, <2>3, <3>1 DEF AddDirect, AddBack, QueuesType
  <2>4. CASE RemoveOld(th) \/ WorkerFinishes(th)
    BY <1>0, <1>t, <2>4 DEF RemoveOld, WorkerFinishes, QueuesType, MainStates
  <2>5. CASE AddFresh(th)
    <3>1. PICK id \in thread[th].cur :
             /\ copies[id[1]] < MaxCopies
             /\ copies' = [copies EXCEPT ![id[1]] = @ + 1]
             /\ AddToMain(<<id[1], copies[id[1]] + 1>>)
      BY <2>5 DEF AddFresh
    <3>2. id[1] \in Txns /\ copies[id[1]] \in 0..MaxCopies
      BY <1>0, <1>t, IdParts DEF QueuesType
    <3>3. copies[id[1]] + 1 \in 0..MaxCopies
      BY <3>1, <3>2, BoundsAssumption
    <3>4. <<id[1], copies[id[1]] + 1>> \in Ids
      BY <3>2, <3>3 DEF Ids
    <3>5. main' \in [Ids -> MainStates]
      BY <1>0, <3>1, <3>4, AddToMainType
    <3>6. copies' \in [Txns -> 0..MaxCopies]
      BY <1>0, <3>1, <3>2, <3>3 DEF QueuesType
    <3> QED BY <1>0, <2>5, <3>5, <3>6 DEF AddFresh, QueuesType
  <2> QED BY <1>1, <2>1, <2>2, <2>3, <2>4, <2>5 DEF ThreadStep
<1>2. ASSUME NEW th \in Threads,
             \/ MoveFails(th) \/ Crash(th) \/ WorkerThrows(th) \/ Resume(th)
             \/ \E t \in Txns : Dispatch(th, t)
             \/ \E id \in Ids : WorkerTakes(th, id)
      PROVE  QueuesType'
  BY <1>0, <1>t, <1>2 DEF MoveFails, Crash, WorkerThrows, Resume, Dispatch, WorkerTakes,
     QueuesType, MainStates
<1>3. CASE Pause \/ LockExpires \/ UNCHANGED vars
  BY <1>0, <1>3 DEF Pause, LockExpires, vars, QueuesType
<1> QED BY <1>1, <1>2, <1>3, EveryStep

LEMMA HistoryStep == TypeInv /\ [Next]_vars => HistoryType'
<1> SUFFICES ASSUME TypeInv, [Next]_vars PROVE HistoryType'
  OBVIOUS
<1>0. HistoryType
  BY DEF TypeInv
<1>t. \A th \in Threads : \A id \in thread[th].ids : id[1] \in Txns
  <2>1. \A th \in Threads : thread[th].ids \in SUBSET Ids
    BY DEF TypeInv, ThreadsType, ThreadType
  <2> QED BY <2>1, IdParts
<1>a. \A th \in Threads : AcceptIfDispatch(th) => accepted' \in SUBSET Txns
  BY <1>0, <1>t DEF AcceptIfDispatch, HistoryType
<1>1. ASSUME NEW th \in Threads, ThreadStep(th) PROVE HistoryType'
  <2>0. CASE RemoveOld(th)
    <3>1. /\ UNCHANGED <<paused, dispatched, accepted, runs, swallowed, overtaken, pauses>>
          /\ faults' = faults \/ (faults < MaxFaults /\ faults' = faults + 1)
      BY <2>0 DEF RemoveOld
    <3> QED BY <1>0, <3>1, BoundsAssumption DEF HistoryType
  <2>1. CASE \/ CheckPaused(th) \/ DrainPage(th) \/ AddBack(th) \/ AddFresh(th)
             \/ Unhold(th) \/ ReleaseLock(th) \/ DivertIfPaused(th)
             \/ WorkerFinishes(th) \/ \E id \in Ids : InspectMain(th, id)
    <3>1. UNCHANGED <<paused, dispatched, accepted, runs, swallowed, overtaken, pauses,
                      faults>>
      BY <2>1 DEF CheckPaused, DrainPage, AddBack, AddFresh, Unhold,
         ReleaseLock, DivertIfPaused, WorkerFinishes, InspectMain
    <3> QED BY <1>0, <3>1 DEF HistoryType
  <2>2. CASE \/ AddDirect(th) \/ Recheck(th) \/ ReleaseCheck(th) \/ AcquireLock(th)
             \/ LookAgain(th)
    <3>1. /\ UNCHANGED <<paused, dispatched, runs, swallowed, overtaken, pauses, faults>>
          /\ accepted' = accepted \/ AcceptIfDispatch(th)
      BY <2>2 DEF AddDirect, Recheck, ReleaseCheck, AcquireLock, LookAgain
    <3> QED BY <1>0, <1>a, <3>1 DEF HistoryType
  <2>3. CASE Park(th)
    BY <1>0, <1>t, <2>3 DEF Park, HistoryType
  <2>4. CASE ProcessTransaction(th)
    BY <1>0, <2>4 DEF ProcessTransaction, HistoryType
  <2> QED BY <1>1, <2>0, <2>1, <2>2, <2>3, <2>4 DEF ThreadStep
<1>2. ASSUME NEW th \in Threads, MoveFails(th) \/ Crash(th) \/ WorkerThrows(th) \/ Resume(th)
      PROVE  HistoryType'
  <2>1. /\ UNCHANGED <<dispatched, accepted, runs, swallowed, overtaken, pauses>>
        /\ faults' = faults \/ (faults < MaxFaults /\ faults' = faults + 1)
    BY <1>2 DEF MoveFails, Crash, WorkerThrows, Resume
  <2>2. paused' \in BOOLEAN
    BY <1>0, <1>2, Zenon DEF MoveFails, Crash, WorkerThrows, Resume, HistoryType
  <2> QED BY <1>0, <2>1, <2>2, BoundsAssumption DEF HistoryType
<1>3. ASSUME NEW th \in Threads, NEW t \in Txns, Dispatch(th, t) PROVE HistoryType'
  BY <1>0, <1>3, BoundsAssumption DEF Dispatch, HistoryType
<1>4. ASSUME NEW th \in Threads, NEW id \in Ids, WorkerTakes(th, id) PROVE HistoryType'
  BY <1>0, <1>4 DEF WorkerTakes, HistoryType
<1>5. CASE Pause \/ LockExpires
  <2>1. /\ UNCHANGED <<dispatched, accepted, runs, swallowed>>
        /\ pauses' = pauses \/ (pauses < MaxPauses /\ pauses' = pauses + 1)
        /\ faults' = faults \/ (faults < MaxFaults /\ faults' = faults + 1)
    BY <1>5 DEF Pause, LockExpires
  <2>2. paused' \in BOOLEAN /\ overtaken' \in BOOLEAN
    BY <1>0, <1>5, Zenon DEF Pause, LockExpires, HistoryType
  <2> QED BY <1>0, <2>1, <2>2, BoundsAssumption DEF HistoryType
<1>6. CASE UNCHANGED vars
  BY <1>0, <1>6 DEF vars, HistoryType
<1> QED BY <1>1, <1>2, <1>3, <1>4, <1>5, <1>6, EveryStep

LEMMA TypeStep == TypeInv /\ [Next]_vars => TypeInv'
  BY ThreadsStep, QueuesStep, HistoryStep DEF TypeInv

-----------------------------------------------------------------------------
\* Shapes, and the lock.

LEMMA ShapeStep == TypeInv /\ ShapeInv /\ [Next]_vars => ShapeInv'
<1> SUFFICES ASSUME TypeInv, ShapeInv, [Next]_vars PROVE ShapeInv'
  OBVIOUS
<1>0. ThreadsType
  BY DEF TypeInv
<1>1. ASSUME NEW th \in Threads, NEW op, NEW pc, NEW ids, NEW page, NEW cur,
             Becomes(th, op, pc, ids, page, cur), ShapeOf(thread'[th])
      PROVE  ShapeInv'
  BY <1>1 DEF Becomes, ShapeInv
<1>2. ASSUME NEW th \in Threads, Returns(th) PROVE ShapeInv'
  <2>1. ShapeOf(thread[th])
    BY DEF ShapeInv
  <2>2. CASE Starts(th, "work", "finish", thread[th].ids) /\ thread[th].op = "work"
    <3>1. ShapeOf(thread'[th])
      BY <2>1, <2>2 DEF Starts, Becomes, ShapeOf, MovePcs
    <3> QED BY <1>1, <2>2, <3>1 DEF Starts
  <2>3. CASE Rests(th)
    <3>1. ShapeOf(thread'[th])
      BY <2>3 DEF Rests, Starts, Becomes, ShapeOf, MovePcs
    <3> QED BY <1>1, <2>3, <3>1 DEF Rests, Starts
  <2> QED BY <1>2, <2>2, <2>3 DEF Returns
<1>3. ASSUME NEW th \in Threads, NEW pc, Steps(th, pc),
             \/ pc \in MovePcs /\ thread[th].pc \in MovePcs
             \/ /\ pc \notin MovePcs /\ thread[th].pc \notin MovePcs
                /\ pc # "idle"
                /\ pc = "finish" => thread[th].pc = "run"
                /\ pc = "run" => thread[th].pc = "divert"
                /\ pc = "park" => thread[th].pc \in {"check", "divert"}
                /\ pc = "add" => thread[th].pc = "check"
                /\ pc \notin {"check", "divert"}
      PROVE  ShapeInv'
  <2>1. ShapeOf(thread[th])
    BY DEF ShapeInv
  <2>2. ShapeOf(thread'[th])
    BY <1>3, <2>1 DEF Steps, Becomes, ShapeOf, MovePcs
  <2> QED BY <1>1, <1>3, <2>2 DEF Steps
<1>4. ASSUME NEW th \in Threads, ThreadStep(th) PROVE ShapeInv'
  <2>0. WalkEffects(th)
    BY <1>0, WalkEffect
  <2>s. ShapeOf(thread[th])
    BY DEF ShapeInv
  <2>1. CASE \/ CheckPaused(th) \/ Park(th) \/ Recheck(th) \/ ReleaseCheck(th)
             \/ AcquireLock(th) \/ RemoveOld(th) \/ AddBack(th) \/ AddFresh(th)
             \/ ReleaseLock(th) \/ LookAgain(th) \/ DivertIfPaused(th)
             \/ ProcessTransaction(th)
    BY <1>2, <1>3, <2>0, <2>1 DEF WalkEffects, MovePcs
  <2>2. CASE DrainPage(th)
    <3>1. CASE Steps(th, "unlock")
      BY <1>0, <1>3, <2>2, <3>1, DrainPageEffect DEF MovePcs
    <3>2. CASE Becomes(th, thread[th].op, "inspect", thread[th].ids, hold, thread[th].cur)
      <4>1. ShapeOf(thread'[th])
        BY <1>0, <2>2, <2>s, <3>2, DrainPageEffect DEF Becomes, ShapeOf, MovePcs
      <4> QED BY <1>1, <3>2, <4>1
    <3> QED BY <1>0, <2>2, <3>1, <3>2, DrainPageEffect
  <2>3. ASSUME NEW id \in Ids, InspectMain(th, id) PROVE ShapeInv'
    <3>1. Becomes(th, thread[th].op, AfterInspect(main[id]), thread[th].ids,
                  thread[th].page \ {id}, {id})
      BY <1>0, <2>3, InspectEffect
    <3>2. AfterInspect(main[id]) \in MovePcs
      BY DEF AfterInspect, MovePcs
    <3>3. ShapeOf(thread'[th])
      BY <2>s, <3>1, <3>2 DEF Becomes, ShapeOf, MovePcs
    <3> QED BY <1>1, <3>1, <3>3
  <2>4. CASE Unhold(th)
    <3>1. PICK pc \in {"drain", "inspect"} :
             Becomes(th, thread[th].op, pc, thread[th].ids, thread[th].page, {})
      BY <1>0, <2>4, UnholdEffect
    <3>2. ShapeOf(thread'[th])
      BY <2>s, <3>1 DEF Becomes, ShapeOf, MovePcs
    <3> QED BY <1>1, <3>1, <3>2
  <2>5. CASE AddDirect(th) \/ WorkerFinishes(th)
    <3>1. Rests(th)
      BY <1>0, <2>5, StartEffect
    <3>2. ShapeOf(thread'[th])
      BY <3>1 DEF Rests, Starts, Becomes, ShapeOf, MovePcs
    <3> QED BY <1>1, <3>1, <3>2 DEF Rests, Starts
  <2> QED BY <1>4, <2>1, <2>2, <2>3, <2>4, <2>5 DEF ThreadStep
<1>5. ASSUME NEW th \in Threads, Crash(th) \/ WorkerThrows(th) PROVE ShapeInv'
  <2>1. Rests(th)
    BY <1>0, <1>5, StartEffect
  <2>2. ShapeOf(thread'[th])
    BY <2>1 DEF Rests, Starts, Becomes, ShapeOf, MovePcs
  <2> QED BY <1>1, <2>1, <2>2 DEF Rests, Starts
<1>6. ASSUME NEW th \in Threads, MoveFails(th) PROVE ShapeInv'
  <2>1. Becomes(th, thread[th].op, "unlock", thread[th].ids, {}, {})
    BY <1>0, <1>6, MoveFailsEffect
  <2>2. ShapeOf(thread[th])
    BY DEF ShapeInv
  <2>3. ShapeOf(thread'[th])
    BY <2>1, <2>2 DEF Becomes, ShapeOf, MovePcs
  <2> QED BY <1>1, <2>1, <2>3
<1>7. ASSUME NEW th \in Threads, NEW op, NEW pc, NEW ids, Starts(th, op, pc, ids),
             \/ op = "dispatch" /\ pc = "check" /\ \E t \in Txns : ids = {<<t, 0>>}
             \/ op = "work" /\ pc = "divert" /\ \E id \in Ids : ids = {id}
             \/ op = "resume" /\ pc = "relCheck" /\ ids = {}
      PROVE  ShapeInv'
  <2>1. ShapeOf(thread'[th])
    BY <1>7, ZeroCopies DEF Starts, Becomes, ShapeOf, MovePcs
  <2> QED BY <1>1, <1>7, <2>1 DEF Starts
<1>8. CASE Pause \/ LockExpires \/ UNCHANGED vars
  BY <1>8 DEF Pause, LockExpires, vars, ShapeInv
<1> QED BY <1>0, <1>4, <1>5, <1>6, <1>7, <1>8, EveryStep, StartEffect

\* An expiry under a drain is a fault, and is never forgotten.
LEMMA OvertakenStays ==
    ASSUME TypeInv, [Next]_vars
    PROVE  /\ overtaken => overtaken'
           /\ faults' = 0 => faults = 0 /\ (overtaken' <=> overtaken)
<1>1. \/ UNCHANGED <<overtaken, faults>>
      \/ faults' = faults + 1 /\ (overtaken => overtaken')
  <2>0. ASSUME NEW th \in Threads, RemoveOld(th)
        PROVE  overtaken' = overtaken /\ (faults' = faults \/ faults' = faults + 1)
    BY <2>0 DEF RemoveOld
  <2>1. ASSUME NEW th \in Threads, ThreadStep(th), ~RemoveOld(th)
        PROVE  UNCHANGED <<overtaken, faults>>
    BY <2>1 DEF ThreadStep, CheckPaused, AddDirect, Park, Recheck, ReleaseCheck,
       AcquireLock, DrainPage, InspectMain, AddBack, AddFresh, Unhold,
       ReleaseLock, LookAgain, DivertIfPaused, ProcessTransaction, WorkerFinishes
  <2>2. ASSUME NEW th \in Threads,
               \/ Resume(th) \/ (\E t \in Txns : Dispatch(th, t))
               \/ \E id \in Ids : WorkerTakes(th, id)
        PROVE  UNCHANGED <<overtaken, faults>>
    BY <2>2 DEF Resume, Dispatch, WorkerTakes
  <2>3. ASSUME NEW th \in Threads, MoveFails(th) \/ Crash(th) \/ WorkerThrows(th)
        PROVE  faults' = faults + 1 /\ overtaken' = overtaken
    BY <2>3 DEF MoveFails, Crash, WorkerThrows
  <2>4. CASE LockExpires
    BY <2>4 DEF LockExpires
  <2>5. CASE Pause \/ UNCHANGED vars
    BY <2>5 DEF Pause, vars
  <2> QED BY <2>0, <2>1, <2>2, <2>3, <2>4, <2>5, EveryStep
<1>2. faults \in Nat
  BY BoundsAssumption DEF TypeInv, HistoryType
<1> QED BY <1>1, <1>2

\* The steps that leave the lock, the hold queue, the main queue, the ids or
\* the runs alone.
LEMMA LockKept ==
    ASSUME NEW th \in Threads, ThreadStep(th), ~AcquireLock(th), ~ReleaseLock(th)
    PROVE  lock' = lock
  BY DEF ThreadStep, CheckPaused, AddDirect, Park, Recheck, ReleaseCheck, DrainPage,
     InspectMain, RemoveOld, AddBack, AddFresh, Unhold, LookAgain, DivertIfPaused,
     ProcessTransaction, WorkerFinishes

\* Where a call's step leads it: into a drain only through the lock.
LEMMA DrainEntered ==
    ASSUME ThreadsType, NEW th \in Threads, ThreadStep(th), ~AcquireLock(th)
    PROVE  /\ thread'[th].pc \in DrainPcs => thread[th].pc \in DrainPcs
           /\ \A other \in Threads : other # th => thread'[other] = thread[other]
<1> USE DEF DrainPcs
<1>0. WalkEffects(th)
  BY WalkEffect
<1>1. CASE \/ CheckPaused(th) \/ Park(th) \/ Recheck(th) \/ ReleaseCheck(th)
           \/ RemoveOld(th) \/ AddBack(th) \/ AddFresh(th) \/ ReleaseLock(th)
           \/ LookAgain(th) \/ DivertIfPaused(th) \/ ProcessTransaction(th)
  BY <1>0, <1>1 DEF WalkEffects, Steps, Returns, Rests, Starts, Becomes
<1>2. CASE DrainPage(th)
  BY <1>2, DrainPageEffect DEF Steps, Becomes
<1>3. ASSUME NEW id \in Ids, InspectMain(th, id)
      PROVE  /\ thread[th].pc \in DrainPcs
             /\ \A other \in Threads : other # th => thread'[other] = thread[other]
  BY <1>3, InspectEffect DEF InspectMain, Becomes
<1>4. CASE Unhold(th)
  BY <1>4, UnholdEffect DEF Unhold, Becomes
<1>5. CASE AddDirect(th) \/ WorkerFinishes(th)
  BY <1>5, StartEffect DEF Rests, Starts, Becomes
<1> QED BY <1>1, <1>2, <1>3, <1>4, <1>5 DEF ThreadStep

LEMMA LockStep == TypeInv /\ LockInv /\ [Next]_vars => LockInv'
<1> SUFFICES ASSUME TypeInv, LockInv, [Next]_vars PROVE LockInv'
  OBVIOUS
<1>0. ThreadsType
  BY DEF TypeInv
<1>1. faults' = 0 => ~overtaken'
  BY OvertakenStays DEF LockInv
<1>2. SUFFICES ASSUME ~overtaken', NEW o \in Threads, thread'[o].pc \in DrainPcs
               PROVE  lock' = o
  BY <1>1 DEF LockInv
<1>3. \A th \in Threads : thread[th].pc \in DrainPcs => lock = th
  BY <1>2, OvertakenStays DEF LockInv
<1>4. ASSUME NEW th \in Threads, ThreadStep(th) PROVE lock' = o
  <2>1. CASE AcquireLock(th)
    <3>1. CASE lock = NoThread /\ lock' = th /\ Steps(th, "drain")
      BY <1>2, <1>3, <3>1, NoThreadAssumption DEF Steps, Becomes
    <3>2. CASE lock' = lock /\ Returns(th)
      BY <1>2, <1>3, <3>2 DEF Returns, Rests, Starts, Becomes, DrainPcs
    <3> QED BY <1>0, <2>1, <3>1, <3>2, WalkEffect DEF WalkEffects
  <2>2. CASE ReleaseLock(th)
    <3>1. Steps(th, "again") /\ lock' = IF lock = th THEN NoThread ELSE lock
      BY <1>0, <2>2, WalkEffect DEF WalkEffects, ReleaseLock
    <3> QED BY <1>2, <1>3, <3>1 DEF Steps, Becomes, DrainPcs
  <2>3. CASE ~AcquireLock(th) /\ ~ReleaseLock(th)
    <3>1. lock' = lock
      BY <1>4, <2>3, LockKept
    <3> QED BY <1>0, <1>2, <1>3, <1>4, <2>3, <3>1, DrainEntered
  <2> QED BY <2>1, <2>2, <2>3
<1>5. ASSUME NEW th \in Threads,
             \/ Crash(th) \/ WorkerThrows(th) \/ Resume(th)
             \/ \E t \in Txns : Dispatch(th, t)
             \/ \E id \in Ids : WorkerTakes(th, id)
      PROVE  lock' = o
  <2>1. /\ thread'[th].pc \notin DrainPcs
        /\ \A other \in Threads : other # th => thread'[other] = thread[other]
    BY <1>0, <1>5, StartEffect DEF Rests, Starts, Becomes, DrainPcs
  <2>2. lock' = lock \/ (lock = th /\ lock' = NoThread)
    BY <1>5 DEF Crash, WorkerThrows, Resume, Dispatch, WorkerTakes
  <2> QED BY <1>2, <1>3, <2>1, <2>2
<1>6. ASSUME NEW th \in Threads, MoveFails(th) PROVE lock' = o
  <2>1. Becomes(th, thread[th].op, "unlock", thread[th].ids, {}, {}) /\ lock' = lock
    BY <1>0, <1>6, MoveFailsEffect DEF MoveFails
  <2> QED BY <1>2, <1>3, <2>1 DEF Becomes, DrainPcs
<1>7. CASE LockExpires
  BY <1>2, <1>3, <1>7 DEF LockExpires
<1>8. CASE Pause \/ UNCHANGED vars
  BY <1>2, <1>3, <1>8 DEF Pause, vars
<1> QED BY <1>4, <1>5, <1>6, <1>7, <1>8, EveryStep

\* One drain at a time, in the form the later lemmas use.
LEMMA OneDrain ==
    ASSUME LockInv, ~overtaken, NEW a \in Threads, NEW b \in Threads,
           thread[a].pc \in DrainPcs, thread[b].pc \in DrainPcs
    PROVE  a = b
  BY DEF LockInv

-----------------------------------------------------------------------------
\* What a drain holds in its hands is in the hold queue.

LEMMA HoldKept ==
    ASSUME NEW th \in Threads, ThreadStep(th), ~Park(th), ~Unhold(th)
    PROVE  hold' = hold
  BY DEF ThreadStep, CheckPaused, AddDirect, Recheck, ReleaseCheck, AcquireLock,
     DrainPage, InspectMain, RemoveOld, AddBack, AddFresh, ReleaseLock, LookAgain,
     DivertIfPaused, ProcessTransaction, WorkerFinishes

LEMMA OtherHoldKept ==
    ASSUME NEW th \in Threads,
           \/ MoveFails(th) \/ Crash(th) \/ WorkerThrows(th) \/ Resume(th)
           \/ (\E t \in Txns : Dispatch(th, t))
           \/ \E id \in Ids : WorkerTakes(th, id)
    PROVE  hold' = hold
  BY DEF MoveFails, Crash, WorkerThrows, Resume, Dispatch, WorkerTakes

\* Starting, resting and failing leave a call outside every drain.
LEMMA OutsideDrain ==
    ASSUME ThreadsType, NEW th \in Threads,
           \/ MoveFails(th) \/ Crash(th) \/ WorkerThrows(th) \/ Resume(th)
           \/ (\E t \in Txns : Dispatch(th, t))
           \/ \E id \in Ids : WorkerTakes(th, id)
    PROVE  /\ thread'[th].pc \notin DrainPcs
           /\ \A other \in Threads : other # th => thread'[other] = thread[other]
<1>1. CASE MoveFails(th)
  BY <1>1, MoveFailsEffect DEF Becomes, DrainPcs
<1>2. CASE ~MoveFails(th)
  BY <1>2, StartEffect DEF Rests, Starts, Becomes, DrainPcs
<1> QED BY <1>1, <1>2

LEMMA DrainStep ==
    TypeInv /\ LockInv /\ DrainInv /\ [Next]_vars => DrainInv'
<1> SUFFICES ASSUME TypeInv, LockInv, DrainInv, [Next]_vars, ~overtaken',
                    NEW o \in Threads
             PROVE  DrainOf(thread'[o], hold')
  BY DEF DrainInv
<1>0. ThreadsType /\ ~overtaken /\ \A th \in Threads : DrainOf(thread[th], hold)
  BY OvertakenStays DEF TypeInv, DrainInv
<1>1. ASSUME thread'[o].pc \notin DrainPcs \/ thread'[o].pc = "drain"
      PROVE  DrainOf(thread'[o], hold')
  BY <1>1 DEF DrainOf, DrainPcs, MovePcs
<1>2. ASSUME thread'[o] = thread[o], hold \subseteq hold'
      PROVE  DrainOf(thread'[o], hold')
  BY <1>0, <1>2 DEF DrainOf
<1>3. ASSUME NEW th \in Threads, ThreadStep(th) PROVE DrainOf(thread'[o], hold')
  <2>0. WalkEffects(th)
    BY <1>0, WalkEffect
  <2>1. CASE \/ CheckPaused(th) \/ Park(th) \/ Recheck(th) \/ ReleaseCheck(th)
             \/ AcquireLock(th) \/ ReleaseLock(th) \/ LookAgain(th)
             \/ DivertIfPaused(th) \/ ProcessTransaction(th)
    <3>1. hold \subseteq hold'
      BY <1>3, <2>1, HoldKept DEF Park, Unhold, CheckPaused, Recheck, ReleaseCheck,
         AcquireLock, ReleaseLock, LookAgain, DivertIfPaused, ProcessTransaction
    <3>2. CASE o = th
      <4>1. thread'[th].pc \notin DrainPcs \/ thread'[th].pc = "drain"
        BY <2>0, <2>1 DEF WalkEffects, Steps, Returns, Rests, Starts, Becomes, DrainPcs
      <4> QED BY <1>1, <3>2, <4>1
    <3>3. CASE o # th
      <4>1. thread'[o] = thread[o]
        BY <2>0, <2>1, <3>3 DEF WalkEffects, Steps, Returns, Rests, Starts, Becomes
      <4> QED BY <1>2, <3>1, <4>1
    <3> QED BY <3>2, <3>3
  <2>2. CASE RemoveOld(th) \/ AddBack(th) \/ AddFresh(th)
    <3>1. hold' = hold
      BY <2>2 DEF RemoveOld, AddBack, AddFresh
    <3>2. DrainOf(thread[th], hold) /\ DrainOf(thread[o], hold)
      BY <1>0
    <3> QED BY <2>0, <2>2, <3>1, <3>2
            DEF WalkEffects, Steps, Becomes, DrainOf, MovePcs
  <2>3. CASE DrainPage(th)
    <3>1. hold' = hold
      BY <2>3 DEF DrainPage
    <3>2. CASE Steps(th, "unlock")
      BY <1>1, <1>2, <3>1, <3>2 DEF Steps, Becomes, DrainPcs
    <3>3. CASE Becomes(th, thread[th].op, "inspect", thread[th].ids, hold, thread[th].cur)
      BY <1>2, <3>1, <3>3 DEF Becomes, DrainOf, MovePcs
    <3> QED BY <1>0, <2>3, <3>2, <3>3, DrainPageEffect
  <2>4. ASSUME NEW id \in Ids, InspectMain(th, id) PROVE DrainOf(thread'[o], hold')
    <3>1. Becomes(th, thread[th].op, AfterInspect(main[id]), thread[th].ids,
                  thread[th].page \ {id}, {id})
      BY <1>0, <2>4, InspectEffect
    <3>2. hold' = hold /\ thread[th].pc = "inspect" /\ id \in thread[th].page
      BY <2>4 DEF InspectMain
    <3>3. thread[th].page \subseteq hold
      BY <1>0, <3>2 DEF DrainOf
    <3> QED BY <1>2, <3>1, <3>2, <3>3 DEF Becomes, DrainOf
  <2>5. CASE Unhold(th)
    <3>1. PICK pc \in {"drain", "inspect"} :
             Becomes(th, thread[th].op, pc, thread[th].ids, thread[th].page, {})
      BY <1>0, <2>5, UnholdEffect
    <3>2. hold' = hold \ thread[th].cur /\ thread[th].pc = "unhold"
      BY <2>5 DEF Unhold
    <3>3. CASE o = th
      <4>1. thread[th].page \subseteq hold'
        BY <1>0, <3>2 DEF DrainOf, MovePcs
      <4> QED BY <3>1, <3>3, <4>1 DEF Becomes, DrainOf, MovePcs
    <3>4. CASE o # th
      <4>1. thread[o].pc \notin DrainPcs
        BY <1>0, <3>2, <3>4, OneDrain DEF DrainPcs
      <4> QED BY <1>1, <3>1, <3>4, <4>1 DEF Becomes
    <3> QED BY <3>3, <3>4
  <2>6. CASE AddDirect(th) \/ WorkerFinishes(th)
    <3>1. Rests(th) /\ hold' = hold
      BY <1>0, <2>6, StartEffect DEF AddDirect, WorkerFinishes
    <3> QED BY <1>1, <1>2, <3>1 DEF Rests, Starts, Becomes, DrainPcs
  <2> QED BY <1>3, <2>1, <2>2, <2>3, <2>4, <2>5, <2>6 DEF ThreadStep
<1>4. ASSUME NEW th \in Threads,
             \/ MoveFails(th) \/ Crash(th) \/ WorkerThrows(th) \/ Resume(th)
             \/ (\E t \in Txns : Dispatch(th, t))
             \/ \E id \in Ids : WorkerTakes(th, id)
      PROVE  DrainOf(thread'[o], hold')
  BY <1>0, <1>1, <1>2, <1>4, OutsideDrain, OtherHoldKept
<1>5. CASE Pause \/ LockExpires \/ UNCHANGED vars
  BY <1>2, <1>5 DEF Pause, LockExpires, vars
<1> QED BY <1>3, <1>4, <1>5, EveryStep

-----------------------------------------------------------------------------
\* Workers and their jobs.

\* A step of a call keeps its operation and its job, or ends the call.
LEMMA CallKept ==
    ASSUME ThreadsType, NEW th \in Threads, ThreadStep(th) \/ MoveFails(th)
    PROVE  /\ \A other \in Threads : other # th => thread'[other] = thread[other]
           /\ \/ Rests(th)
              \/ thread'[th].op = thread[th].op /\ thread'[th].ids = thread[th].ids
           /\ ThreadStep(th) /\ thread[th].op = "work" /\ ~WorkerFinishes(th)
                /\ ~AddDirect(th)
                => thread'[th].op = "work" /\ thread'[th].ids = thread[th].ids
<1>0. WalkEffects(th)
  BY WalkEffect
<1>1. CASE \/ CheckPaused(th) \/ Park(th) \/ Recheck(th) \/ ReleaseCheck(th)
           \/ AcquireLock(th) \/ RemoveOld(th) \/ AddBack(th) \/ AddFresh(th)
           \/ ReleaseLock(th) \/ LookAgain(th) \/ DivertIfPaused(th)
           \/ ProcessTransaction(th)
  BY <1>0, <1>1 DEF WalkEffects, Steps, Returns, Rests, Starts, Becomes
<1>2. CASE DrainPage(th)
  BY <1>2, DrainPageEffect DEF Steps, Becomes
<1>3. ASSUME NEW id \in Ids, InspectMain(th, id)
      PROVE  /\ thread'[th].op = thread[th].op /\ thread'[th].ids = thread[th].ids
             /\ \A other \in Threads : other # th => thread'[other] = thread[other]
  BY <1>3, InspectEffect DEF Becomes
<1>4. CASE Unhold(th)
  BY <1>4, UnholdEffect DEF Becomes
<1>5. CASE AddDirect(th) \/ WorkerFinishes(th)
  BY <1>5, StartEffect DEF Rests, Starts, Becomes
<1>6. CASE MoveFails(th)
  BY <1>6, MoveFailsEffect DEF Becomes, MoveFails, WorkerFinishes, AddDirect
<1> QED BY <1>1, <1>2, <1>3, <1>4, <1>5, <1>6 DEF ThreadStep

\* Only its own worker changes an active job.
LEMMA ActiveKept ==
    ASSUME TypeInv, NEW th \in Threads, ThreadStep(th), ~WorkerFinishes(th),
           NEW id \in Ids, main[id] = "active"
    PROVE  main'[id] = "active"
<1>0. main \in [Ids -> MainStates]
  BY DEF TypeInv, QueuesType
<1>1. CASE AddDirect(th) \/ AddBack(th) \/ AddFresh(th)
  BY <1>0, <1>1 DEF AddDirect, AddBack, AddFresh, AddToMain
<1>2. CASE RemoveOld(th)
  BY <1>0, <1>2 DEF RemoveOld
<1>3. CASE ~(AddDirect(th) \/ AddBack(th) \/ AddFresh(th) \/ RemoveOld(th))
  BY <1>3 DEF ThreadStep, CheckPaused, Park, Recheck, ReleaseCheck, AcquireLock,
     DrainPage, InspectMain, Unhold, ReleaseLock, LookAgain, DivertIfPaused,
     ProcessTransaction
<1> QED BY <1>1, <1>2, <1>3

LEMMA WorkStep == TypeInv /\ ShapeInv /\ WorkInv /\ [Next]_vars => WorkInv'
<1> SUFFICES ASSUME TypeInv, ShapeInv, WorkInv, [Next]_vars PROVE WorkInv'
  OBVIOUS
<1>0. ThreadsType /\ main \in [Ids -> MainStates]
  BY DEF TypeInv, QueuesType
<1>1. ASSUME \A o \in Threads : \A id \in Ids :
                WorkOn(o, id)' => WorkOn(o, id) /\ main'[id] = "active"
      PROVE  WorkInv'
  BY <1>1 DEF WorkInv
<1>2. ASSUME NEW th \in Threads, ThreadStep(th), ~WorkerFinishes(th) PROVE WorkInv'
  <2>1. \A o \in Threads : \A id \in Ids : WorkOn(o, id)' => WorkOn(o, id)
    BY <1>0, <1>2, CallKept DEF WorkOn, Rests, Starts, Becomes
  <2>2. \A id \in Ids : main[id] = "active" => main'[id] = "active"
    BY <1>2, ActiveKept
  <2> QED BY <1>1, <2>1, <2>2 DEF WorkInv
<1>3. ASSUME NEW th \in Threads,
             \/ MoveFails(th) \/ Resume(th) \/ \E t \in Txns : Dispatch(th, t)
      PROVE  WorkInv'
  <2>1. main' = main
    BY <1>3 DEF MoveFails, Resume, Dispatch
  <2>2. \A o \in Threads : \A id \in Ids : WorkOn(o, id)' => WorkOn(o, id)
    <3>1. CASE MoveFails(th)
      BY <1>0, <3>1, CallKept DEF WorkOn, Rests, Starts, Becomes
    <3>2. CASE ~MoveFails(th)
      BY <1>0, <1>3, <3>2, StartEffect DEF WorkOn, Starts, Becomes
    <3> QED BY <3>1, <3>2
  <2> QED BY <1>1, <2>1, <2>2 DEF WorkInv
<1>4. ASSUME NEW th \in Threads, WorkerFinishes(th) \/ Crash(th) \/ WorkerThrows(th)
      PROVE  WorkInv'
  <2>1. Rests(th)
    BY <1>0, <1>4, StartEffect
  <2>2. \A id \in Ids : main'[id] # main[id] => WorkOn(th, id)
    BY <1>0, <1>4 DEF WorkerFinishes, Crash, WorkerThrows, WorkOn, ShapeInv, ShapeOf
  <2>3. \A o \in Threads : \A id \in Ids : WorkOn(o, id)' => o # th /\ WorkOn(o, id)
    BY <2>1 DEF Rests, Starts, Becomes, WorkOn
  <2> QED BY <1>1, <2>2, <2>3 DEF WorkInv
<1>5. ASSUME NEW th \in Threads, NEW j \in Ids, WorkerTakes(th, j) PROVE WorkInv'
  <2>1. Starts(th, "work", "divert", {j})
    BY <1>0, <1>5, StartEffect
  <2>2. /\ main[j] = "waiting" /\ main'[j] = "active"
        /\ \A id \in Ids : id # j => main'[id] = main[id]
    BY <1>0, <1>5 DEF WorkerTakes
  <2>3. \A id \in Ids : WorkOn(th, id)' <=> id = j
    BY <2>1 DEF Starts, Becomes, WorkOn
  <2>4. \A o \in Threads : \A id \in Ids :
           o # th => (WorkOn(o, id)' <=> WorkOn(o, id)) /\ (WorkOn(o, id) => id # j)
    BY <2>1, <2>2 DEF Starts, Becomes, WorkOn, WorkInv
  <2> QED BY <2>2, <2>3, <2>4 DEF WorkInv
<1>6. CASE Pause \/ LockExpires \/ UNCHANGED vars
  <2>1. UNCHANGED <<thread, main>>
    BY <1>6 DEF Pause, LockExpires, vars
  <2> QED BY <2>1 DEF WorkInv, WorkOn
<1> QED BY <1>2, <1>3, <1>4, <1>5, <1>6, EveryStep DEF ThreadStep

-----------------------------------------------------------------------------
\* Fresh ids.

LEMMA CopiesGrow ==
    ASSUME TypeInv, [Next]_vars, NEW t \in Txns
    PROVE  copies'[t] \in Nat /\ copies[t] \in Nat /\ copies'[t] >= copies[t]
<1>0. copies \in [Txns -> 0..MaxCopies] /\ copies' \in [Txns -> 0..MaxCopies]
  BY TypeStep DEF TypeInv, QueuesType
<1>1. copies[t] \in Nat /\ copies'[t] \in Nat
  BY <1>0, BoundsAssumption
<1>2. copies' = copies \/ \E u : copies' = [copies EXCEPT ![u] = @ + 1]
  <2>1. ASSUME NEW th \in Threads, ThreadStep(th)
        PROVE  copies' = copies \/ \E u : copies' = [copies EXCEPT ![u] = @ + 1]
    BY <2>1 DEF ThreadStep, CheckPaused, AddDirect, Park, Recheck, ReleaseCheck,
       AcquireLock, DrainPage, InspectMain, RemoveOld, AddBack, AddFresh, Unhold,
       ReleaseLock, LookAgain, DivertIfPaused, ProcessTransaction, WorkerFinishes
  <2>2. ASSUME NEW th \in Threads,
               \/ MoveFails(th) \/ Crash(th) \/ WorkerThrows(th) \/ Resume(th)
               \/ (\E u \in Txns : Dispatch(th, u))
               \/ \E id \in Ids : WorkerTakes(th, id)
        PROVE  copies' = copies
    BY <2>2 DEF MoveFails, Crash, WorkerThrows, Resume, Dispatch, WorkerTakes
  <2>3. CASE Pause \/ LockExpires \/ UNCHANGED vars
    BY <2>3 DEF Pause, LockExpires, vars
  <2> QED BY <2>1, <2>2, <2>3, EveryStep
<1> QED BY <1>0, <1>1, <1>2

LEMMA FreshStep == TypeInv /\ FreshInv /\ [Next]_vars => FreshInv'
<1> SUFFICES ASSUME TypeInv, FreshInv, [Next]_vars, NEW id \in Ids, Unmade(id)'
             PROVE  /\ main'[id] = "none" /\ id \notin hold'
                    /\ \A o \in Threads : NotIn(id, thread'[o])
  BY DEF FreshInv
<1> DEFINE Nowhere == /\ main'[id] = "none" /\ id \notin hold'
                      /\ \A o \in Threads : NotIn(id, thread'[o])
<1>0. ThreadsType /\ main \in [Ids -> MainStates]
  BY DEF TypeInv, QueuesType
<1>t. id[1] \in Txns /\ id[2] \in Nat
  BY IdParts, BoundsAssumption
<1>1. Unmade(id)
  BY <1>t, CopiesGrow DEF Unmade
<1>2. /\ main[id] = "none" /\ id \notin hold
      /\ \A th \in Threads : NotIn(id, thread[th])
  BY <1>1 DEF FreshInv
<1>z. id[2] # 0
  BY <1>1, <1>t, CopiesGrow DEF Unmade
<1>3. ASSUME NEW th \in Threads, NEW op, NEW pc, NEW ids, NEW page, NEW cur,
             Becomes(th, op, pc, ids, page, cur), id \notin ids, id \notin page,
             id \notin cur
      PROVE  \A o \in Threads : NotIn(id, thread'[o])
  BY <1>2, <1>3 DEF Becomes, NotIn
<1>4. ASSUME NEW th \in Threads, ThreadStep(th) PROVE Nowhere
  <2>1. NotIn(id, thread[th]) /\ WalkEffects(th)
    BY <1>0, <1>2, WalkEffect
  <2>2. \A o \in Threads : NotIn(id, thread'[o])
    <3>1. ASSUME NEW pc, Steps(th, pc) PROVE \A o \in Threads : NotIn(id, thread'[o])
      BY <1>3, <2>1, <3>1 DEF Steps, NotIn
    <3>2. ASSUME Returns(th) \/ Rests(th) PROVE \A o \in Threads : NotIn(id, thread'[o])
      BY <1>3, <2>1, <3>2 DEF Returns, Rests, Starts, NotIn
    <3>3. CASE DrainPage(th)
      BY <1>0, <1>2, <1>3, <2>1, <3>1, <3>3, DrainPageEffect DEF NotIn
    <3>4. ASSUME NEW j \in Ids, InspectMain(th, j)
          PROVE  \A o \in Threads : NotIn(id, thread'[o])
      <4>1. id # j
        BY <2>1, <3>4 DEF InspectMain, NotIn
      <4> QED BY <1>0, <1>3, <2>1, <3>4, <4>1, InspectEffect DEF NotIn
    <3>5. CASE Unhold(th)
      BY <1>0, <1>3, <2>1, <3>5, UnholdEffect DEF NotIn
    <3>6. CASE AddDirect(th) \/ WorkerFinishes(th)
      BY <1>0, <3>2, <3>6, StartEffect
    <3> QED BY <1>4, <2>1, <3>1, <3>2, <3>3, <3>4, <3>5, <3>6
            DEF ThreadStep, WalkEffects
  <2>3. id \notin hold'
    <3>1. hold' \subseteq hold \cup thread[th].ids
      BY <1>4, HoldKept DEF Park, Unhold
    <3> QED BY <1>2, <2>1, <3>1 DEF NotIn
  <2>4. main'[id] = "none"
    <3>1. CASE AddDirect(th) \/ AddBack(th)
      BY <1>0, <1>2, <2>1, <3>1 DEF AddDirect, AddBack, AddToMain, NotIn
    <3>2. CASE AddFresh(th)
      <4>1. PICK j \in thread[th].cur :
               /\ copies' = [copies EXCEPT ![j[1]] = @ + 1]
               /\ AddToMain(<<j[1], copies[j[1]] + 1>>)
        BY <3>2 DEF AddFresh
      <4>2. id # <<j[1], copies[j[1]] + 1>>
        <5>1. SUFFICES ASSUME id = <<j[1], copies[j[1]] + 1>> PROVE FALSE
          OBVIOUS
        <5>2. id[1] = j[1] /\ id[2] = copies[id[1]] + 1
          BY <5>1
        <5>3. copies'[id[1]] = copies[id[1]] + 1
          BY <4>1, <5>2, <1>t DEF TypeInv, QueuesType
        <5> QED BY <5>2, <5>3, <1>t, CopiesGrow DEF Unmade
      <4> QED BY <1>0, <1>2, <4>1, <4>2 DEF AddToMain
    <3>3. CASE RemoveOld(th) \/ WorkerFinishes(th)
      BY <1>0, <1>2, <2>1, <3>3 DEF RemoveOld, WorkerFinishes, NotIn
    <3>4. CASE ~(\/ AddDirect(th) \/ AddBack(th) \/ AddFresh(th) \/ RemoveOld(th)
                 \/ WorkerFinishes(th))
      BY <1>2, <1>4, <3>4 DEF ThreadStep, CheckPaused, Park, Recheck, ReleaseCheck,
         AcquireLock, DrainPage, InspectMain, Unhold, ReleaseLock, LookAgain,
         DivertIfPaused, ProcessTransaction
    <3> QED BY <3>1, <3>2, <3>3, <3>4
  <2> QED BY <2>2, <2>3, <2>4
<1>5. ASSUME NEW th \in Threads,
             \/ MoveFails(th) \/ Crash(th) \/ WorkerThrows(th) \/ Resume(th)
             \/ (\E t \in Txns : Dispatch(th, t))
             \/ \E j \in Ids : WorkerTakes(th, j)
      PROVE  Nowhere
  <2>1. id \notin hold'
    BY <1>2, <1>5, OtherHoldKept
  <2>2. main'[id] = "none"
    BY <1>0, <1>2, <1>5 DEF MoveFails, Crash, WorkerThrows, Resume, Dispatch,
       WorkerTakes, NotIn
  <2>3. \A o \in Threads : NotIn(id, thread'[o])
    <3>1. CASE MoveFails(th)
      BY <1>0, <1>2, <1>3, <3>1, MoveFailsEffect DEF NotIn
    <3>2. CASE Crash(th) \/ WorkerThrows(th) \/ Resume(th)
      BY <1>0, <1>3, <3>2, StartEffect DEF Rests, Starts
    <3>3. ASSUME NEW t \in Txns, Dispatch(th, t)
          PROVE  \A o \in Threads : NotIn(id, thread'[o])
      <4>1. id \notin {<<t, 0>>}
        BY <1>z
      <4> QED BY <1>0, <1>3, <3>3, <4>1, StartEffect DEF Starts
    <3>4. ASSUME NEW j \in Ids, WorkerTakes(th, j)
          PROVE  \A o \in Threads : NotIn(id, thread'[o])
      <4>1. id \notin {j}
        BY <1>2, <3>4 DEF WorkerTakes
      <4> QED BY <1>0, <1>3, <3>4, <4>1, StartEffect DEF Starts
    <3> QED BY <1>5, <3>1, <3>2, <3>3, <3>4
  <2> QED BY <2>1, <2>2, <2>3
<1>6. CASE Pause \/ LockExpires \/ UNCHANGED vars
  <2>1. UNCHANGED <<thread, main, hold>>
    BY <1>6 DEF Pause, LockExpires, vars
  <2> QED BY <1>2, <2>1
<1> QED BY <1>4, <1>5, <1>6, EveryStep

-----------------------------------------------------------------------------
\* Jobs that stay alive.

OtherStep(th) ==
    \/ MoveFails(th) \/ Crash(th) \/ WorkerThrows(th) \/ Resume(th)
    \/ (\E t \in Txns : Dispatch(th, t))
    \/ \E id \in Ids : WorkerTakes(th, id)
QuietStep == Pause \/ LockExpires \/ UNCHANGED vars

LEMMA StepKinds ==
    [Next]_vars => QuietStep \/ \E th \in Threads : ThreadStep(th) \/ OtherStep(th)
  BY EveryStep DEF QuietStep, OtherStep

LEMMA OthersAlone ==
    ASSUME ThreadsType, NEW th \in Threads, ThreadStep(th) \/ OtherStep(th),
           NEW other \in Threads, other # th
    PROVE  thread'[other] = thread[other]
  BY CallKept, OutsideDrain DEF OtherStep

\* Runs and ignored diverts are never forgotten.
LEMMA MarksStay ==
    ASSUME TypeInv, [Next]_vars, NEW t \in Txns
    PROVE  /\ t \in swallowed => t \in swallowed'
           /\ runs[t] > 0 => runs'[t] > 0
<1>0. runs \in [Txns -> Nat]
  BY DEF TypeInv, HistoryType
<1>1. ASSUME NEW th \in Threads, ThreadStep(th), ~Park(th), ~ProcessTransaction(th)
      PROVE  UNCHANGED <<swallowed, runs>>
  BY <1>1 DEF ThreadStep, CheckPaused, AddDirect, Recheck, ReleaseCheck, AcquireLock,
     DrainPage, InspectMain, RemoveOld, AddBack, AddFresh, Unhold, ReleaseLock,
     LookAgain, DivertIfPaused, WorkerFinishes
<1>2. ASSUME NEW th \in Threads, OtherStep(th) PROVE UNCHANGED <<swallowed, runs>>
  BY <1>2 DEF OtherStep, MoveFails, Crash, WorkerThrows, Resume, Dispatch, WorkerTakes
<1>3. CASE QuietStep
  BY <1>3 DEF QuietStep, Pause, LockExpires, vars
<1>4. ASSUME NEW th \in Threads, Park(th)
      PROVE  swallowed \subseteq swallowed' /\ runs' = runs
  BY <1>4 DEF Park
<1>5. ASSUME NEW th \in Threads, ProcessTransaction(th)
      PROVE  swallowed' = swallowed /\ runs'[t] \in {runs[t], runs[t] + 1}
  BY <1>5 DEF ProcessTransaction
<1> QED BY <1>0, <1>1, <1>2, <1>3, <1>4, <1>5, StepKinds

\* What becomes of the main queue's entries.
LEMMA MainNext ==
    ASSUME TypeInv, ShapeInv, WorkInv, [Next]_vars, NEW id \in Ids
    PROVE  /\ main[id] = "none" => main'[id] \in {"none", "waiting"}
           /\ main[id] = "failed" =>
                 \/ main'[id] = "failed"
                 \/ \E th \in Threads : RemoveOld(th) /\ id \in thread[th].cur
           /\ main[id] = "waiting" =>
                 \/ main'[id] = "waiting"
                 \/ \E th \in Threads : RemoveOld(th) /\ id \in thread[th].cur
                 \/ \E th \in Threads : WorkerTakes(th, id)
<1>0. main \in [Ids -> MainStates]
  BY DEF TypeInv, QueuesType
<1>w. \A th \in Threads : thread[th].op = "work" /\ id \in thread[th].ids
                            => main[id] = "active"
  BY DEF WorkInv, WorkOn
<1>1. ASSUME NEW th \in Threads, ThreadStep(th),
             ~(\/ AddDirect(th) \/ AddBack(th) \/ AddFresh(th) \/ RemoveOld(th)
               \/ WorkerFinishes(th))
      PROVE  main' = main
  BY <1>1 DEF ThreadStep, CheckPaused, Park, Recheck, ReleaseCheck, AcquireLock,
     DrainPage, InspectMain, Unhold, ReleaseLock, LookAgain, DivertIfPaused,
     ProcessTransaction
<1>2. ASSUME NEW th \in Threads, AddDirect(th) \/ AddBack(th) \/ AddFresh(th)
      PROVE  \/ main'[id] = main[id]
             \/ main[id] = "none" /\ main'[id] = "waiting"
  BY <1>0, <1>2 DEF AddDirect, AddBack, AddFresh, AddToMain
<1>3. ASSUME NEW th \in Threads, RemoveOld(th)
      PROVE  \/ main'[id] = main[id]
             \/ id \in thread[th].cur /\ main'[id] = "none"
  BY <1>0, <1>3 DEF RemoveOld
<1>4. ASSUME NEW th \in Threads, WorkerFinishes(th) \/ Crash(th) \/ WorkerThrows(th)
      PROVE  main'[id] = main[id] \/ main[id] = "active"
  <2>1. WorkerFinishes(th) => thread[th].op = "work"
    BY DEF WorkerFinishes, ShapeInv, ShapeOf
  <2> QED BY <1>w, <1>4, <2>1 DEF WorkerFinishes, Crash, WorkerThrows
<1>5. ASSUME NEW th \in Threads,
             MoveFails(th) \/ Resume(th) \/ \E t \in Txns : Dispatch(th, t)
      PROVE  main' = main
  BY <1>5 DEF MoveFails, Resume, Dispatch
<1>6. ASSUME NEW th \in Threads, NEW j \in Ids, WorkerTakes(th, j)
      PROVE  IF j = id THEN main[id] = "waiting" ELSE main'[id] = main[id]
  BY <1>0, <1>6 DEF WorkerTakes
<1>7. CASE QuietStep
  BY <1>7 DEF QuietStep, Pause, LockExpires, vars
<1> QED BY <1>1, <1>2, <1>3, <1>4, <1>5, <1>6, <1>7, StepKinds DEF OtherStep

\* A job that will be run, parked or seen: it stays so, or it is parked (and
\* an ignored parking is remembered), or it is run, or a drain replaces it.
LEMMA InMainNext ==
    ASSUME TypeInv, ShapeInv, WorkInv, [Next]_vars, NEW j \in Ids, InMain(j)
    PROVE  \/ InMain(j)'
           \/ j \in hold' /\ (j \in hold => j[1] \in swallowed')
           \/ runs'[j[1]] > 0
           \/ \E th \in Threads : RemoveOld(th) /\ j \in thread[th].cur
<1>0. ThreadsType /\ main \in [Ids -> MainStates] /\ runs \in [Txns -> Nat]
  BY DEF TypeInv, QueuesType, HistoryType
<1>1. CASE main[j] = "failed"
  BY <1>1, MainNext DEF InMain
<1>2. CASE main[j] = "waiting"
  <2>1. ASSUME NEW th \in Threads, WorkerTakes(th, j) PROVE InMain(j)'
    BY <1>0, <2>1, StartEffect DEF InMain, Undecided, WorkOn, Starts, Becomes
  <2> QED BY <1>2, <2>1, MainNext DEF InMain
<1>3. CASE Undecided(j)
  <2>1. PICK w \in Threads : WorkOn(w, j) /\ thread[w].pc \in {"divert", "park", "run"}
    BY <1>3 DEF Undecided
  <2>2. CASE thread'[w] = thread[w]
    BY <2>1, <2>2 DEF InMain, Undecided, WorkOn
  <2>3. CASE ThreadStep(w)
    <3>0. WalkEffects(w)
      BY <1>0, WalkEffect
    <3>1. CASE DivertIfPaused(w)
      BY <2>1, <3>0, <3>1 DEF WalkEffects, Steps, Becomes, InMain, Undecided, WorkOn
    <3>2. CASE Park(w)
      BY <2>1, <3>2 DEF Park, WorkOn
    <3>3. CASE ProcessTransaction(w)
      <4>1. j[1] \in Txns /\ runs[j[1]] \in Nat
        BY <1>0, IdParts
      <4>2. runs'[j[1]] = runs[j[1]] + 1
        BY <2>1, <3>3, <4>1 DEF ProcessTransaction, WorkOn
      <4> QED BY <4>1, <4>2
    <3> QED BY <2>1, <2>3, <3>1, <3>2, <3>3 DEF ThreadStep, CheckPaused, AddDirect,
            Recheck, ReleaseCheck, AcquireLock, DrainPage, InspectMain, RemoveOld,
            AddBack, AddFresh, Unhold, ReleaseLock, LookAgain, WorkerFinishes
  <2>4. CASE Crash(w) \/ WorkerThrows(w)
    BY <2>1, <2>4 DEF Crash, WorkerThrows, WorkOn, InMain
  <2>5. CASE ~(ThreadStep(w) \/ Crash(w) \/ WorkerThrows(w))
    <3>1. ~OtherStep(w)
      BY <2>1, <2>5 DEF OtherStep, MoveFails, Resume, Dispatch, WorkerTakes
    <3>2. QuietStep => thread' = thread
      BY DEF QuietStep, Pause, LockExpires, vars
    <3> QED BY <1>0, <2>2, <2>5, <3>1, <3>2, StepKinds, OthersAlone
  <2> QED BY <2>3, <2>4, <2>5
<1> QED BY <1>1, <1>2, <1>3 DEF InMain

-----------------------------------------------------------------------------
\* No job is lost.

LEMMA HoldShrinks ==
    ASSUME [Next]_vars, NEW j \in hold, j \notin hold'
    PROVE  \E th \in Threads : Unhold(th) /\ j \in thread[th].cur
<1>1. ASSUME NEW th \in Threads, ThreadStep(th) PROVE Unhold(th) /\ j \in thread[th].cur
  BY <1>1, HoldKept DEF Park, Unhold
<1>2. ASSUME NEW th \in Threads, OtherStep(th) PROVE FALSE
  BY <1>2, OtherHoldKept DEF OtherStep
<1>3. CASE QuietStep
  BY <1>3 DEF QuietStep, Pause, LockExpires, vars
<1> QED BY <1>1, <1>2, <1>3, StepKinds

\* The copy that a held job leaves behind outlives every step but the removal
\* of that held job.
LEMMA ElsewhereStays ==
    ASSUME TypeInv, ShapeInv, LockInv, DrainInv, WorkInv, [Next]_vars, ~overtaken,
           NEW o \in Threads, thread[o].pc \in {"addMain", "unhold"}, ~Unhold(o),
           NEW id \in Ids, id \in thread[o].cur, Elsewhere(id)
    PROVE  Elsewhere(id)'
<1>0. id \in hold /\ id[1] \in Txns
  BY IdParts DEF DrainInv, DrainOf, MovePcs
<1>1. \A th \in Threads : ~Unhold(th) /\ ~RemoveOld(th)
  BY OneDrain DEF Unhold, RemoveOld, DrainPcs
<1>2. CASE id[1] \in swallowed \/ runs[id[1]] > 0
  BY <1>0, <1>2, MarksStay DEF Elsewhere
<1>3. ASSUME NEW j \in Ids, j[1] = id[1], j \in hold, j # id PROVE Elsewhere(id)'
  BY <1>1, <1>3, HoldShrinks DEF Elsewhere
<1>4. ASSUME NEW j \in Ids, j[1] = id[1], InMain(j) PROVE Elsewhere(id)'
  <2>1. \/ InMain(j)'
        \/ j \in hold' /\ (j \in hold => j[1] \in swallowed')
        \/ runs'[j[1]] > 0
    BY <1>1, <1>4, InMainNext
  <2> QED BY <1>0, <1>4, <2>1 DEF Elsewhere
<1> QED BY <1>2, <1>3, <1>4 DEF Elsewhere

LEMMA MoveStep ==
    /\ TypeInv /\ ShapeInv /\ LockInv /\ DrainInv /\ WorkInv /\ FreshInv /\ MoveInv
    /\ [Next]_vars
    => MoveInv'
<1> SUFFICES ASSUME TypeInv, ShapeInv, LockInv, DrainInv, WorkInv, FreshInv, MoveInv,
                    [Next]_vars, ~overtaken', NEW o \in Threads, NEW id,
                    id \in thread'[o].cur
             PROVE  /\ thread'[o].pc = "addMain" => main'[id] = "none" \/ Elsewhere(id)'
                    /\ thread'[o].pc = "unhold" => Elsewhere(id)'
  BY DEF MoveInv
<1> DEFINE Goal == /\ thread'[o].pc = "addMain" => main'[id] = "none" \/ Elsewhere(id)'
                   /\ thread'[o].pc = "unhold" => Elsewhere(id)'
<1>0. ThreadsType /\ ~overtaken /\ main \in [Ids -> MainStates]
  BY OvertakenStays DEF TypeInv, QueuesType
<1>t. id \in Ids
  BY TypeStep DEF TypeInv, ThreadsType, ThreadType
<1>m. ASSUME NEW j \in Ids, j[1] = id[1], main'[j] = "waiting" PROVE Elsewhere(id)'
  BY <1>m DEF Elsewhere, InMain
<1>1. CASE thread'[o] = thread[o] /\ ~Unhold(o)
  <2>1. CASE thread[o].pc = "addMain"
    <3>1. main[id] = "none" \/ Elsewhere(id)
      BY <1>0, <1>1, <2>1 DEF MoveInv
    <3>2. main[id] = "none" => main'[id] \in {"none", "waiting"}
      BY <1>t, MainNext
    <3>3. Elsewhere(id) => Elsewhere(id)'
      BY <1>0, <1>1, <1>t, <2>1, ElsewhereStays
    <3> QED BY <1>1, <1>m, <1>t, <2>1, <3>1, <3>2, <3>3
  <2>2. CASE thread[o].pc = "unhold"
    <3>1. Elsewhere(id)
      BY <1>0, <1>1, <2>2 DEF MoveInv
    <3>2. Elsewhere(id)'
      BY <1>0, <1>1, <1>t, <2>2, <3>1, ElsewhereStays
    <3> QED BY <3>2
  <2> QED BY <1>1, <2>1, <2>2
<1>2. CASE ThreadStep(o)
  <2>0. WalkEffects(o)
    BY <1>0, WalkEffect
  <2>1. CASE AddBack(o)
    <3>1. thread[o].pc = "addMain" /\ Steps(o, "unhold")
      BY <2>0, <2>1 DEF WalkEffects
    <3>2. thread'[o].pc = "unhold" /\ id \in thread[o].cur
      BY <3>1 DEF Steps, Becomes
    <3>3. main[id] = "none" \/ Elsewhere(id)
      BY <1>0, <3>1, <3>2 DEF MoveInv
    <3>4. CASE Elsewhere(id)
      BY <1>0, <1>t, <3>1, <3>2, <3>4, ElsewhereStays DEF Unhold
    <3>5. CASE main[id] = "none"
      <4>1. PICK j \in Ids : thread[o].cur = {j}
        BY <3>1 DEF ShapeInv, ShapeOf, MovePcs
      <4>2. main'[id] = "waiting"
        BY <1>0, <1>t, <2>1, <3>2, <3>5, <4>1 DEF AddBack, AddToMain
      <4> QED BY <1>m, <1>t, <3>2, <4>2
    <3> QED BY <3>2, <3>3, <3>4, <3>5
  <2>2. CASE AddFresh(o)
    <3>1. thread[o].pc = "addFresh" /\ Steps(o, "unhold")
      BY <2>0, <2>2 DEF WalkEffects
    <3>2. thread'[o].pc = "unhold" /\ thread[o].cur = {id}
      <4>1. \E j \in Ids : thread[o].cur = {j}
        BY <3>1 DEF ShapeInv, ShapeOf, MovePcs
      <4> QED BY <3>1, <4>1 DEF Steps, Becomes
    <3>3. /\ copies[id[1]] < MaxCopies
          /\ AddToMain(<<id[1], copies[id[1]] + 1>>)
      BY <2>2, <3>2 DEF AddFresh
    <3>4. id[1] \in Txns /\ copies[id[1]] \in 0..MaxCopies
      BY <1>t, IdParts DEF TypeInv, QueuesType
    <3>5. PICK fresh \in Ids : fresh = <<id[1], copies[id[1]] + 1>>
      <4>1. copies[id[1]] + 1 \in 0..MaxCopies
        BY <3>3, <3>4, BoundsAssumption
      <4> QED BY <3>4, <4>1 DEF Ids
    <3>6. Unmade(fresh)
      BY <3>4, <3>5, BoundsAssumption DEF Unmade
    <3>7. main'[fresh] = "waiting"
      BY <1>0, <3>3, <3>5, <3>6 DEF FreshInv, AddToMain
    <3> QED BY <1>m, <3>2, <3>5, <3>7
  <2>3. CASE RemoveOld(o)
    <3>1. thread[o].pc = "removeOld" /\ (Steps(o, "addFresh") \/ Steps(o, "addMain"))
      BY <2>0, <2>3 DEF WalkEffects
    <3>2. thread[o].cur = {id}
      <4>1. \E j \in Ids : thread[o].cur = {j}
        BY <3>1 DEF ShapeInv, ShapeOf, MovePcs
      <4> QED BY <3>1, <4>1 DEF Steps, Becomes
    <3>3. Steps(o, "addFresh") \/ main'[id] = "none"
      BY <1>0, <1>t, <2>3, <3>2, GotoEffect DEF RemoveOld
    <3> QED BY <3>1, <3>3 DEF Steps, Becomes
  <2>4. ASSUME NEW j \in Ids, InspectMain(o, j) PROVE Goal
    <3>0. Becomes(o, thread[o].op, AfterInspect(main[j]), thread[o].ids,
                  thread[o].page \ {j}, {j})
      BY <1>0, <2>4, InspectEffect
    <3>a. main' = main
      BY <2>4 DEF InspectMain
    <3>1. thread'[o].pc = AfterInspect(main[j]) /\ id = j /\ main' = main
      BY <3>0, <3>a DEF Becomes
    <3>2. CASE main[j] = "none"
      BY <3>1, <3>2 DEF AfterInspect
    <3>3. CASE main[j] = "waiting"
      BY <1>m, <1>t, <3>1, <3>3 DEF AfterInspect
    <3>4. CASE main[j] \notin {"none", "waiting"}
      BY <3>1, <3>4 DEF AfterInspect
    <3> QED BY <3>2, <3>3, <3>4
  <2>5. CASE Unhold(o)
    BY <1>0, <2>5, UnholdEffect DEF Becomes
  <2>6. CASE AddDirect(o) \/ WorkerFinishes(o)
    BY <1>0, <2>6, StartEffect DEF Rests, Starts, Becomes
  <2>7. CASE DrainPage(o)
    BY <1>0, <2>7, DrainPageEffect DEF Steps, Becomes
  <2>8. CASE \/ CheckPaused(o) \/ Park(o) \/ Recheck(o) \/ ReleaseCheck(o)
             \/ AcquireLock(o) \/ ReleaseLock(o) \/ LookAgain(o)
             \/ DivertIfPaused(o) \/ ProcessTransaction(o)
    BY <2>0, <2>8 DEF WalkEffects, Steps, Returns, Rests, Starts, Becomes
  <2> QED BY <1>2, <2>1, <2>2, <2>3, <2>4, <2>5, <2>6, <2>7, <2>8 DEF ThreadStep
<1>3. CASE OtherStep(o)
  BY <1>0, <1>3, OutsideDrain DEF OtherStep, DrainPcs
<1>4. CASE ~ThreadStep(o) /\ ~OtherStep(o)
  <2>1. QuietStep => thread' = thread
    BY DEF QuietStep, Pause, LockExpires, vars
  <2>2. thread'[o] = thread[o]
    BY <1>0, <1>4, <2>1, StepKinds, OthersAlone
  <2> QED BY <1>1, <1>4, <2>2 DEF ThreadStep
<1> QED BY <1>2, <1>3, <1>4

LEMMA AliveStays ==
    ASSUME TypeInv, ShapeInv, LockInv, DrainInv, WorkInv, MoveInv, [Next]_vars,
           ~overtaken, NEW t \in Txns, Alive(t)
    PROVE  Alive(t)'
<1>1. CASE t \in swallowed \/ runs[t] > 0
  BY <1>1, MarksStay DEF Alive
<1>2. ASSUME NEW j \in Ids, j[1] = t, InMain(j) PROVE Alive(t)'
  <2>1. ASSUME NEW th \in Threads, RemoveOld(th), j \in thread[th].cur PROVE j \in hold'
    BY <2>1 DEF RemoveOld, DrainInv, DrainOf, MovePcs
  <2> QED BY <1>2, <2>1, InMainNext DEF Alive
<1>3. ASSUME NEW j \in Ids, j[1] = t, j \in hold PROVE Alive(t)'
  <2>1. CASE j \in hold'
    BY <1>3, <2>1 DEF Alive
  <2>2. CASE j \notin hold'
    <3>1. PICK th \in Threads : Unhold(th) /\ j \in thread[th].cur
      BY <1>3, <2>2, HoldShrinks
    <3>2. Elsewhere(j) /\ hold' = hold \ thread[th].cur
      BY <3>1 DEF Unhold, MoveInv
    <3>3. thread[th].cur = {j}
      BY <3>1 DEF Unhold, ShapeInv, ShapeOf, MovePcs
    <3>4. ASSUME NEW k \in Ids, k[1] = t, k \in hold, k # j PROVE Alive(t)'
      BY <3>2, <3>3, <3>4 DEF Alive
    <3> QED BY <1>1, <1>2, <1>3, <3>2, <3>4 DEF Elsewhere
  <2> QED BY <2>1, <2>2
<1> QED BY <1>1, <1>2, <1>3 DEF Alive

\* A transaction newly started is alive.
LEMMA StartedAlive ==
    ASSUME TypeInv, ShapeInv, WorkInv, [Next]_vars, NEW t \in Txns, Started(t)'
    PROVE  Started(t) \/ Alive(t)'
<1>0. ThreadsType /\ main \in [Ids -> MainStates]
  BY DEF TypeInv, QueuesType
<1>1. ASSUME NEW id \in Ids, id[1] = t, main'[id] # "none"
      PROVE  Started(t) \/ Alive(t)'
  <2>1. CASE main[id] # "none"
    BY <1>1, <2>1 DEF Started
  <2>2. CASE main[id] = "none"
    BY <1>1, <2>2, MainNext DEF Alive, InMain
  <2> QED BY <2>1, <2>2
<1>2. CASE t \in accepted' /\ t \notin accepted
  <2>1. PICK th \in Threads : /\ AcceptIfDispatch(th)
                              /\ \/ AddDirect(th) \/ Recheck(th) \/ ReleaseCheck(th)
                                 \/ AcquireLock(th) \/ LookAgain(th)
    <3>1. ASSUME NEW th \in Threads, ThreadStep(th)
          PROVE  /\ AcceptIfDispatch(th)
                 /\ \/ AddDirect(th) \/ Recheck(th) \/ ReleaseCheck(th)
                    \/ AcquireLock(th) \/ LookAgain(th)
      BY <1>2, <3>1 DEF ThreadStep, CheckPaused, AddDirect, Park, Recheck,
         ReleaseCheck, AcquireLock, DrainPage, InspectMain, RemoveOld, AddBack,
         AddFresh, Unhold, ReleaseLock, LookAgain, DivertIfPaused,
         ProcessTransaction, WorkerFinishes
    <3>2. ASSUME NEW th \in Threads, OtherStep(th) PROVE FALSE
      BY <1>2, <3>2 DEF OtherStep, MoveFails, Crash, WorkerThrows, Resume, Dispatch,
         WorkerTakes
    <3>3. CASE QuietStep
      BY <1>2, <3>3 DEF QuietStep, Pause, LockExpires, vars
    <3> QED BY <3>1, <3>2, <3>3, StepKinds
  <2>2. PICK id \in thread[th].ids : id[1] = t /\ thread[th].op = "dispatch"
    BY <1>2, <2>1 DEF AcceptIfDispatch
  <2>3. CASE AddDirect(th)
    <3>1. id \in Ids /\ thread[th].ids = {id}
      BY <1>0, <2>2 DEF ShapeInv, ShapeOf, ThreadsType, ThreadType
    <3>2. main'[id] # "none"
      BY <1>0, <2>3, <3>1 DEF AddDirect, AddToMain
    <3> QED BY <1>1, <2>2, <3>1, <3>2
  <2>4. CASE ~AddDirect(th)
    BY <2>1, <2>2, <2>4 DEF Recheck, ReleaseCheck, AcquireLock, LookAgain, Started,
       Dispatching
  <2> QED BY <2>3, <2>4
<1>3. ASSUME NEW o \in Threads, Dispatching(o, t)' PROVE Started(t) \/ Alive(t)'
  <2>1. CASE Dispatching(o, t)
    BY <2>1 DEF Started
  <2>2. CASE ~Dispatching(o, t)
    <3>1. CASE thread'[o] = thread[o]
      BY <1>3, <2>2, <3>1 DEF Dispatching
    <3>2. CASE OtherStep(o)
      <4>1. CASE MoveFails(o)
        BY <1>0, <1>3, <2>2, <4>1, MoveFailsEffect DEF MoveFails, Becomes, Dispatching
      <4>2. CASE ~MoveFails(o)
        BY <1>0, <1>3, <3>2, <4>2, StartEffect
           DEF OtherStep, Rests, Starts, Becomes, Dispatching
      <4> QED BY <4>1, <4>2
    <3>3. CASE ThreadStep(o)
      <4>1. /\ thread[o].op = "dispatch" /\ thread'[o].ids = thread[o].ids
            /\ ~Rests(o)
        BY <1>0, <1>3, <3>3, CallKept DEF Dispatching, Rests, Starts, Becomes
      <4>2. thread[o].pc \in {"check", "add", "park"}
        BY <1>3, <2>2, <4>1 DEF Dispatching
      <4>3. CheckPaused(o) \/ AddDirect(o) \/ Park(o)
        BY <3>3, <4>2 DEF ThreadStep, DivertIfPaused, Recheck, ReleaseCheck,
           AcquireLock, DrainPage, InspectMain, RemoveOld, AddBack, AddFresh, Unhold,
           ReleaseLock, LookAgain, ProcessTransaction, WorkerFinishes
      <4>4. Park(o)
        BY <1>0, <1>3, <4>1, <4>3, StartEffect, WalkEffect
           DEF WalkEffects, Steps, Becomes, Dispatching
      <4>5. PICK id \in thread[o].ids : id[1] = t
        BY <1>3, <4>1 DEF Dispatching
      <4>6. id \in Ids /\ id \in hold'
        BY <1>0, <4>4 DEF Park, ThreadsType, ThreadType
      <4> QED BY <4>5, <4>6 DEF Alive
    <3>4. CASE ~ThreadStep(o) /\ ~OtherStep(o)
      <4>1. QuietStep => thread' = thread
        BY DEF QuietStep, Pause, LockExpires, vars
      <4> QED BY <1>0, <3>1, <3>4, <4>1, StepKinds, OthersAlone
    <3> QED BY <3>2, <3>3, <3>4
  <2> QED BY <2>1, <2>2
<1> QED BY <1>1, <1>2, <1>3 DEF Started

LEMMA AliveStep ==
    /\ TypeInv /\ ShapeInv /\ LockInv /\ DrainInv /\ WorkInv /\ MoveInv /\ AliveInv
    /\ [Next]_vars
    => AliveInv'
<1> SUFFICES ASSUME TypeInv, ShapeInv, LockInv, DrainInv, WorkInv, MoveInv, AliveInv,
                    [Next]_vars, ~overtaken', NEW t \in Txns, Started(t)'
             PROVE  Alive(t)'
  BY DEF AliveInv
<1>1. ~overtaken
  BY OvertakenStays
<1> QED BY <1>1, StartedAlive, AliveStays DEF AliveInv

-----------------------------------------------------------------------------
\* No job is multiplied.

\* A part of a finite set; one element more; one element fewer.
LEMMA CountPart ==
    ASSUME NEW A, IsFiniteSet(A), NEW B, B \subseteq A
    PROVE  /\ IsFiniteSet(B) /\ Cardinality(B) \in Nat /\ Cardinality(A) \in Nat
           /\ Cardinality(B) <= Cardinality(A)
  BY FS_Subset, FS_CardinalityType

LEMMA CountMore ==
    ASSUME NEW A, IsFiniteSet(A), NEW x, NEW B, B \subseteq A \cup {x}
    PROVE  /\ IsFiniteSet(B) /\ Cardinality(B) \in Nat /\ Cardinality(A) \in Nat
           /\ Cardinality(B) <= Cardinality(A) + 1
<1>1. /\ IsFiniteSet(A \cup {x})
      /\ Cardinality(A \cup {x}) = IF x \in A THEN Cardinality(A) ELSE Cardinality(A) + 1
  BY FS_AddElement
<1>2. Cardinality(A) \in Nat
  BY FS_CardinalityType
<1>3. /\ IsFiniteSet(B) /\ Cardinality(B) \in Nat
      /\ Cardinality(B) <= Cardinality(A \cup {x})
  BY <1>1, CountPart
<1> QED BY <1>1, <1>2, <1>3

LEMMA CountFewer ==
    ASSUME NEW A, IsFiniteSet(A), NEW x \in A, NEW B, B \subseteq A \ {x}
    PROVE  /\ IsFiniteSet(B) /\ Cardinality(B) \in Nat /\ Cardinality(A) \in Nat
           /\ Cardinality(B) + 1 <= Cardinality(A)
<1>1. /\ IsFiniteSet(A \ {x}) /\ Cardinality(A \ {x}) = Cardinality(A) - 1
  BY FS_RemoveElement
<1>2. Cardinality(A) \in Nat
  BY FS_CardinalityType
<1>3. /\ IsFiniteSet(B) /\ Cardinality(B) \in Nat
      /\ Cardinality(B) <= Cardinality(A \ {x})
  BY <1>1, CountPart
<1> QED BY <1>1, <1>2, <1>3

\* The five ways in which a step moves the tokens of a transaction.
TokensShrink(t) ==
    /\ InCall(t)' \subseteq InCall(t) /\ InWait(t)' \subseteq InWait(t)
    /\ InHold(t)' \subseteq InHold(t)
    /\ runs'[t] = runs[t] /\ dispatched'[t] = dispatched[t]

TokenLeavesCall(t, th) ==
    /\ th \in InCall(t) /\ InCall(t)' \subseteq InCall(t) \ {th}
    /\ dispatched'[t] = dispatched[t]
    /\ \/ /\ InWait(t)' \subseteq InWait(t) /\ InHold(t)' \subseteq InHold(t)
          /\ runs'[t] = runs[t] + 1
       \/ /\ \E x : InWait(t)' \subseteq InWait(t) \cup {x}
          /\ InHold(t)' \subseteq InHold(t) /\ runs'[t] = runs[t]
       \/ /\ InWait(t)' \subseteq InWait(t)
          /\ \E x : InHold(t)' \subseteq InHold(t) \cup {x}
          /\ runs'[t] = runs[t]

TokenLeavesHold(t, id) ==
    /\ id \in InHold(t) /\ InHold(t)' \subseteq InHold(t) \ {id}
    /\ \E x : InWait(t)' \subseteq InWait(t) \cup {x}
    /\ InCall(t)' \subseteq InCall(t)
    /\ runs'[t] = runs[t] /\ dispatched'[t] = dispatched[t]

TokenTaken(t, id) ==
    /\ id \in InWait(t) /\ InWait(t)' \subseteq InWait(t) \ {id}
    /\ \E th : InCall(t)' \subseteq InCall(t) \cup {th}
    /\ InHold(t)' \subseteq InHold(t)
    /\ runs'[t] = runs[t] /\ dispatched'[t] = dispatched[t]

TokenMade(t) ==
    /\ \E th : InCall(t)' \subseteq InCall(t) \cup {th}
    /\ InWait(t)' \subseteq InWait(t) /\ InHold(t)' \subseteq InHold(t)
    /\ runs'[t] = runs[t] /\ dispatched'[t] = dispatched[t] + 1

LEMMA TokensCounted ==
    ASSUME TypeInv, NEW t \in Txns, TokensOf(t),
           \/ TokensShrink(t) \/ (\E th : TokenLeavesCall(t, th))
           \/ (\E id : TokenLeavesHold(t, id)) \/ (\E id : TokenTaken(t, id))
           \/ TokenMade(t)
    PROVE  TokensOf(t)'
<1>0. runs[t] \in Nat /\ dispatched[t] \in Nat
  BY BoundsAssumption DEF TypeInv, HistoryType
<1>f. IsFiniteSet(InCall(t)) /\ IsFiniteSet(InWait(t)) /\ IsFiniteSet(InHold(t))
  BY DEF TokensOf
<1>g. runs[t] + Cardinality(InCall(t)) + Cardinality(InWait(t))
         + Cardinality(InHold(t)) <= dispatched[t]
  BY DEF TokensOf
<1>p. /\ InCall(t)' \subseteq InCall(t) =>
            /\ IsFiniteSet(InCall(t)') /\ Cardinality(InCall(t)') \in Nat
            /\ Cardinality(InCall(t)') <= Cardinality(InCall(t))
      /\ InWait(t)' \subseteq InWait(t) =>
            /\ IsFiniteSet(InWait(t)') /\ Cardinality(InWait(t)') \in Nat
            /\ Cardinality(InWait(t)') <= Cardinality(InWait(t))
      /\ InHold(t)' \subseteq InHold(t) =>
            /\ IsFiniteSet(InHold(t)') /\ Cardinality(InHold(t)') \in Nat
            /\ Cardinality(InHold(t)') <= Cardinality(InHold(t))
  BY <1>f, CountPart
<1>m. /\ \A x : InCall(t)' \subseteq InCall(t) \cup {x} =>
            /\ IsFiniteSet(InCall(t)') /\ Cardinality(InCall(t)') \in Nat
            /\ Cardinality(InCall(t)') <= Cardinality(InCall(t)) + 1
      /\ \A x : InWait(t)' \subseteq InWait(t) \cup {x} =>
            /\ IsFiniteSet(InWait(t)') /\ Cardinality(InWait(t)') \in Nat
            /\ Cardinality(InWait(t)') <= Cardinality(InWait(t)) + 1
      /\ \A x : InHold(t)' \subseteq InHold(t) \cup {x} =>
            /\ IsFiniteSet(InHold(t)') /\ Cardinality(InHold(t)') \in Nat
            /\ Cardinality(InHold(t)') <= Cardinality(InHold(t)) + 1
  BY <1>f, CountMore
<1>l. /\ \A x \in InCall(t) : InCall(t)' \subseteq InCall(t) \ {x} =>
            /\ IsFiniteSet(InCall(t)') /\ Cardinality(InCall(t)') \in Nat
            /\ Cardinality(InCall(t)') + 1 <= Cardinality(InCall(t))
      /\ \A x \in InWait(t) : InWait(t)' \subseteq InWait(t) \ {x} =>
            /\ IsFiniteSet(InWait(t)') /\ Cardinality(InWait(t)') \in Nat
            /\ Cardinality(InWait(t)') + 1 <= Cardinality(InWait(t))
      /\ \A x \in InHold(t) : InHold(t)' \subseteq InHold(t) \ {x} =>
            /\ IsFiniteSet(InHold(t)') /\ Cardinality(InHold(t)') \in Nat
            /\ Cardinality(InHold(t)') + 1 <= Cardinality(InHold(t))
  BY <1>f, CountFewer
<1>n. /\ Cardinality(InCall(t)) \in Nat /\ Cardinality(InWait(t)) \in Nat
      /\ Cardinality(InHold(t)) \in Nat
  BY <1>f, FS_CardinalityType
<1>1. CASE TokensShrink(t)
  BY <1>0, <1>f, <1>g, <1>n, <1>p, <1>1 DEF TokensShrink, TokensOf
<1>2. CASE \E th : TokenLeavesCall(t, th)
  <2>1. /\ IsFiniteSet(InCall(t)') /\ Cardinality(InCall(t)') \in Nat
        /\ Cardinality(InCall(t)') + 1 <= Cardinality(InCall(t))
        /\ dispatched'[t] = dispatched[t]
    BY <1>2, <1>l DEF TokenLeavesCall
  <2>2. /\ IsFiniteSet(InWait(t)') /\ Cardinality(InWait(t)') \in Nat
        /\ IsFiniteSet(InHold(t)') /\ Cardinality(InHold(t)') \in Nat
        /\ runs'[t] \in Nat
        /\ runs'[t] + Cardinality(InWait(t)') + Cardinality(InHold(t)')
             <= runs[t] + Cardinality(InWait(t)) + Cardinality(InHold(t)) + 1
    BY <1>0, <1>2, <1>m, <1>n, <1>p DEF TokenLeavesCall
  <2> QED BY <1>0, <1>g, <1>n, <2>1, <2>2 DEF TokensOf
<1>3. CASE \E id : TokenLeavesHold(t, id)
  <2>1. /\ IsFiniteSet(InHold(t)') /\ Cardinality(InHold(t)') \in Nat
        /\ Cardinality(InHold(t)') + 1 <= Cardinality(InHold(t))
    BY <1>3, <1>l DEF TokenLeavesHold
  <2>2. /\ IsFiniteSet(InWait(t)') /\ Cardinality(InWait(t)') \in Nat
        /\ Cardinality(InWait(t)') <= Cardinality(InWait(t)) + 1
        /\ IsFiniteSet(InCall(t)') /\ Cardinality(InCall(t)') \in Nat
        /\ Cardinality(InCall(t)') <= Cardinality(InCall(t))
        /\ runs'[t] = runs[t] /\ dispatched'[t] = dispatched[t]
    BY <1>3, <1>m, <1>p DEF TokenLeavesHold
  <2> QED BY <1>0, <1>g, <1>n, <2>1, <2>2 DEF TokensOf
<1>4. CASE \E id : TokenTaken(t, id)
  <2>1. /\ IsFiniteSet(InWait(t)') /\ Cardinality(InWait(t)') \in Nat
        /\ Cardinality(InWait(t)') + 1 <= Cardinality(InWait(t))
    BY <1>4, <1>l DEF TokenTaken
  <2>2. /\ IsFiniteSet(InCall(t)') /\ Cardinality(InCall(t)') \in Nat
        /\ Cardinality(InCall(t)') <= Cardinality(InCall(t)) + 1
        /\ IsFiniteSet(InHold(t)') /\ Cardinality(InHold(t)') \in Nat
        /\ Cardinality(InHold(t)') <= Cardinality(InHold(t))
        /\ runs'[t] = runs[t] /\ dispatched'[t] = dispatched[t]
    BY <1>4, <1>m, <1>p DEF TokenTaken
  <2> QED BY <1>0, <1>g, <1>n, <2>1, <2>2 DEF TokensOf
<1>5. CASE TokenMade(t)
  <2>1. /\ IsFiniteSet(InCall(t)') /\ Cardinality(InCall(t)') \in Nat
        /\ Cardinality(InCall(t)') <= Cardinality(InCall(t)) + 1
        /\ IsFiniteSet(InWait(t)') /\ Cardinality(InWait(t)') \in Nat
        /\ Cardinality(InWait(t)') <= Cardinality(InWait(t))
        /\ IsFiniteSet(InHold(t)') /\ Cardinality(InHold(t)') \in Nat
        /\ Cardinality(InHold(t)') <= Cardinality(InHold(t))
        /\ runs'[t] = runs[t] /\ dispatched'[t] = dispatched[t] + 1
    BY <1>5, <1>m, <1>p DEF TokenMade
  <2> QED BY <1>0, <1>g, <1>n, <2>1 DEF TokensOf
<1> QED BY <1>1, <1>2, <1>3, <1>4, <1>5

CallPcs == {"check", "add", "park", "divert", "run"}

\* A call outside those places holds no token; one that stays in them and
\* keeps its job keeps its token.
LEMMA CallTokens ==
    ASSUME NEW th \in Threads, NEW t \in Txns,
           \A other \in Threads : other # th => thread'[other] = thread[other]
    PROVE  /\ thread'[th].pc \notin CallPcs => InCall(t)' \subseteq InCall(t) \ {th}
           /\ ~(\E id \in thread'[th].ids : id[1] = t)
                => InCall(t)' \subseteq InCall(t) \ {th}
           /\ thread[th].pc \in CallPcs /\ thread'[th].ids = thread[th].ids
                => InCall(t)' \subseteq InCall(t)
           /\ InCall(t)' \subseteq InCall(t) \cup {th}
  BY DEF InCall, CallPcs

\* Only the removal takes an id out of Moving.
LEMMA MovingTokens ==
    ASSUME NEW th \in Threads, NEW t \in Txns,
           \A other \in Threads : other # th => thread'[other] = thread[other],
           thread[th].pc # "unhold"
    PROVE  /\ hold' \subseteq hold => InHold(t)' \subseteq InHold(t)
           /\ Moving \subseteq Moving'
  BY DEF InHold, Moving

LEMMA TokenStep ==
    /\ TypeInv /\ ShapeInv /\ LockInv /\ DrainInv /\ WorkInv /\ TokenInv /\ [Next]_vars
    => TokenInv'
<1> SUFFICES ASSUME TypeInv, ShapeInv, LockInv, DrainInv, WorkInv, TokenInv, [Next]_vars,
                    faults' = 0, NEW t \in Txns
             PROVE  TokensOf(t)'
  BY DEF TokenInv
<1>0. /\ ThreadsType /\ faults = 0 /\ ~overtaken /\ TokensOf(t)
      /\ main \in [Ids -> MainStates] /\ runs \in [Txns -> Nat]
      /\ dispatched \in [Txns -> 0..MaxDispatch]
  BY OvertakenStays DEF TypeInv, QueuesType, HistoryType, LockInv, TokenInv
<1> DEFINE Goal == \/ TokensShrink(t) \/ (\E th : TokenLeavesCall(t, th))
                   \/ (\E id : TokenLeavesHold(t, id)) \/ (\E id : TokenTaken(t, id))
                   \/ TokenMade(t)
<1>1. SUFFICES Goal
  BY <1>0, TokensCounted
<1> HIDE DEF Goal
<1>w. ASSUME main' = main PROVE InWait(t)' = InWait(t)
  BY <1>w DEF InWait
<1>2. ASSUME NEW th \in Threads, ThreadStep(th) PROVE Goal
  <2>0. WalkEffects(th) /\ \A other \in Threads : other # th => thread'[other] = thread[other]
    BY <1>0, <1>2, WalkEffect, OthersAlone
  <2>c. /\ thread'[th].pc \notin CallPcs => InCall(t)' \subseteq InCall(t) \ {th}
        /\ ~(\E id \in thread'[th].ids : id[1] = t)
             => InCall(t)' \subseteq InCall(t) \ {th}
        /\ thread[th].pc \in CallPcs /\ thread'[th].ids = thread[th].ids
             => InCall(t)' \subseteq InCall(t)
    BY <2>0, CallTokens
  <2>m. thread[th].pc # "unhold" => /\ hold' \subseteq hold => InHold(t)' \subseteq InHold(t)
                                    /\ Moving \subseteq Moving'
    BY <2>0, MovingTokens
  <2>1. CASE CheckPaused(th) \/ DivertIfPaused(th)
    <3>1. /\ UNCHANGED <<main, hold, runs, dispatched>>
          /\ thread[th].pc \in CallPcs /\ thread[th].pc # "unhold"
      BY <2>1 DEF CheckPaused, DivertIfPaused, CallPcs
    <3>2. thread'[th].ids = thread[th].ids
      BY <2>0, <2>1 DEF WalkEffects, Steps, Becomes
    <3> QED BY <1>w, <2>c, <2>m, <3>1, <3>2 DEF TokensShrink, Goal
  <2>2. CASE \/ Recheck(th) \/ ReleaseCheck(th) \/ AcquireLock(th) \/ ReleaseLock(th)
             \/ LookAgain(th) \/ DrainPage(th) \/ \E id \in Ids : InspectMain(th, id)
    <3>1. UNCHANGED <<main, hold, runs, dispatched>> /\ thread[th].pc # "unhold"
      BY <2>2 DEF Recheck, ReleaseCheck, AcquireLock, ReleaseLock, LookAgain, DrainPage,
         InspectMain
    <3>2. thread'[th].pc \notin CallPcs
      <4>1. CASE DrainPage(th)
        BY <1>0, <4>1, DrainPageEffect DEF Steps, Becomes, CallPcs
      <4>2. ASSUME NEW id \in Ids, InspectMain(th, id) PROVE thread'[th].pc \notin CallPcs
        BY <1>0, <4>2, InspectEffect DEF Becomes, AfterInspect, CallPcs
      <4> QED BY <2>0, <2>2, <4>1, <4>2
              DEF WalkEffects, Steps, Returns, Rests, Starts, Becomes, CallPcs
    <3> QED BY <1>w, <2>c, <2>m, <3>1, <3>2 DEF TokensShrink, Goal
  <2>3. CASE RemoveOld(th) \/ WorkerFinishes(th)
    <3>1. UNCHANGED <<hold, runs, dispatched>> /\ thread[th].pc # "unhold"
      BY <2>3 DEF RemoveOld, WorkerFinishes
    <3>2. thread'[th].pc \notin CallPcs
      BY <1>0, <2>0, <2>3, StartEffect
         DEF WalkEffects, Steps, Rests, Starts, Becomes, CallPcs
    <3>3. InWait(t)' \subseteq InWait(t)
      BY <1>0, <2>3 DEF RemoveOld, WorkerFinishes, InWait
    <3> QED BY <2>c, <2>m, <3>1, <3>2, <3>3 DEF TokensShrink, Goal
  <2>4. CASE Unhold(th)
    <3>1. UNCHANGED <<main, runs, dispatched>> /\ hold' = hold \ thread[th].cur
      BY <2>4 DEF Unhold
    <3>2. thread'[th].pc \notin CallPcs
      BY <1>0, <2>4, UnholdEffect DEF Becomes, CallPcs
    <3>3. InHold(t)' \subseteq InHold(t)
      BY <2>0, <3>1 DEF InHold, Moving
    <3> QED BY <1>w, <2>c, <3>1, <3>2, <3>3 DEF TokensShrink, Goal
  <2>5. CASE AddBack(th) \/ AddFresh(th)
    <3>1. /\ UNCHANGED <<hold, runs, dispatched>> /\ Steps(th, "unhold")
          /\ thread[th].pc \in {"addMain", "addFresh"}
      BY <2>0, <2>5 DEF AddBack, AddFresh, WalkEffects
    <3>2. thread'[th].pc = "unhold" /\ thread'[th].cur = thread[th].cur
      BY <3>1 DEF Steps, Becomes
    <3>3. PICK id \in Ids : thread[th].cur = {id}
      BY <3>1 DEF ShapeInv, ShapeOf, MovePcs
    <3>4. id \in hold /\ id \notin Moving
      <4>1. id \in hold
        BY <1>0, <3>1, <3>3 DEF DrainInv, DrainOf, MovePcs
      <4>2. \A o \in Threads : thread[o].pc # "unhold"
        BY <1>0, <3>1, OneDrain DEF DrainPcs
      <4> QED BY <4>1, <4>2 DEF Moving
    <3>5. id \in Moving'
      BY <3>2, <3>3 DEF Moving
    <3>6. InCall(t)' \subseteq InCall(t)
      BY <2>c, <3>2 DEF CallPcs
    <3>7. InHold(t)' \subseteq InHold(t)
      BY <2>m, <3>1
    <3>8. PICK x : x[1] = id[1] /\ main' = [main EXCEPT ![x] = IF @ = "none" THEN "waiting"
                                                               ELSE @]
      BY <2>5, <3>3 DEF AddBack, AddFresh, AddToMain
    <3>9. InWait(t)' \subseteq InWait(t) \cup {x}
      BY <1>0, <3>8 DEF InWait
    <3>10. CASE id[1] = t
      <4>1. id \in InHold(t) /\ InHold(t)' \subseteq InHold(t) \ {id}
        BY <3>4, <3>5, <3>7, <3>10 DEF InHold
      <4> QED BY <3>1, <3>6, <3>9, <4>1 DEF TokenLeavesHold, Goal
    <3>11. CASE id[1] # t
      <4>1. InWait(t)' \subseteq InWait(t)
        BY <3>8, <3>9, <3>11 DEF InWait
      <4> QED BY <3>1, <3>6, <3>7, <4>1 DEF TokensShrink, Goal
    <3> QED BY <3>10, <3>11
  <2>6. CASE AddDirect(th) \/ Park(th) \/ ProcessTransaction(th)
    <3>1. thread[th].pc \in CallPcs /\ thread[th].pc # "unhold" /\ dispatched' = dispatched
      BY <2>6 DEF AddDirect, Park, ProcessTransaction, CallPcs
    <3>2. PICK id \in Ids : thread[th].ids = {id}
      BY <2>6 DEF AddDirect, Park, ProcessTransaction, ShapeInv, ShapeOf
    <3>3. thread'[th].pc \notin CallPcs
      BY <1>0, <2>0, <2>6, StartEffect
         DEF WalkEffects, Steps, Rests, Starts, Becomes, CallPcs
    <3>4. InCall(t)' \subseteq InCall(t) \ {th}
      BY <2>c, <3>3
    <3>5. id[1] = t => th \in InCall(t)
      BY <3>1, <3>2 DEF InCall, CallPcs
    <3>6. CASE AddDirect(th)
      <4>1. /\ hold' = hold /\ runs' = runs
            /\ main' = [main EXCEPT ![id] = IF @ = "none" THEN "waiting" ELSE @]
        BY <3>2, <3>6 DEF AddDirect, AddToMain
      <4>2. /\ InWait(t)' \subseteq InWait(t) \cup {id}
            /\ id[1] # t => InWait(t)' \subseteq InWait(t)
        BY <1>0, <4>1 DEF InWait
      <4>3. InHold(t)' \subseteq InHold(t)
        BY <2>m, <3>1, <4>1
      <4> QED BY <3>1, <3>4, <3>5, <4>1, <4>2, <4>3
              DEF TokensShrink, TokenLeavesCall, Goal
    <3>7. CASE Park(th)
      <4>1. hold' = hold \cup {id} /\ runs' = runs /\ main' = main
        BY <3>2, <3>7 DEF Park
      <4>2. /\ InHold(t)' \subseteq InHold(t) \cup {id}
            /\ id[1] # t => InHold(t)' \subseteq InHold(t)
        BY <2>m, <3>1, <4>1 DEF InHold
      <4> QED BY <1>w, <3>1, <3>4, <3>5, <4>1, <4>2
              DEF TokensShrink, TokenLeavesCall, Goal
    <3>8. CASE ProcessTransaction(th)
      <4>1. hold' = hold /\ main' = main
        BY <3>8 DEF ProcessTransaction
      <4>2. runs'[t] = IF id[1] = t THEN runs[t] + 1 ELSE runs[t]
        BY <3>2, <3>8 DEF ProcessTransaction
      <4>3. InHold(t)' \subseteq InHold(t)
        BY <2>m, <3>1, <4>1
      <4> QED BY <1>w, <3>1, <3>4, <3>5, <4>1, <4>2, <4>3
              DEF TokensShrink, TokenLeavesCall, Goal
    <3> QED BY <2>6, <3>6, <3>7, <3>8
  <2> QED BY <1>2, <2>1, <2>2, <2>3, <2>4, <2>5, <2>6 DEF ThreadStep
<1>3. ASSUME NEW th \in Threads, OtherStep(th) PROVE Goal
  <2>0. \A other \in Threads : other # th => thread'[other] = thread[other]
    BY <1>0, <1>3, OthersAlone
  <2>1. ~(MoveFails(th) \/ Crash(th) \/ WorkerThrows(th))
    BY <1>0 DEF MoveFails, Crash, WorkerThrows
  <2>2. thread[th].pc = "idle" /\ hold' = hold /\ runs' = runs
    BY <1>3, <2>1 DEF OtherStep, Resume, Dispatch, WorkerTakes
  <2>3. InHold(t)' \subseteq InHold(t)
    BY <2>0, <2>2, MovingTokens
  <2>4. CASE Resume(th)
    <3>1. main' = main /\ dispatched' = dispatched
      BY <2>4 DEF Resume
    <3>2. thread'[th].pc = "relCheck"
      BY <1>0, <2>4, StartEffect DEF Starts, Becomes
    <3>3. InCall(t)' \subseteq InCall(t)
      BY <2>0, <3>2, CallTokens DEF CallPcs
    <3> QED BY <1>w, <2>2, <2>3, <3>1, <3>3 DEF TokensShrink, Goal
  <2>5. ASSUME NEW u \in Txns, Dispatch(th, u) PROVE Goal
    <3>1. main' = main /\ dispatched' = [dispatched EXCEPT ![u] = @ + 1]
      BY <2>5 DEF Dispatch
    <3>2. thread'[th].ids = {<<u, 0>>}
      BY <1>0, <2>5, StartEffect DEF Starts, Becomes
    <3>3. InCall(t)' \subseteq InCall(t) \cup {th}
      BY <2>0, CallTokens
    <3>4. u # t => InCall(t)' \subseteq InCall(t)
      BY <2>0, <3>2, CallTokens
    <3>5. dispatched'[t] = IF u = t THEN dispatched[t] + 1 ELSE dispatched[t]
      BY <1>0, <3>1
    <3> QED BY <1>w, <2>2, <2>3, <3>1, <3>3, <3>4, <3>5 DEF TokensShrink, TokenMade, Goal
  <2>6. ASSUME NEW id \in Ids, WorkerTakes(th, id) PROVE Goal
    <3>1. /\ main[id] = "waiting" /\ main' = [main EXCEPT ![id] = "active"]
          /\ dispatched' = dispatched
      BY <2>6 DEF WorkerTakes
    <3>2. thread'[th].ids = {id}
      BY <1>0, <2>6, StartEffect DEF Starts, Becomes
    <3>3. InCall(t)' \subseteq InCall(t) \cup {th}
      BY <2>0, CallTokens
    <3>4. id[1] # t => InCall(t)' \subseteq InCall(t)
      BY <2>0, <3>2, CallTokens
    <3>5. InWait(t)' \subseteq InWait(t) \ {id} /\ (id[1] = t => id \in InWait(t))
      BY <1>0, <3>1 DEF InWait
    <3> QED BY <2>2, <2>3, <3>1, <3>3, <3>4, <3>5 DEF TokensShrink, TokenTaken, Goal
  <2> QED BY <1>3, <2>1, <2>4, <2>5, <2>6 DEF OtherStep
<1>4. CASE QuietStep
  <2>1. UNCHANGED <<thread, main, hold, runs, dispatched>>
    BY <1>4 DEF QuietStep, Pause, LockExpires, vars
  <2> QED BY <2>1 DEF TokensShrink, Goal, InCall, InWait, InHold, Moving
<1> QED BY <1>2, <1>3, <1>4, StepKinds

-----------------------------------------------------------------------------
\* The theorems.

LEMMA InitInv == Init => IInv
<1> SUFFICES ASSUME Init PROVE IInv
  OBVIOUS
<1> USE DEF Init
<1>1. TypeInv
  <2>1. Idle \in ThreadType
    BY DEF Idle, ThreadType, Ops, Pcs
  <2>2. paused \in BOOLEAN /\ overtaken \in BOOLEAN
    BY Zenon
  <2>3. 0 \in 0..MaxCopies /\ 0 \in 0..MaxDispatch /\ 0 \in 0..MaxPauses /\ 0 \in 0..MaxFaults
    BY BoundsAssumption
  <2>4. ThreadsType /\ QueuesType
    BY <2>1, <2>3 DEF ThreadsType, QueuesType, MainStates
  <2>5. HistoryType
    BY <2>2, <2>3 DEF HistoryType
  <2> QED BY <2>4, <2>5 DEF TypeInv
<1>2. ShapeInv /\ LockInv /\ DrainInv /\ WorkInv /\ FreshInv
  BY DEF Idle, ShapeInv, ShapeOf, MovePcs, LockInv, DrainPcs, DrainInv, DrainOf,
     WorkInv, WorkOn, FreshInv, NotIn
<1>3. MoveInv /\ AliveInv
  BY DEF Idle, MoveInv, AliveInv, Started, Dispatching
<1>4. TokenInv
  <2> SUFFICES ASSUME NEW t \in Txns PROVE TokensOf(t)
    BY DEF TokenInv
  <2>1. InCall(t) = {} /\ InWait(t) = {} /\ InHold(t) = {}
    BY DEF InCall, InWait, InHold, Idle
  <2>2. IsFiniteSet({}) /\ Cardinality({}) = 0
    BY FS_EmptySet
  <2>3. runs[t] = 0 /\ dispatched[t] = 0
    OBVIOUS
  <2> QED BY <2>1, <2>2, <2>3 DEF TokensOf
<1> QED BY <1>1, <1>2, <1>3, <1>4 DEF IInv

LEMMA NextInv == IInv /\ [Next]_vars => IInv'
  BY TypeStep, ShapeStep, LockStep, DrainStep, WorkStep, FreshStep, MoveStep, AliveStep,
     TokenStep DEF IInv

LEMMA Invariance == Spec => []IInv
  BY InitInv, NextInv, PTL DEF Spec

\* TypeOK, for any number of concurrent dispatches, resumes and workers: in
\* whatever state moveToMain finds a job, releaseHeldJobs has a next step.
THEOREM TypeCorrect == Spec => []TypeOK
<1>1. IInv => TypeOK
  BY DEF IInv, TypeInv, ThreadsType, ThreadType, QueuesType, HistoryType, TypeOK
<1> QED BY <1>1, Invariance, PTL

\* KeptUnlessSwallowed, likewise: while no release lock expires under a drain,
\* an accepted job is waiting, held, running, failed or run, whatever pauses,
\* resumes, diverts and crashes did, unless BullMQ ignored a divert of it.
THEOREM NoAcceptedJobLost == Spec => []KeptUnlessSwallowed
<1>1. IInv => KeptUnlessSwallowed
  <2> SUFFICES ASSUME IInv, ~overtaken, NEW t \in accepted, t \notin swallowed
               PROVE  Kept(t)
    BY DEF KeptUnlessSwallowed
  <2>1. t \in Txns /\ Alive(t)
    BY DEF IInv, TypeInv, HistoryType, AliveInv, Started
  <2>2. \A id \in Ids : Undecided(id) => main[id] = "active"
    BY DEF IInv, WorkInv, Undecided
  <2> QED BY <2>1, <2>2 DEF Alive, InMain, Kept
<1> QED BY <1>1, Invariance, PTL

\* RunsAsDispatched, likewise: diverting, releasing and re-queueing under fresh
\* "-resumed-" ids never make two runs out of one dispatch.
THEOREM NeverMultiplied == Spec => []RunsAsDispatched
<1>1. IInv => RunsAsDispatched
  <2> SUFFICES ASSUME IInv, faults = 0, NEW t \in Txns PROVE runs[t] <= dispatched[t]
    BY DEF RunsAsDispatched
  <2>1. TokensOf(t) /\ runs[t] \in Nat /\ dispatched[t] \in Nat
    BY BoundsAssumption DEF IInv, TokenInv, TypeInv, HistoryType
  <2>2. /\ Cardinality(InCall(t)) \in Nat /\ Cardinality(InWait(t)) \in Nat
        /\ Cardinality(InHold(t)) \in Nat
    BY <2>1, FS_CardinalityType DEF TokensOf
  <2> QED BY <2>1, <2>2 DEF TokensOf
<1> QED BY <1>1, Invariance, PTL
=============================================================================
