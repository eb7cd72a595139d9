------------------------ MODULE ProviderQueueControl ------------------------
(***************************************************************************)
(* Pausing one provider of the shared transaction queue:                   *)
(* src/queue/providerQueueControl.ts, the dispatch path that consults it   *)
(* (dispatchTransactionJob in src/queue/transactionQueue.ts) and the       *)
(* worker entry that diverts jobs (handleTransactionJob in                 *)
(* src/queue/worker.ts).                                                   *)
(*                                                                         *)
(* While the provider is paused its jobs are parked in a hold queue with   *)
(* no worker; resuming moves them back.  Every await on Redis is a step:   *)
(* a thread of this model is one async call (a dispatch, an admin's resume *)
(* or a worker's run of one job), and any of the three may find itself     *)
(* inside releaseHeldJobs.  One provider; job ids are <<transaction, k>>,  *)
(* k = 0 for jobId = transactionId and k > 0 for the k-th                  *)
(* "-resumed-<time>" id made from it.                                      *)
(***************************************************************************)
EXTENDS Integers, FiniteSets

CONSTANTS
    Txns,         \* transactions of the provider
    Threads,      \* concurrent async calls
    NoThread,     \* the release lock's value when nobody holds it
    MaxCopies,    \* bound: fresh ids made for one transaction
    MaxDispatch,  \* bound: dispatches of one transaction (first + replays)
    MaxPauses,    \* bound: how often the admin pauses the provider
    MaxFaults     \* bound: lock expiries, failing Redis calls and crashes

ASSUME NoThreadAssumption == NoThread \notin Threads
ASSUME BoundsAssumption ==
    /\ MaxCopies \in Nat
    /\ MaxDispatch \in Nat
    /\ MaxPauses \in Nat
    /\ MaxFaults \in Nat

VARIABLES
    paused,      \* is the provider in PAUSED_PROVIDERS_KEY
    hold,        \* ids waiting in the hold queue
    main,        \* [Ids -> state of the job in the main queue]
    lock,        \* holder of the release lock
    thread,      \* [Threads -> progress of one async call]
    copies,      \* [Txns -> fresh ids made so far]
    dispatched,  \* [Txns -> dispatchTransactionJob calls started]
    accepted,    \* transactions for which a dispatch has returned
    runs,        \* [Txns -> jobs that got past divertIfPaused]
    swallowed,   \* transactions with a divert that BullMQ ignored
    overtaken,   \* TRUE once the lock expired under a release still draining
    pauses,      \* pauses so far
    faults       \* faults so far

vars == <<paused, hold, main, lock, thread, copies, dispatched, accepted, runs,
          swallowed, overtaken, pauses, faults>>

Ids == Txns \X (0..MaxCopies)
MainStates == {"none", "waiting", "active", "finished", "failed"}
Ops == {"none", "dispatch", "resume", "work"}
Pcs == {"idle", "check", "add", "park", "recheck",
        "relCheck", "lock", "drain", "inspect", "removeOld", "addMain",
        "addFresh", "unhold", "unlock", "again", "divert", "run", "finish"}

\* ids: the job of a dispatch or a worker; page: jobs the drain has read and not
\* begun to move; cur: the one it is moving.
Idle == [op |-> "none", pc |-> "idle", ids |-> {}, page |-> {}, cur |-> {}]

\* Goto moves a thread; Return leaves releaseHeldJobs (or hold) for whoever
\* called it: a worker still has to complete its job.
Goto(th, pc) == thread' = [thread EXCEPT ![th].pc = pc]
Return(th) ==
    thread' = [thread EXCEPT ![th] =
        IF @.op = "work"
        THEN [Idle EXCEPT !.op = "work", !.pc = "finish",
                         !.ids = thread[th].ids]
        ELSE Idle]

\* The transaction a dispatch or a worker is about.
AcceptIfDispatch(th) ==
    accepted' = IF thread[th].op = "dispatch"
                THEN accepted \cup {id[1] : id \in thread[th].ids}
                ELSE accepted

\* Queue.add with an id the main queue already has is ignored.
AddToMain(id) ==
    main' = [main EXCEPT ![id] = IF @ = "none" THEN "waiting" ELSE @]

-----------------------------------------------------------------------------
(* dispatchTransactionJob *)

Dispatch(th, t) ==
    /\ thread[th].pc = "idle"
    /\ dispatched[t] < MaxDispatch
    /\ dispatched' = [dispatched EXCEPT ![t] = @ + 1]
    /\ thread' = [thread EXCEPT ![th] = [Idle EXCEPT !.op = "dispatch",
                      !.pc = "check", !.ids = {<<t, 0>>}]]
    /\ UNCHANGED <<paused, hold, main, lock, copies, accepted, runs, swallowed,
                   overtaken, pauses, faults>>

CheckPaused(th) ==
    /\ thread[th].pc = "check"
    /\ Goto(th, IF paused THEN "park" ELSE "add")
    /\ UNCHANGED <<paused, hold, main, lock, copies, dispatched, accepted, runs,
                   swallowed, overtaken, pauses, faults>>

AddDirect(th) ==
    /\ thread[th].pc = "add"
    /\ \E id \in thread[th].ids : AddToMain(id)
    /\ AcceptIfDispatch(th)
    /\ thread' = [thread EXCEPT ![th] = Idle]
    /\ UNCHANGED <<paused, hold, lock, copies, dispatched, runs, swallowed,
                   overtaken, pauses, faults>>

-----------------------------------------------------------------------------
(* hold *)

\* The hold queue, too, ignores an id it has.  When it is a worker that parks
\* the job it is running, the ignored add is remembered in swallowed.
Park(th) ==
    /\ thread[th].pc = "park"
    /\ hold' = hold \cup thread[th].ids
    /\ swallowed' = IF thread[th].op = "work"
                    THEN swallowed \cup {id[1] : id \in thread[th].ids \cap hold}
                    ELSE swallowed
    /\ Goto(th, "recheck")
    /\ UNCHANGED <<paused, main, lock, copies, dispatched, accepted, runs,
                   overtaken, pauses, faults>>

\* Mutant: hold returns without looking at the flag again.
RecheckNever(th) ==
    /\ thread[th].pc = "recheck"
    /\ Return(th)
    /\ AcceptIfDispatch(th)
    /\ UNCHANGED <<paused, hold, main, lock, copies, dispatched, runs,
                   swallowed, overtaken, pauses, faults>>

\* "Close the race with a concurrent resume."
Recheck(th) ==
    /\ thread[th].pc = "recheck"
    /\ IF paused
       THEN Return(th) /\ AcceptIfDispatch(th)
       ELSE Goto(th, "relCheck") /\ UNCHANGED accepted
    /\ UNCHANGED <<paused, hold, main, lock, copies, dispatched, runs,
                   swallowed, overtaken, pauses, faults>>

-----------------------------------------------------------------------------
(* releaseHeldJobs and drainHoldQueue *)

ReleaseCheck(th) ==
    /\ thread[th].pc = "relCheck"
    /\ IF paused
       THEN Return(th) /\ AcceptIfDispatch(th)
       ELSE Goto(th, "lock") /\ UNCHANGED accepted
    /\ UNCHANGED <<paused, hold, main, lock, copies, dispatched, runs,
                   swallowed, overtaken, pauses, faults>>

AcquireLock(th) ==
    /\ thread[th].pc = "lock"
    /\ IF lock = NoThread
       THEN lock' = th /\ Goto(th, "drain") /\ UNCHANGED accepted
       ELSE Return(th) /\ AcceptIfDispatch(th) /\ UNCHANGED lock
    /\ UNCHANGED <<paused, hold, main, copies, dispatched, runs, swallowed,
                   overtaken, pauses, faults>>

\* One turn of the page loop: the flag is read again, then a page of jobs.
DrainPage(th) ==
    /\ thread[th].pc = "drain"
    /\ IF paused \/ hold = {}
       THEN Goto(th, "unlock")
       ELSE thread' = [thread EXCEPT ![th].pc = "inspect", ![th].page = hold]
    /\ UNCHANGED <<paused, hold, main, lock, copies, dispatched, accepted, runs,
                   swallowed, overtaken, pauses, faults>>

\* Mutants of moveToMain: a finished job has no case; any known job counts as
\* moved.
AfterInspectUnhandled(state) ==
    CASE state = "waiting" -> "unhold"
      [] state = "none" -> "addMain"
      [] state = "active" -> "addFresh"
      [] OTHER -> "unhandled"

AfterInspectKnown(state) == IF state = "none" THEN "addMain" ELSE "unhold"

\* moveToMain: getJob and getState of the page's next job.
AfterInspect(state) ==
    CASE state = "waiting" -> "unhold"
      [] state = "none" -> "addMain"
      [] state = "active" -> "addFresh"
      [] OTHER -> "removeOld"

InspectMain(th, id) ==
    /\ thread[th].pc = "inspect"
    /\ id \in thread[th].page
    /\ thread' = [thread EXCEPT ![th].pc = AfterInspect(main[id]),
                                ![th].page = @ \ {id}, ![th].cur = {id}]
    /\ UNCHANGED <<paused, hold, main, lock, copies, dispatched, accepted, runs,
                   swallowed, overtaken, pauses, faults>>

\* existing.remove(): it fails when the job is active by now, and an error of
\* Redis, with the job removed or not, counts as that.
RemoveOld(th) ==
    /\ thread[th].pc = "removeOld"
    /\ \E id \in thread[th].cur :
          \/ /\ main[id] = "active"
             /\ Goto(th, "addFresh")
             /\ UNCHANGED <<main, faults>>
          \/ /\ main[id] # "active"
             /\ main' = [main EXCEPT ![id] = "none"]
             /\ Goto(th, "addMain")
             /\ UNCHANGED faults
          \/ /\ faults < MaxFaults
             /\ faults' = faults + 1
             /\ \/ UNCHANGED main
                \/ /\ main[id] # "active"
                   /\ main' = [main EXCEPT ![id] = "none"]
             /\ Goto(th, "addFresh")
    /\ UNCHANGED <<paused, hold, lock, copies, dispatched, accepted, runs,
                   swallowed, overtaken, pauses>>

AddBack(th) ==
    /\ thread[th].pc = "addMain"
    /\ \E id \in thread[th].cur : AddToMain(id)
    /\ Goto(th, "unhold")
    /\ UNCHANGED <<paused, hold, lock, copies, dispatched, accepted, runs,
                   swallowed, overtaken, pauses, faults>>

AddFresh(th) ==
    /\ thread[th].pc = "addFresh"
    /\ \E id \in thread[th].cur :
          /\ copies[id[1]] < MaxCopies
          /\ copies' = [copies EXCEPT ![id[1]] = @ + 1]
          /\ AddToMain(<<id[1], copies[id[1]] + 1>>)
    /\ Goto(th, "unhold")
    /\ UNCHANGED <<paused, hold, lock, dispatched, accepted, runs, swallowed,
                   overtaken, pauses, faults>>

\* Mutant: the moved job is not removed from the hold queue.
UnholdKeeps(th) ==
    /\ thread[th].pc = "unhold"
    /\ thread' = [thread EXCEPT
          ![th].pc = IF thread[th].page = {} THEN "drain" ELSE "inspect",
          ![th].cur = {}]
    /\ UNCHANGED <<paused, hold, main, lock, copies, dispatched, accepted, runs,
                   swallowed, overtaken, pauses, faults>>

\* job.remove() on the held job; then the page's next job, or another page.
Unhold(th) ==
    /\ thread[th].pc = "unhold"
    /\ hold' = hold \ thread[th].cur
    /\ thread' = [thread EXCEPT
          ![th].pc = IF thread[th].page = {} THEN "drain" ELSE "inspect",
          ![th].cur = {}]
    /\ UNCHANGED <<paused, main, lock, copies, dispatched, accepted, runs,
                   swallowed, overtaken, pauses, faults>>

\* RELEASE_IF_OWNER
ReleaseLock(th) ==
    /\ thread[th].pc = "unlock"
    /\ lock' = IF lock = th THEN NoThread ELSE lock
    /\ Goto(th, "again")
    /\ UNCHANGED <<paused, hold, main, copies, dispatched, accepted, runs,
                   swallowed, overtaken, pauses, faults>>

\* Look at the flag and the hold queue once more after unlocking.
LookAgain(th) ==
    /\ thread[th].pc = "again"
    /\ IF paused \/ hold = {}
       THEN Return(th) /\ AcceptIfDispatch(th)
       ELSE Goto(th, "relCheck") /\ UNCHANGED accepted
    /\ UNCHANGED <<paused, hold, main, lock, copies, dispatched, runs,
                   swallowed, overtaken, pauses, faults>>

-----------------------------------------------------------------------------
(* pause, resume, and the worker *)

Pause ==
    /\ ~paused
    /\ pauses < MaxPauses
    /\ pauses' = pauses + 1
    /\ paused' = TRUE
    /\ UNCHANGED <<hold, main, lock, thread, copies, dispatched, accepted, runs,
                   swallowed, overtaken, faults>>

\* Releases even when the flag was already clear.
Resume(th) ==
    /\ thread[th].pc = "idle"
    /\ paused \/ hold # {}
    /\ paused' = FALSE
    /\ thread' = [thread EXCEPT ![th] = [Idle EXCEPT !.op = "resume",
                                                     !.pc = "relCheck"]]
    /\ UNCHANGED <<hold, main, lock, copies, dispatched, accepted, runs,
                   swallowed, overtaken, pauses, faults>>

WorkerTakes(th, id) ==
    /\ thread[th].pc = "idle"
    /\ main[id] = "waiting"
    /\ main' = [main EXCEPT ![id] = "active"]
    /\ thread' = [thread EXCEPT ![th] = [Idle EXCEPT !.op = "work",
                                             !.pc = "divert", !.ids = {id}]]
    /\ UNCHANGED <<paused, hold, lock, copies, dispatched, accepted, runs,
                   swallowed, overtaken, pauses, faults>>

DivertIfPaused(th) ==
    /\ thread[th].pc = "divert"
    /\ Goto(th, IF paused THEN "park" ELSE "run")
    /\ UNCHANGED <<paused, hold, main, lock, copies, dispatched, accepted, runs,
                   swallowed, overtaken, pauses, faults>>

\* processTransaction; what it does is the business of TransactionWorker.
ProcessTransaction(th) ==
    /\ thread[th].pc = "run"
    /\ runs' = [t \in Txns |->
                  IF \E id \in thread[th].ids : id[1] = t THEN runs[t] + 1
                  ELSE runs[t]]
    /\ Goto(th, "finish")
    /\ UNCHANGED <<paused, hold, main, lock, copies, dispatched, accepted,
                   swallowed, overtaken, pauses, faults>>

\* The processor returned: BullMQ records the job as completed, also when the
\* result is { success: false, error: "provider_paused" }.
WorkerFinishes(th) ==
    /\ thread[th].pc = "finish"
    /\ main' = [id \in Ids |->
                  IF id \in thread[th].ids THEN "finished" ELSE main[id]]
    /\ thread' = [thread EXCEPT ![th] = Idle]
    /\ UNCHANGED <<paused, hold, lock, copies, dispatched, accepted, runs,
                   swallowed, overtaken, pauses, faults>>

-----------------------------------------------------------------------------
(* Faults *)

DrainPcs == {"drain", "inspect", "removeOld", "addMain", "addFresh", "unhold"}

\* RELEASE_LOCK_TTL_MS passes, perhaps while the holder still drains.
LockExpires ==
    /\ lock # NoThread
    /\ faults < MaxFaults
    /\ faults' = faults + 1
    /\ lock' = NoThread
    /\ overtaken' = (overtaken \/ thread[lock].pc \in DrainPcs)
    /\ UNCHANGED <<paused, hold, main, thread, copies, dispatched, accepted,
                   runs, swallowed, pauses>>

\* moveToMain or job.remove throws: logged, the job stays held, and the drain
\* returns; its caller looks again and finds the same job waiting.
MoveFails(th) ==
    /\ thread[th].pc \in {"inspect", "addMain", "addFresh", "unhold"}
    /\ faults < MaxFaults
    /\ faults' = faults + 1
    /\ thread' = [thread EXCEPT ![th].pc = "unlock", ![th].page = {},
                                ![th].cur = {}]
    /\ UNCHANGED <<paused, hold, main, lock, copies, dispatched, accepted, runs,
                   swallowed, overtaken, pauses>>

\* The process dies.  Its lock outlives it until the TTL; BullMQ hands the
\* stalled job of a worker to another one.
Crash(th) ==
    /\ thread[th].pc # "idle"
    /\ faults < MaxFaults
    /\ faults' = faults + 1
    /\ main' = [id \in Ids |->
                  IF thread[th].op = "work" /\ id \in thread[th].ids
                  THEN "waiting" ELSE main[id]]
    /\ thread' = [thread EXCEPT ![th] = Idle]
    /\ UNCHANGED <<paused, hold, lock, copies, dispatched, accepted, runs,
                   swallowed, overtaken, pauses>>

\* A Redis call throws out of the worker's processor: the job fails, and with
\* attempts = 1 it stays in the failed set.  Drain's finally clause gives the
\* lock back.
WorkerThrows(th) ==
    /\ thread[th].op = "work"
    /\ thread[th].pc \in {"divert", "park", "recheck", "relCheck", "lock",
                          "drain", "again"}
    /\ faults < MaxFaults
    /\ faults' = faults + 1
    /\ main' = [id \in Ids |->
                  IF id \in thread[th].ids THEN "failed" ELSE main[id]]
    /\ lock' = IF lock = th THEN NoThread ELSE lock
    /\ thread' = [thread EXCEPT ![th] = Idle]
    /\ UNCHANGED <<paused, hold, copies, dispatched, accepted, runs, swallowed,
                   overtaken, pauses>>

-----------------------------------------------------------------------------
Init ==
    /\ paused = FALSE
    /\ hold = {}
    /\ main = [id \in Ids |-> "none"]
    /\ lock = NoThread
    /\ thread = [th \in Threads |-> Idle]
    /\ copies = [t \in Txns |-> 0]
    /\ dispatched = [t \in Txns |-> 0]
    /\ accepted = {}
    /\ runs = [t \in Txns |-> 0]
    /\ swallowed = {}
    /\ overtaken = FALSE
    /\ pauses = 0
    /\ faults = 0

\* Steps that a started call takes by itself.
ThreadStep(th) ==
    \/ CheckPaused(th)
    \/ AddDirect(th)
    \/ Park(th)
    \/ Recheck(th)
    \/ ReleaseCheck(th)
    \/ AcquireLock(th)
    \/ DrainPage(th)
    \/ \E id \in Ids : InspectMain(th, id)
    \/ RemoveOld(th)
    \/ AddBack(th)
    \/ AddFresh(th)
    \/ Unhold(th)
    \/ ReleaseLock(th)
    \/ LookAgain(th)
    \/ DivertIfPaused(th)
    \/ ProcessTransaction(th)
    \/ WorkerFinishes(th)

Next ==
    \/ \E th \in Threads :
          \/ ThreadStep(th)
          \/ \E t \in Txns : Dispatch(th, t)
          \/ \E id \in Ids : WorkerTakes(th, id)
          \/ Resume(th)
          \/ MoveFails(th)
          \/ Crash(th)
          \/ WorkerThrows(th)
    \/ Pause
    \/ LockExpires

Spec == Init /\ [][Next]_vars

\* Every started call runs on; nobody promises that an admin resumes.
FairSpec == Spec /\ \A th \in Threads : WF_vars(ThreadStep(th))

-----------------------------------------------------------------------------
(* Properties *)

\* Every variable stays in its range; in particular whatever state moveToMain
\* finds a job in, the release has a next step for it.
TypeOK ==
    /\ paused \in BOOLEAN
    /\ hold \in SUBSET Ids
    /\ main \in [Ids -> MainStates]
    /\ lock \in Threads \cup {NoThread}
    /\ thread \in [Threads -> [op : Ops, pc : Pcs, ids : SUBSET Ids,
                               page : SUBSET Ids, cur : SUBSET Ids]]
    /\ copies \in [Txns -> 0..MaxCopies]
    /\ dispatched \in [Txns -> 0..MaxDispatch]
    /\ accepted \in SUBSET Txns
    /\ runs \in [Txns -> Nat]
    /\ swallowed \in SUBSET Txns
    /\ overtaken \in BOOLEAN
    /\ pauses \in 0..MaxPauses
    /\ faults \in 0..MaxFaults

\* Somewhere there is still a job of t, a release is about to add it, or one has
\* run or visibly failed.
Kept(t) ==
    \/ runs[t] > 0
    \/ \E th \in Threads : /\ thread[th].pc \in {"addMain", "addFresh"}
                           /\ \E id \in thread[th].cur : id[1] = t
    \/ \E id \in Ids : /\ id[1] = t
                       /\ \/ id \in hold
                          \/ main[id] \in {"waiting", "active", "failed"}

\* While the release lock keeps drains apart, no order of pauses, resumes,
\* diverts, crashes and failing calls loses an accepted job, unless BullMQ
\* ignored a divert because the release had not yet removed the job from the
\* hold queue.
KeptUnlessSwallowed ==
    ~overtaken => \A t \in accepted : Kept(t) \/ t \in swallowed

\* Diverting, resuming and re-queueing under fresh ids never multiply a job:
\* without faults it runs at most as often as it was dispatched.
RunsAsDispatched == faults = 0 => \A t \in Txns : runs[t] <= dispatched[t]

\* Without faults nothing stays parked for a provider that is not paused: the
\* resume, the lock's loser and the lock's holder leave no gap between them.
HoldDrains == (~paused /\ hold # {}) ~> (paused \/ hold = {})
=============================================================================
