-------------------------- MODULE IdempotentRequest --------------------------
(***************************************************************************)
(* Requests for POST /transactions/deposit and /withdraw sent under one    *)
(* Idempotency-Key: strictIdempotency of src/middleware/idempotency.ts     *)
(* around createOrReuse of src/controllers/transactionController.ts, with  *)
(* the locks of src/utils/lock.ts and the timeouts of                      *)
(* src/middleware/timeout.ts.                                              *)
(*                                                                         *)
(* A retry of the client is another request.  The middleware's cache and   *)
(* lock belong to a scope, which is the user, method and path together     *)
(* with the key; the handler looks the bare key up, whoever sent it.       *)
(* Every await is a step boundary.  A row is named by the request that inserted it.  Time is     *)
(* reduced to the order in which locks expire and timeouts fire; the cache *)
(* entry and the key of a row both last 24 hours, and the model stays      *)
(* inside that window.  The server runs Express 4, which does not catch    *)
(* the rejection of an async handler: a handler that throws answers        *)
(* nothing, and the client hears of it from the request timeout.           *)
(***************************************************************************)
EXTENDS Integers, Sequences, FiniteSets

CONSTANTS
    Requests,   \* requests that carry the key, retries included
    Payloads,   \* what can be asked for: a body, and by whom and where it is sent
    Scopes,     \* users, methods and paths that buildCacheKey tells apart
    ScopeOf,    \* [Payloads -> Scopes]
    Phones,     \* phone numbers
    PhoneOf,    \* [Payloads -> Phones]
    Cases,      \* what the requests of a behaviour may ask for
    Nobody,     \* the owner of a free lock, the content of an empty cache
    MaxFaults   \* bound: crashes, disconnects, outages, overruns, stale reads

Refusals == {"error", "conflict", "reuse", "gone"}

ASSUME PhoneAssumption == PhoneOf \in [Payloads -> Phones]
ASSUME ScopeAssumption == ScopeOf \in [Payloads -> Scopes]
ASSUME CasesAssumption == Cases \subseteq [Requests -> Payloads]
ASSUME NamesAssumption ==
    /\ Nobody \notin Requests
    /\ Requests \cap ({"none", "release"} \cup Refusals) = {}
    /\ Nobody \notin [payload : Payloads, answer : Requests \cup Refusals]
ASSUME MaxFaultsAssumption == MaxFaults \in Nat

VARIABLES
    payload,   \* [Requests -> Payloads], what each request asks for
    pc,        \* [Requests -> where the middleware or the handler is]
    guarded,   \* requests whose response methods are wrapped by persist
    finished,  \* guarded requests whose `finished` flag is set
    after,     \* [Requests -> the Redis work persist or releaseLock left running]
    result,    \* [Requests -> what createOrReuse returned or threw so far]
    reply,     \* [Requests -> what the client got]
    cache,     \* [Scopes -> cached response: Nobody, or payload and answer]
    mwLock,    \* [Scopes -> owner of the middleware's lock]
    keyLock,   \* owner of the controller's lock on the key
    phoneLock, \* [Phones -> owner]
    rows,      \* rows of the transactions table that carry the key, oldest first
    redis,     \* whether Redis can be reached: "up" or "down"
    missed,    \* what failed: locks that ran out under an owner, stale reads, Redis
    faults     \* faults that have happened, against MaxFaults

locks == <<mwLock, keyLock, phoneLock>>
vars == <<payload, pc, guarded, finished, after, result, reply, cache, locks,
          rows, redis, missed, faults>>

Pcs == {"lookup", "lock", "recheck", "checks", "find", "phoneLock",
        "findAgain", "create", "unlockPhone", "unlockKey", "done", "threw", "dead"}
Answers == Requests \cup {"none"} \cup Refusals
Owners == Requests \cup {Nobody}

\* Record types, and the ranges of the variables.
TypeOK ==
    /\ payload \in [Requests -> Payloads]
    /\ pc \in [Requests -> Pcs]
    /\ guarded \subseteq Requests
    /\ finished \subseteq guarded
    /\ after \in [Requests -> Answers \cup {"release"}]
    /\ result \in [Requests -> Answers]
    /\ reply \in [Requests -> Answers]
    /\ cache \in [Scopes -> {Nobody} \cup [payload : Payloads, answer : Answers]]
    /\ mwLock \in [Scopes -> Owners] /\ keyLock \in Owners
    /\ phoneLock \in [Phones -> Owners]
    /\ rows \in Seq(Requests)
    /\ redis \in {"up", "down"}
    /\ missed \subseteq {"mw", "key", "phone", "stale", "redis"}
    /\ faults \in 0..MaxFaults

----------------------------------------------------------------------------
\* Where a request is.

Phone(r) == PhoneOf[payload[r]]
Scope(r) == ScopeOf[payload[r]]

\* What the middleware of a request's scope has cached, and who has its lock.
Cached(r) == cache[Scope(r)]
MwLock(r) == mwLock[Scope(r)]

Up == redis = "up"

\* The handler is inside withLock(idempotency key), inside withLock(phone).
InKeySection(r) == pc[r] \in {"find", "phoneLock", "findAgain", "create",
                              "unlockPhone", "unlockKey"}
InPhoneSection(r) == pc[r] \in {"findAgain", "create", "unlockPhone"}

\* The handler will not run again; nothing at all is left to happen.
Over(r) == pc[r] \in {"done", "threw", "dead"}
Ended(r) == Over(r) /\ reply[r] # "none" /\ after[r] = "none"

Underway(r) == pc[r] \notin {"lookup", "dead"}

Fault == faults < MaxFaults /\ faults' = faults + 1

Goto(r, l) == pc' = [pc EXCEPT ![r] = l]

----------------------------------------------------------------------------
\* Answers.

\* The client gets the answer unless it left or has one already (a second
\* res.json of the same response throws ERR_HTTP_HEADERS_SENT).
Tell(r, a) ==
    reply' = [reply EXCEPT ![r] = IF @ = "none" THEN a ELSE @]

\* persist: the first response of a wrapped request is saved in the background.
Persist(r, a) ==
    IF r \in guarded \ finished
    THEN /\ finished' = finished \cup {r}
         /\ after' = [after EXCEPT ![r] = a]
    ELSE UNCHANGED <<finished, after>>

\* replayIfCached found an entry: 422 for another fingerprint, else a replay.
CachedAnswer(r) ==
    IF Cached(r).payload # payload[r] THEN "reuse" ELSE Cached(r).answer

----------------------------------------------------------------------------
\* strictIdempotency.  A Redis error anywhere lets the request through without
\* the guard.

Lookup(r) ==
    /\ pc[r] = "lookup"
    /\ IF Up /\ Cached(r) # Nobody
       THEN Goto(r, "done") /\ Tell(r, CachedAnswer(r))
       ELSE Goto(r, IF Up THEN "lock" ELSE "checks") /\ UNCHANGED reply
    /\ UNCHANGED <<payload, guarded, finished, after, result, cache, locks,
                   rows, redis, missed, faults>>

Lock(r) ==
    /\ pc[r] = "lock"
    /\ \/ /\ ~Up
          /\ Goto(r, "checks")
          /\ UNCHANGED <<mwLock, reply>>
       \/ /\ Up /\ MwLock(r) = Nobody
          /\ mwLock' = [mwLock EXCEPT ![Scope(r)] = r]
          /\ Goto(r, "recheck")
          /\ UNCHANGED reply
       \/ /\ Up /\ MwLock(r) # Nobody
          /\ Goto(r, "done")
          /\ Tell(r, "conflict")
          /\ UNCHANGED mwLock
    /\ UNCHANGED <<payload, guarded, finished, after, result, cache, keyLock,
                   phoneLock, rows, redis, missed, faults>>

\* A release that finds the lock gone, or Redis gone, changes nothing.
Freed(owner, r) == IF Up /\ owner = r THEN Nobody ELSE owner

FreeMwLock(r) == mwLock' = [mwLock EXCEPT ![Scope(r)] = Freed(@, r)]

\* Mutant: the lock is taken and the cache is not read again.
RecheckSkipped(r) ==
    /\ pc[r] = "recheck"
    /\ Goto(r, "checks")
    /\ guarded' = guarded \cup {r}
    /\ UNCHANGED <<payload, finished, after, result, reply, cache, locks, rows,
                   redis, missed, faults>>

Recheck(r) ==
    /\ pc[r] = "recheck"
    /\ \/ /\ Up /\ Cached(r) = Nobody
          /\ Goto(r, "checks")
          /\ guarded' = guarded \cup {r}
          /\ UNCHANGED <<reply, mwLock>>
       \/ /\ Up /\ Cached(r) # Nobody
          /\ Goto(r, "done")
          /\ Tell(r, CachedAnswer(r))
          /\ FreeMwLock(r)
          /\ UNCHANGED guarded
       \/ /\ ~Up
          /\ Goto(r, "checks")
          /\ UNCHANGED <<guarded, reply, mwLock>>
    /\ UNCHANGED <<payload, finished, after, result, cache, keyLock, phoneLock,
                   rows, redis, missed, faults>>

\* The background part of persist: SET, then the release.
Save(r) ==
    /\ after[r] \in Answers \ {"none"}
    /\ cache' = IF Up
                THEN [cache EXCEPT ![Scope(r)] =
                        [payload |-> payload[r], answer |-> after[r]]]
                ELSE cache
    /\ after' = [after EXCEPT ![r] = "release"]
    /\ UNCHANGED <<payload, pc, guarded, finished, result, reply, locks, rows,
                   redis, missed, faults>>

Release(r) ==
    /\ after[r] = "release"
    /\ FreeMwLock(r)
    /\ after' = [after EXCEPT ![r] = "none"]
    /\ UNCHANGED <<payload, pc, guarded, finished, result, reply, cache,
                   keyLock, phoneLock, rows, redis, missed, faults>>

----------------------------------------------------------------------------
\* The handler: checks, then createOrReuse under the key's lock.

\* Limits, 2FA and the trustline stop the request: answered inline, or thrown.  The
\* throw also stands for haltOnTimedout, which drops a request timed out before.
FailChecks(r) ==
    /\ pc[r] = "checks"
    /\ \/ Goto(r, "threw") /\ UNCHANGED <<reply, finished, after>>
       \/ Goto(r, "done") /\ Tell(r, "error") /\ Persist(r, "error")
    /\ UNCHANGED <<payload, guarded, result, cache, locks, rows, redis, missed,
                   faults>>

\* Mutant: the section runs whether or not the lock was had.
KeyLockIgnored(r) ==
    /\ pc[r] = "checks"
    /\ keyLock' = IF Up /\ keyLock = Nobody THEN r ELSE keyLock
    /\ Goto(r, "find")
    /\ UNCHANGED <<payload, guarded, finished, after, result, reply, cache,
                   mwLock, phoneLock, rows, redis, missed, faults>>

\* withLock(LockKeys.idempotency(key)): a lock that cannot be had throws.
KeyLock(r) ==
    /\ pc[r] = "checks"
    /\ \/ /\ Up /\ keyLock = Nobody
          /\ keyLock' = r
          /\ Goto(r, "find")
       \/ /\ ~Up \/ keyLock # Nobody
          /\ Goto(r, "threw")
          /\ UNCHANGED keyLock
    /\ UNCHANGED <<payload, guarded, finished, after, result, reply, cache,
                   mwLock, phoneLock, rows, redis, missed, faults>>

\* findExistingIdempotentTransaction reads through queryRead: the newest row
\* of the key, or what a replica that is behind shows of them.
FindRow(r, found, absent) ==
    \E n \in 0..Len(rows) :
       /\ IF n = Len(rows)
          THEN UNCHANGED <<missed, faults>>
          ELSE Fault /\ missed' = missed \cup {"stale"}
       /\ IF n > 0
          THEN result' = [result EXCEPT ![r] = rows[n]] /\ Goto(r, found)
          ELSE Goto(r, absent) /\ UNCHANGED result

Find(r) ==
    /\ pc[r] = "find"
    /\ FindRow(r, "unlockKey", "phoneLock")
    /\ UNCHANGED <<payload, guarded, finished, after, reply, cache, locks, rows,
                   redis>>

PhoneLock(r) ==
    /\ pc[r] = "phoneLock"
    /\ \/ /\ Up /\ phoneLock[Phone(r)] = Nobody
          /\ phoneLock' = [phoneLock EXCEPT ![Phone(r)] = r]
          /\ Goto(r, "findAgain")
          /\ UNCHANGED result
       \/ /\ ~Up \/ phoneLock[Phone(r)] # Nobody
          /\ result' = [result EXCEPT ![r] = "error"]
          /\ Goto(r, "unlockKey")
          /\ UNCHANGED phoneLock
    /\ UNCHANGED <<payload, guarded, finished, after, reply, cache, mwLock,
                   keyLock, rows, redis, missed, faults>>

\* Mutant: the row is looked for once, before the phone lock.
FindAgainSkipped(r) ==
    /\ pc[r] = "findAgain"
    /\ Goto(r, "create")
    /\ UNCHANGED <<payload, guarded, finished, after, result, reply, cache,
                   locks, rows, redis, missed, faults>>

FindAgain(r) ==
    /\ pc[r] = "findAgain"
    /\ FindRow(r, "unlockPhone", "create")
    /\ UNCHANGED <<payload, guarded, finished, after, reply, cache, locks, rows,
                   redis>>

\* transactionModel.create and the steps up to addTransactionJob.  The INSERT
\* itself may fail; what follows it may throw and leave the row behind.  No
\* unique index covers idempotency_key since the table was partitioned.
Create(r) ==
    /\ pc[r] = "create"
    /\ Goto(r, "unlockPhone")
    /\ \/ /\ rows' = Append(rows, r)
          /\ \E a \in {r, "error"} : result' = [result EXCEPT ![r] = a]
       \/ /\ result' = [result EXCEPT ![r] = "error"]
          /\ UNCHANGED rows
    /\ UNCHANGED <<payload, guarded, finished, after, reply, cache, locks,
                   redis, missed, faults>>

\* The finally of withLock: releasing a lock that has expired throws.
Unlocked(owner, r) == IF Up /\ owner = r THEN result[r] ELSE "error"

UnlockPhone(r) ==
    /\ pc[r] = "unlockPhone"
    /\ phoneLock' = [phoneLock EXCEPT ![Phone(r)] = Freed(@, r)]
    /\ result' = [result EXCEPT ![r] = Unlocked(phoneLock[Phone(r)], r)]
    /\ Goto(r, "unlockKey")
    /\ UNCHANGED <<payload, guarded, finished, after, reply, cache, mwLock,
                   keyLock, rows, redis, missed, faults>>

\* Mutant: the key's lock is released after a success only.
UnlockKeyOnSuccess(r) ==
    LET answer == Unlocked(keyLock, r) IN
    /\ pc[r] = "unlockKey"
    /\ IF answer = "error"
       THEN Goto(r, "threw") /\ UNCHANGED <<keyLock, reply, finished, after>>
       ELSE /\ keyLock' = Freed(keyLock, r)
            /\ Goto(r, "done") /\ Tell(r, answer) /\ Persist(r, answer)
    /\ result' = [result EXCEPT ![r] = "none"]
    /\ UNCHANGED <<payload, guarded, cache, mwLock, phoneLock, rows, redis,
                   missed, faults>>

\* The end of the handler: res.status(200).json(result), or the throw.
UnlockKey(r) ==
    LET answer == Unlocked(keyLock, r) IN
    /\ pc[r] = "unlockKey"
    /\ keyLock' = Freed(keyLock, r)
    /\ IF answer = "error"
       THEN Goto(r, "threw") /\ UNCHANGED <<reply, finished, after>>
       ELSE Goto(r, "done") /\ Tell(r, answer) /\ Persist(r, answer)
    /\ result' = [result EXCEPT ![r] = "none"]
    /\ UNCHANGED <<payload, guarded, cache, mwLock, phoneLock, rows, redis,
                   missed, faults>>

----------------------------------------------------------------------------
\* Mutant: the timeout is cleared when the handler throws.
TimeoutWhileRunning(r) ==
    /\ Underway(r) /\ ~Over(r) /\ reply[r] = "none"
    /\ Tell(r, "error")
    /\ Persist(r, "error")
    /\ UNCHANGED <<payload, pc, guarded, result, cache, locks, rows, redis,
                   missed, faults>>

\* The request timeout answers 503 through the error handler, whose res.json
\* is the wrapped one; the handler is not stopped.
Timeout(r) ==
    /\ Underway(r) /\ reply[r] = "none"
    /\ Tell(r, "error")
    /\ Persist(r, "error")
    /\ UNCHANGED <<payload, pc, guarded, result, cache, locks, rows, redis, missed, faults>>

\* Mutant: the listener releases the lock and leaves `finished` unset.
DisconnectUnmarked(r) ==
    /\ Fault
    /\ Underway(r) /\ reply[r] = "none"
    /\ Tell(r, "gone")
    /\ after' = [after EXCEPT ![r] = IF r \in guarded \ finished THEN "release" ELSE @]
    /\ UNCHANGED <<payload, pc, guarded, finished, result, cache, locks, rows,
                   redis, missed>>

\* The connection closes before an answer: releaseLock, and nothing is cached.
Disconnect(r) ==
    /\ Fault
    /\ Underway(r) /\ reply[r] = "none"
    /\ Tell(r, "gone")
    /\ IF r \in guarded \ finished
       THEN /\ finished' = finished \cup {r}
            /\ after' = [after EXCEPT ![r] = "release"]
       ELSE UNCHANGED <<finished, after>>
    /\ UNCHANGED <<payload, pc, guarded, result, cache, locks, rows, redis, missed>>

\* The process that serves the request dies; its locks stay until they expire.
Crash(r) ==
    /\ Fault
    /\ Underway(r) /\ ~Ended(r)
    /\ Goto(r, "dead")
    /\ Tell(r, "gone")
    /\ after' = [after EXCEPT ![r] = "none"]
    /\ UNCHANGED <<payload, guarded, finished, result, cache, locks, rows,
                   redis, missed>>

\* A lock's time to live passes.  Under an owner that still works it is a
\* missed time limit, under one that is gone it is the recovery.
RunsOut(lock, owner, working) ==
    /\ owner # Nobody
    /\ IF working
       THEN Fault /\ missed' = missed \cup {lock}
       ELSE UNCHANGED <<missed, faults>>

ExpireMw(s) ==
    /\ RunsOut("mw", mwLock[s], mwLock[s] # Nobody /\ ~Ended(mwLock[s]))
    /\ mwLock' = [mwLock EXCEPT ![s] = Nobody]
    /\ UNCHANGED <<payload, pc, guarded, finished, after, result, reply, cache,
                   keyLock, phoneLock, rows, redis>>

ExpireKey ==
    /\ RunsOut("key", keyLock, keyLock # Nobody /\ InKeySection(keyLock))
    /\ keyLock' = Nobody
    /\ UNCHANGED <<payload, pc, guarded, finished, after, result, reply, cache,
                   mwLock, phoneLock, rows, redis>>

ExpirePhone(p) ==
    /\ RunsOut("phone", phoneLock[p],
               phoneLock[p] # Nobody /\ InPhoneSection(phoneLock[p]))
    /\ phoneLock' = [phoneLock EXCEPT ![p] = Nobody]
    /\ UNCHANGED <<payload, pc, guarded, finished, after, result, reply, cache,
                   mwLock, keyLock, rows, redis>>

RedisDown ==
    /\ Fault
    /\ Up
    /\ redis' = "down"
    /\ missed' = missed \cup {"redis"}
    /\ UNCHANGED <<payload, pc, guarded, finished, after, result, reply, cache,
                   locks, rows>>

RedisUp ==
    /\ ~Up
    /\ redis' = "up"
    /\ UNCHANGED <<payload, pc, guarded, finished, after, result, reply, cache,
                   locks, rows, missed, faults>>

----------------------------------------------------------------------------
Init ==
    /\ payload \in Cases
    /\ pc = [r \in Requests |-> "lookup"]
    /\ guarded = {} /\ finished = {}
    /\ after = [r \in Requests |-> "none"]
    /\ result = [r \in Requests |-> "none"]
    /\ reply = [r \in Requests |-> "none"]
    /\ cache = [s \in Scopes |-> Nobody]
    /\ mwLock = [s \in Scopes |-> Nobody] /\ keyLock = Nobody
    /\ phoneLock = [p \in Phones |-> Nobody]
    /\ rows = <<>>
    /\ redis = "up"
    /\ missed = {}
    /\ faults = 0

\* What the event loop of a live process runs by itself.
Step(r) ==
    \/ Lookup(r) \/ Lock(r) \/ Recheck(r) \/ Save(r) \/ Release(r)
    \/ FailChecks(r) \/ KeyLock(r) \/ Find(r) \/ PhoneLock(r) \/ FindAgain(r)
    \/ Create(r) \/ UnlockPhone(r) \/ UnlockKey(r)

Expiry ==
    \/ \E s \in Scopes : ExpireMw(s)
    \/ ExpireKey
    \/ \E p \in Phones : ExpirePhone(p)

Next ==
    \/ \E r \in Requests : Step(r) \/ Timeout(r) \/ Disconnect(r) \/ Crash(r)
    \/ Expiry \/ RedisDown \/ RedisUp

Spec == Init /\ [][Next]_vars

\* Live processes run, timers fire and locks expire.
Fairness ==
    /\ \A r \in Requests : WF_vars(Step(r)) /\ WF_vars(Timeout(r))
    /\ \A s \in Scopes : WF_vars(ExpireMw(s))
    /\ WF_vars(ExpireKey)
    /\ \A p \in Phones : WF_vars(ExpirePhone(p))

FairSpec == Spec /\ Fairness

----------------------------------------------------------------------------
Rows == {rows[i] : i \in DOMAIN rows}

\* One key makes one transaction.  The key's lock and the phone's lock each
\* suffice against a retry with the same body, so a second row takes a read
\* that missed the first one, or the key's lock running out under its owner
\* and, with it, either the phone's lock too or a body with another phone.
OneRowPerKey ==
    Len(rows) > 1 =>
        \/ "stale" \in missed
        \/ /\ "key" \in missed
           /\ \/ "phone" \in missed
              \/ \E x, y \in Rows : Phone(x) # Phone(y)

\* "Duplicate request with a different payload under the same key: rejected"
\* (idempotency.ts:157).  Within one scope a request is told of a transaction with
\* its own body, and the middleware's cache and lock are all that sees to it:
\* after a lost client, a crash, an answer that was not cached, an outage of Redis
\* or an expired lock, and always in another scope, the controller hands out the
\* row of the key to any body.
ReuseRefused ==
    \A r \in Requests : \A x \in Rows :
        reply[r] = x /\ payload[x] # payload[r] /\ Scope(x) = Scope(r) =>
            \/ reply[x] = "gone" \/ pc[x] = "dead" \/ x \notin finished
            \/ missed \cap {"mw", "redis"} # {}

\* A request that has come to its end holds no lock, so the next retry is not
\* kept waiting for an expiry.  Exempt are a process that died, an outage of
\* Redis, and the client that left (or was timed out) before the response was
\* wrapped and whose handler then threw: nothing is left to release its lock.
LocksReturned ==
    \A r \in Requests :
        Ended(r) /\ pc[r] # "dead" /\ "redis" \notin missed =>
            /\ keyLock # r
            /\ \A p \in Phones : phoneLock[p] # r
            /\ MwLock(r) = r => pc[r] = "threw" /\ r \in guarded \ finished

\* A cached answer is what every later duplicate is told, so it is never
\* replaced while it lasts, not even by a request that was given up and still
\* runs.  Only a middleware lock that ran out under its owner undoes this.
CacheKept ==
    [][\A s \in Scopes :
         cache[s] # Nobody /\ cache'[s] # cache[s] => "mw" \in missed]_vars

\* Every request is answered or left by its client, and its background work
\* ends.  A handler that throws is answered by the timeout only.
EveryRequestEnds == \A r \in Requests : <>[]Ended(r)

\* The requests under a key implement one idempotent operation; the time
\* limits it rests on are the key's lock and reads that see the row.
Operation == INSTANCE IdempotentOperation WITH
    NoAnswer <- "none",
    performed <- Rows,
    told <- reply,
    late <- missed \cap {"key", "stale"} # {}

ImplementsOperation == Operation!Spec
=============================================================================
