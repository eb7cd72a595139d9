----------------------------- MODULE ChannelPool -----------------------------
(***************************************************************************)
(* The Stellar channel account pool of src/services/channelPool.ts with    *)
(* the submission it runs, submitWithSequenceRecovery of                   *)
(* src/services/stellar/stellarService.ts.                                 *)
(*                                                                         *)
(* Each replica of the service keeps its own idle list and its own queue   *)
(* of waiters; the replicas share leases and cached sequence numbers in    *)
(* Redis, and fall back to a store in their own memory while it is         *)
(* disconnected.  The ledger takes a transaction whose sequence number is  *)
(* the successor of its account's; an answer of Horizon may be lost, and   *)
(* the transaction may then land later or never.  Every await is a step    *)
(* boundary.  Topping the channels up (replenish) is not modelled.         *)
(***************************************************************************)
EXTENDS Integers, Sequences, FiniteSets

CONSTANTS
    Replicas,     \* processes, each with one pool
    Channels,     \* channel accounts, configured on every replica
    Calls,        \* calls of withChannel, one payment each
    Home,         \* [Calls -> Replicas]
    MaxAttempts,  \* maxSequenceRetries
    MaxInner,     \* maxRetries of submitWithSequenceRecovery
    MaxFaults     \* bound: expiries, outages, store and Horizon errors, ...

NoChannel == "none"
Free == <<>>

ASSUME HomeAssumption == Home \in [Calls -> Replicas]
ASSUME NamesAssumption ==
    NoChannel \notin Channels /\ "redis" \notin Replicas
ASSUME ChannelsAssumption == IsFiniteSet(Channels)
ASSUME BoundsAssumption ==
    MaxAttempts \in Nat \ {0} /\ MaxInner \in Nat /\ MaxFaults \in Nat

VARIABLES
    call,      \* [Calls -> progress of withChannel]
    idle,      \* [Replicas -> this.idle, a sequence of channels]
    waiters,   \* [Replicas -> this.waiters, a sequence of calls]
    lease,     \* [stores -> [Channels -> Free or the token of a claim]]
    cached,    \* [stores -> [Channels -> cached sequence number, 0 = none]]
    online,    \* whether Redis is connected
    ledger,    \* [Channels -> the account's sequence number]
    inflight,  \* submissions without an answer that may still be applied
    effect,    \* [Calls -> how often the payment took effect]
    disturbed, \* what went wrong with leases and sequences, ever
    faults     \* faults that have happened, against MaxFaults

store == <<lease, cached, online>>
chain == <<ledger, inflight, effect>>
vars == <<call, idle, waiters, store, chain, disturbed, faults>>

Stores == Replicas \cup {"redis"}

\* A token is unique to a claim that succeeded: the call and its attempt.
Tokens == Calls \X (1..MaxAttempts)

Pcs == {"acquire", "waiting", "claim", "load", "ask", "submit", "reload",
        "record", "forget", "release", "handoff", "ok", "failed"}

CallType == [pc : Pcs, channel : Channels \cup {NoChannel}, attempt : 1..MaxAttempts,
             inner : 0..MaxInner, late : BOOLEAN, claimed : BOOLEAN,
             account : Nat, seq : Nat, error : {"none", "bad_seq", "other", "unknown"}]

\* The ranges of the variables.  A cached number is never ahead of the ledger:
\* building on it fits or is tx_bad_seq, and cannot become valid later.
TypeOK ==
    /\ call \in [Calls -> CallType]
    /\ \A p \in Replicas : idle[p] \in Seq(Channels) /\ waiters[p] \in Seq(Calls)
    /\ lease \in [Stores -> [Channels -> Tokens \cup {Free}]]
    /\ \A s \in Stores : \A ch \in Channels : cached[s][ch] \in 0..ledger[ch]
    /\ online \in BOOLEAN
    /\ ledger \in [Channels -> Nat]
    /\ inflight \subseteq [by : Calls, channel : Channels, seq : Nat]
    /\ effect \in [Calls -> Nat]
    /\ disturbed \subseteq {"lease", "answer"}
    /\ faults \in 0..MaxFaults

----------------------------------------------------------------------------
\* RedisChannelLeaseStore: Redis while it is connected, else own memory.
StoreOf(p) == IF online THEN "redis" ELSE p

Token(c) == <<c, call[c].attempt>>

Fault == faults < MaxFaults /\ faults' = faults + 1

Move(c, l) == call' = [call EXCEPT ![c].pc = l]

----------------------------------------------------------------------------
\* acquire

\* tryAcquireIdle: take the first idle channel; claimShared follows.
TakeIdle(c) ==
    LET p == Home[c] IN
    /\ call[c].pc = "acquire" /\ idle[p] # <<>>
    /\ call' = [call EXCEPT ![c].pc = "claim", ![c].channel = Head(idle[p])]
    /\ idle' = [idle EXCEPT ![p] = Tail(@)]
    /\ UNCHANGED <<waiters, store, chain, disturbed, faults>>

\* waitForLocalRelease
Wait(c) ==
    LET p == Home[c] IN
    /\ call[c].pc = "acquire" /\ idle[p] = <<>> /\ ~call[c].late
    /\ Move(c, "waiting")
    /\ waiters' = [waiters EXCEPT ![p] = Append(@, c)]
    /\ UNCHANGED <<idle, store, chain, disturbed, faults>>

\* Mutant: the timer resolves the waiter and leaves it in the queue.
WaiterTimesOutQueued(c) ==
    /\ call[c].pc = "waiting"
    /\ call' = [call EXCEPT ![c].pc = "acquire", ![c].late = TRUE]
    /\ UNCHANGED <<idle, waiters, store, chain, disturbed, faults>>

\* The waiter's timer fires first: it leaves the queue and looks once more.
WaiterTimesOut(c) ==
    LET p == Home[c] IN
    /\ call[c].pc = "waiting"
    /\ \E i \in DOMAIN waiters[p] :
          /\ waiters[p][i] = c
          /\ waiters' = [waiters EXCEPT ![p] = SubSeq(@, 1, i - 1) \o SubSeq(@, i + 1, Len(@))]
    /\ call' = [call EXCEPT ![c].pc = "acquire", ![c].late = TRUE]
    /\ UNCHANGED <<idle, store, chain, disturbed, faults>>

\* ChannelPoolExhaustedError: the deadline passed without a claim.
GiveUp(c) ==
    /\ call[c].pc = "acquire"
    /\ call' = [call EXCEPT ![c].pc = "failed", ![c].error = "other"]
    /\ UNCHANGED <<idle, waiters, store, chain, disturbed, faults>>

Places(q, x) == {i \in DOMAIN q : q[i] = x}

PutBack(p, ch) ==
    idle' = [idle EXCEPT ![p] = IF Places(@, ch) = {} THEN Append(@, ch) ELSE @]

\* claimShared: SET NX takes the lease, or finds it taken.
Claim(c) ==
    LET p == Home[c]
        ch == call[c].channel
        s == StoreOf(p)
    IN
    /\ call[c].pc = "claim"
    /\ IF lease[s][ch] = Free
       THEN /\ lease' = [lease EXCEPT ![s][ch] = Token(c)]
            /\ call' = [call EXCEPT ![c].pc = "load", ![c].claimed = TRUE]
            /\ UNCHANGED idle
       ELSE /\ PutBack(p, ch)
            /\ call' = [call EXCEPT ![c].pc = "acquire", ![c].channel = NoChannel]
            /\ UNCHANGED lease
    /\ UNCHANGED <<waiters, cached, online, chain, disturbed, faults>>

\* The command fails, before or after Redis carried it out.
ClaimErrs(c) ==
    LET p == Home[c]
        ch == call[c].channel
    IN
    /\ call[c].pc = "claim" /\ online
    /\ Fault
    /\ \/ lease["redis"][ch] = Free /\ lease' = [lease EXCEPT !["redis"][ch] = Token(c)]
       \/ UNCHANGED lease
    /\ PutBack(p, ch)
    /\ call' = [call EXCEPT ![c].pc = "acquire", ![c].channel = NoChannel]
    /\ UNCHANGED <<waiters, cached, online, chain, disturbed>>

----------------------------------------------------------------------------
\* loadSequence, and the account the transaction is built on.

BuildOn(c, n) ==
    call' = [call EXCEPT ![c].pc = "submit", ![c].account = n, ![c].seq = n,
                         ![c].inner = 0]

\* getSequence knows the number.
Load(c) ==
    LET known == cached[StoreOf(Home[c])][call[c].channel] IN
    /\ call[c].pc = "load"
    /\ known # 0
    /\ BuildOn(c, known)
    /\ UNCHANGED <<idle, waiters, store, chain, disturbed, faults>>

\* It does not: Horizon is asked.
LoadMisses(c) ==
    /\ call[c].pc = "load"
    /\ cached[StoreOf(Home[c])][call[c].channel] = 0
    /\ Move(c, "ask")
    /\ UNCHANGED <<idle, waiters, store, chain, disturbed, faults>>

\* Redis errs, which counts as not knowing.
LoadErrs(c) ==
    /\ call[c].pc = "load" /\ online
    /\ Fault
    /\ Move(c, "ask")
    /\ UNCHANGED <<idle, waiters, store, chain, disturbed>>

\* loadAccount
Ask(c) ==
    /\ call[c].pc = "ask"
    /\ BuildOn(c, ledger[call[c].channel])
    /\ UNCHANGED <<idle, waiters, store, chain, disturbed, faults>>

\* Horizon cannot be asked: nothing was built.
AskFails(c) ==
    /\ call[c].pc = "ask"
    /\ Fault
    /\ call' = [call EXCEPT ![c].pc = "release", ![c].error = "other"]
    /\ UNCHANGED <<idle, waiters, store, chain, disturbed>>

----------------------------------------------------------------------------
\* submitWithSequenceRecovery, on call[c].seq; lease.account is advanced by
\* the first build and by no later one.

\* What the ledger makes of a transaction with the given sequence number.
Fits(ch, n) == n = ledger[ch] + 1
Consume(ch) == ledger' = [ledger EXCEPT ![ch] = @ + 1]
TakesEffect(c) == effect' = [effect EXCEPT ![c] = @ + 1]

Leave(c, l, e) == call' = [call EXCEPT ![c].pc = l, ![c].error = e]

Submit(c) ==
    LET ch == call[c].channel IN
    /\ call[c].pc = "submit"
    /\ Fits(ch, call[c].seq + 1)
    /\ Consume(ch) /\ TakesEffect(c)
    /\ Leave(c, "record", "none")
    /\ UNCHANGED <<idle, waiters, store, inflight, disturbed, faults>>

\* The ledger takes the transaction and the payment in it fails.
PaymentFails(c) ==
    LET ch == call[c].channel IN
    /\ call[c].pc = "submit"
    /\ Fits(ch, call[c].seq + 1)
    /\ Fault
    /\ Consume(ch)
    /\ Leave(c, "forget", "other")
    /\ UNCHANGED <<idle, waiters, store, inflight, effect, disturbed>>

\* Mutant: a timeout of Horizon is retried as if it were tx_bad_seq.
AnswerLostRetried(c) ==
    LET ch == call[c].channel IN
    /\ call[c].pc = "submit"
    /\ Fault
    /\ disturbed' = disturbed \cup {"answer"}
    /\ Fits(ch, call[c].seq + 1) /\ Consume(ch) /\ TakesEffect(c)
    /\ Leave(c, "reload", "none")
    /\ UNCHANGED <<idle, waiters, store, inflight>>

\* No answer: the transaction was applied, or may be later, or never.
AnswerLost(c) ==
    LET ch == call[c].channel IN
    /\ call[c].pc = "submit"
    /\ Fault
    /\ disturbed' = disturbed \cup {"answer"}
    /\ \/ /\ Fits(ch, call[c].seq + 1) /\ Consume(ch) /\ TakesEffect(c)
          /\ UNCHANGED inflight
       \/ /\ inflight' = inflight \cup
                {[by |-> c, channel |-> ch, seq |-> call[c].seq + 1]}
          /\ UNCHANGED <<ledger, effect>>
    /\ Leave(c, "forget", "unknown")
    /\ UNCHANGED <<idle, waiters, store>>

\* tx_bad_seq: reload and rebuild a few times, then leave it to withChannel.
BadSequence(c) ==
    /\ call[c].pc = "submit"
    /\ ~Fits(call[c].channel, call[c].seq + 1)
    /\ IF call[c].inner < MaxInner
       THEN call' = [call EXCEPT ![c].pc = "reload", ![c].inner = @ + 1]
       ELSE Leave(c, "forget", "bad_seq")
    /\ UNCHANGED <<idle, waiters, store, ledger, inflight, effect, disturbed, faults>>

Reload(c) ==
    /\ call[c].pc = "reload"
    /\ call' = [call EXCEPT ![c].pc = "submit", ![c].seq = ledger[call[c].channel]]
    /\ UNCHANGED <<idle, waiters, store, chain, disturbed, faults>>

\* Building, or the reload, throws; before the first build nothing is forgotten.
BuildFails(c) ==
    /\ call[c].pc \in {"submit", "reload"}
    /\ Fault
    /\ Leave(c, IF call[c].inner = 0 THEN "release" ELSE "forget", "other")
    /\ UNCHANGED <<idle, waiters, store, chain, disturbed>>

Land ==
    \E t \in inflight :
       /\ inflight' = inflight \ {t}
       /\ IF Fits(t.channel, t.seq)
          THEN Consume(t.channel) /\ TakesEffect(t.by)
          ELSE UNCHANGED <<ledger, effect>>
       /\ UNCHANGED <<call, idle, waiters, store, disturbed, faults>>

----------------------------------------------------------------------------
\* The end of withChannel: recordSequence or forgetSequence, then release.

\* Mutant: the number of the account before it was built on is recorded.
RecordStart(c) ==
    LET ch == call[c].channel IN
    /\ call[c].pc = "record"
    /\ cached' = [cached EXCEPT ![StoreOf(Home[c])][ch] = call[c].account]
    /\ Move(c, "release")
    /\ UNCHANGED <<idle, waiters, lease, online, chain, disturbed, faults>>

\* Mutant: the number is advanced once more.
RecordAhead(c) ==
    LET ch == call[c].channel IN
    /\ call[c].pc = "record"
    /\ cached' = [cached EXCEPT ![StoreOf(Home[c])][ch] = call[c].account + 2]
    /\ Move(c, "release")
    /\ UNCHANGED <<idle, waiters, lease, online, chain, disturbed, faults>>

Record(c) ==
    LET ch == call[c].channel IN
    /\ call[c].pc = "record"
    /\ cached' = [cached EXCEPT ![StoreOf(Home[c])][ch] = call[c].account + 1]
    /\ Move(c, "release")
    /\ UNCHANGED <<idle, waiters, lease, online, chain, disturbed, faults>>

Forget(c) ==
    LET ch == call[c].channel IN
    /\ call[c].pc = "forget"
    /\ cached' = [cached EXCEPT ![StoreOf(Home[c])][ch] = 0]
    /\ Move(c, "release")
    /\ UNCHANGED <<idle, waiters, lease, online, chain, disturbed, faults>>

\* A cache write that throws is swallowed.
CacheErrs(c) ==
    /\ call[c].pc \in {"record", "forget"} /\ online
    /\ Fault
    /\ Move(c, "release")
    /\ disturbed' = disturbed \cup {"answer"}
    /\ UNCHANGED <<idle, waiters, store, chain>>

\* RELEASE_IF_OWNER
Release(c) ==
    LET ch == call[c].channel
        s == StoreOf(Home[c])
    IN
    /\ call[c].pc = "release"
    /\ lease' = [lease EXCEPT ![s][ch] = IF @ = Token(c) THEN Free ELSE @]
    /\ call' = [call EXCEPT ![c].pc = "handoff", ![c].claimed = FALSE]
    /\ UNCHANGED <<idle, waiters, cached, online, chain, disturbed, faults>>

ReleaseErrs(c) ==
    /\ call[c].pc = "release" /\ online
    /\ Fault
    /\ call' = [call EXCEPT ![c].pc = "handoff", ![c].claimed = FALSE]
    /\ UNCHANGED <<idle, waiters, store, chain, disturbed>>

NewCall == [pc |-> "acquire", channel |-> NoChannel, attempt |-> 1, inner |-> 0,
            late |-> FALSE, claimed |-> FALSE, account |-> 0, seq |-> 0,
            error |-> "none"]

\* Where a call goes when it has let go of its channel.
Ended(c) ==
    IF call[c].error = "bad_seq" /\ call[c].attempt < MaxAttempts
    THEN [NewCall EXCEPT !.attempt = call[c].attempt + 1]
    ELSE [NewCall EXCEPT !.pc = IF call[c].error = "none" THEN "ok" ELSE "failed",
                         !.error = call[c].error]

\* The oldest local waiter gets the channel, else it is idle again.  Resolving
\* a waiter whose timer came first does nothing.
HandOff(c) ==
    LET p == Home[c]
        ch == call[c].channel
    IN
    /\ call[c].pc = "handoff"
    /\ IF waiters[p] # <<>>
       THEN /\ call' = [call EXCEPT ![c] = Ended(c),
                  ![Head(waiters[p])] = IF @.pc = "waiting"
                                        THEN [@ EXCEPT !.pc = "claim", !.channel = ch]
                                        ELSE @]
            /\ waiters' = [waiters EXCEPT ![p] = Tail(@)]
            /\ UNCHANGED idle
       ELSE /\ call' = [call EXCEPT ![c] = Ended(c)]
            /\ idle' = [idle EXCEPT ![p] = Append(@, ch)]
            /\ UNCHANGED waiters
    /\ UNCHANGED <<store, chain, disturbed, faults>>

----------------------------------------------------------------------------
\* The surroundings.

\* A call that works under a token of a store.
Uses(c, ch) == call[c].claimed /\ call[c].channel = ch

\* PX: the lease runs out, under its owner only as a fault.
Expire(s, ch) ==
    /\ lease[s][ch] # Free
    /\ lease' = [lease EXCEPT ![s][ch] = Free]
    /\ IF \E c \in Calls : Uses(c, ch) /\ Token(c) = lease[s][ch]
       THEN Fault /\ disturbed' = disturbed \cup {"lease"}
       ELSE UNCHANGED <<disturbed, faults>>
    /\ UNCHANGED <<call, idle, waiters, cached, online, chain>>

GoOffline ==
    /\ online /\ online' = FALSE
    /\ Fault
    /\ disturbed' = disturbed \cup {"lease"}
    /\ UNCHANGED <<call, idle, waiters, lease, cached, chain>>

GoOnline ==
    /\ ~online /\ online' = TRUE
    /\ UNCHANGED <<call, idle, waiters, lease, cached, chain, disturbed, faults>>

Busy(c) == call[c].pc \notin {"ok", "failed"}

\* The process dies with all its calls and starts again with a new pool.
Crash(p) ==
    /\ \E c \in Calls : Home[c] = p /\ Busy(c)
    /\ Fault
    /\ call' = [c \in Calls |->
                  IF Home[c] = p /\ Busy(c)
                  THEN [NewCall EXCEPT !.pc = "failed", !.error = "unknown"]
                  ELSE call[c]]
    /\ waiters' = [waiters EXCEPT ![p] = <<>>]
    /\ \E q \in [1..Cardinality(Channels) -> Channels] :
          /\ \A ch \in Channels : Places(q, ch) # {}
          /\ idle' = [idle EXCEPT ![p] = q]
    /\ lease' = [lease EXCEPT ![p] = [ch \in Channels |-> Free]]
    /\ cached' = [cached EXCEPT ![p] = [ch \in Channels |-> 0]]
    /\ disturbed' = disturbed \cup {"answer"}
    /\ UNCHANGED <<online, chain>>

----------------------------------------------------------------------------
Init ==
    /\ call = [c \in Calls |-> NewCall]
    /\ idle \in [Replicas -> {q \in [1..Cardinality(Channels) -> Channels] :
                                 \A ch \in Channels : Places(q, ch) # {}}]
    /\ waiters = [p \in Replicas |-> <<>>]
    /\ lease = [s \in Stores |-> [ch \in Channels |-> Free]]
    /\ cached = [s \in Stores |-> [ch \in Channels |-> 0]]
    /\ online = TRUE
    /\ ledger = [ch \in Channels |-> 1]
    /\ inflight = {} /\ effect = [c \in Calls |-> 0]
    /\ disturbed = {} /\ faults = 0

Acquiring(c) == TakeIdle(c) \/ Wait(c) \/ WaiterTimesOut(c) \/ Claim(c)

Working(c) ==
    \/ Load(c) \/ LoadMisses(c) \/ Ask(c) \/ Submit(c) \/ BadSequence(c) \/ Reload(c) \/ Record(c)
    \/ Forget(c) \/ Release(c) \/ HandOff(c)

Failing(c) ==
    \/ ClaimErrs(c) \/ LoadErrs(c) \/ AskFails(c) \/ PaymentFails(c) \/ AnswerLost(c)
    \/ BuildFails(c) \/ CacheErrs(c) \/ ReleaseErrs(c)

Next ==
    \/ \E c \in Calls : Acquiring(c) \/ GiveUp(c) \/ Working(c) \/ Failing(c)
    \/ \E s \in Stores, ch \in Channels : Expire(s, ch)
    \/ \E p \in Replicas : Crash(p)
    \/ Land \/ GoOffline \/ GoOnline

Spec == Init /\ [][Next]_vars

----------------------------------------------------------------------------
\* A payment takes effect at most once, whatever is retried: tx_bad_seq says
\* that a transaction did not and will not reach the ledger, and only then is
\* the payment built again.  What the caller is told is true: success means one
\* payment, and failure none, unless an answer was lost or a process died.
ToldTheTruth ==
    \A c \in Calls :
        /\ effect[c] <= 1
        /\ call[c].pc = "ok" => effect[c] = 1
        /\ call[c].pc = "failed" /\ call[c].error # "unknown" => effect[c] = 0

\* Every replica knows where each of its channels is: once in its idle list
\* or with one call, never lost and never in two hands, through hand-offs to
\* waiters that time out and claims that fail.
ChannelAccounted ==
    \A p \in Replicas : \A ch \in Channels :
        Cardinality(Places(idle[p], ch))
          + Cardinality({c \in Calls : Home[c] = p /\ call[c].channel = ch}) = 1

\* Two calls work on a channel at once, or one submits for tx_bad_seq, only
\* after a lease ran out under its owner, Redis was away, or an answer or a
\* cache write was lost: concurrent payments do not collide by themselves.
NoCollision ==
    disturbed = {} =>
        /\ \A c \in Calls :
              call[c].pc = "submit" => Fits(call[c].channel, call[c].seq + 1)
        /\ \A c, d \in Calls : \A ch \in Channels :
              Uses(c, ch) /\ Uses(d, ch) => c = d
=============================================================================
