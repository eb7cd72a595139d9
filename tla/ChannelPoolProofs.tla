-------------------------- MODULE ChannelPoolProofs --------------------------
(***************************************************************************)
(* Proofs about ChannelPool, for any number of replicas, channels, calls,  *)
(* attempts and faults.                                                    *)
(***************************************************************************)
EXTENDS ChannelPool, FiniteSetTheorems, SequenceTheorems, TLAPS

----------------------------------------------------------------------------
(* The inductive invariant *)

Submitting == {"load", "ask", "submit", "reload", "record", "forget", "release"}

\* A call has a channel from the idle list or the hand-off until it lets go of
\* it, and a token from the claim to the release.
PlaceInv ==
    \A c \in Calls :
       /\ call[c].channel = NoChannel <=> call[c].pc \in {"acquire", "waiting", "ok", "failed"}
       /\ call[c].claimed <=> call[c].pc \in Submitting

\* What is known of an account's number is never ahead of the ledger, also in
\* the hands of a call that is about to record it.
NumbersInv ==
    /\ \A s \in Stores, ch \in Channels : cached[s][ch] <= ledger[ch]
    /\ \A c \in Calls :
         /\ call[c].pc \in {"submit", "reload"} => call[c].account <= ledger[call[c].channel]
         /\ call[c].pc = "record" => call[c].account + 1 <= ledger[call[c].channel]

\* The conjuncts of TypeOK, by what they are about; the bound on the cached
\* numbers is part of NumbersInv.
QueuesType ==
    /\ idle \in [Replicas -> Seq(Channels)]
    /\ waiters \in [Replicas -> Seq(Calls)]

StoresType ==
    /\ lease \in [Stores -> [Channels -> Tokens \cup {Free}]]
    /\ cached \in [Stores -> [Channels -> Nat]]
    /\ online \in BOOLEAN

ChainType ==
    /\ ledger \in [Channels -> Nat]
    /\ inflight \subseteq [by : Calls, channel : Channels, seq : Nat]
    /\ effect \in [Calls -> Nat]

FaultsType == disturbed \subseteq {"lease", "answer"} /\ faults \in 0 .. MaxFaults

TypeInv ==
    call \in [Calls -> CallType] /\ QueuesType /\ StoresType /\ ChainType /\ FaultsType

\* What a call that goes on has seen of its payment.
PaymentInv ==
    \A c \in Calls :
       /\ effect[c] <= 1
       /\ call[c].pc \in {"acquire", "waiting", "claim", "load", "ask", "submit", "reload"} =>
             effect[c] = 0 /\ call[c].error = "none"
       /\ call[c].pc = "record" => call[c].error = "none"
       /\ call[c].pc \in {"record", "release", "handoff", "ok"} /\ call[c].error = "none" =>
             effect[c] = 1
       /\ call[c].pc \in {"forget", "failed"} => call[c].error # "none"
       /\ call[c].error \in {"bad_seq", "other"} => effect[c] = 0
       /\ call[c].pc = "ok" => call[c].error = "none"

\* A submission without an answer is the only one of its payment, which then
\* has not taken effect and is not built again.
InflightInv ==
    \A t \in inflight :
       /\ call[t.by].error = "unknown" /\ effect[t.by] = 0
       /\ \A u \in inflight : u.by = t.by => u = t

\* The queue of a replica holds calls of its own that wait, each once.
WaitersInv ==
    \A p \in Replicas : \A i \in 1 .. Len(waiters[p]) :
       /\ Home[waiters[p][i]] = p
       /\ call[waiters[p][i]].pc = "waiting"
       /\ \A j \in 1 .. Len(waiters[p]) : waiters[p][i] = waiters[p][j] => i = j

Absent(q, x) == \A i \in 1 .. Len(q) : q[i] # x

Once(q, x) ==
    \E i \in 1 .. Len(q) : q[i] = x /\ \A j \in 1 .. Len(q) : q[j] = x => j = i

Holds(c, p, ch) == Home[c] = p /\ call[c].channel = ch

\* A channel is in the idle list once and with no call, or with one call.
OneHand(p, ch) ==
    \/ Once(idle[p], ch) /\ \A c \in Calls : ~Holds(c, p, ch)
    \/ /\ Absent(idle[p], ch)
       /\ \E c \in Calls : Holds(c, p, ch) /\ \A d \in Calls : Holds(d, p, ch) => d = c

HandsInv == \A p \in Replicas, ch \in Channels : OneHand(p, ch)

\* Whoever works on a channel is named by its lease.
Leased(c) == call[c].claimed => lease["redis"][call[c].channel] = Token(c)

\* While leases are kept, all who work hold one.
LeaseInv == "lease" \notin disturbed => online /\ \A c \in Calls : Leased(c)

\* The number a call builds on, or has built on, is the ledger's.
RightNumber(c) ==
    /\ call[c].pc # "reload"
    /\ call[c].pc = "submit" =>
          /\ call[c].seq = ledger[call[c].channel]
          /\ call[c].account = ledger[call[c].channel]
    /\ call[c].pc = "record" => call[c].account + 1 = ledger[call[c].channel]

\* The cached number is the ledger's unless a call is about to replace it.
CacheRight(ch) ==
    \/ cached["redis"][ch] \in {0, ledger[ch]}
    \/ \E c \in Calls : call[c].pc \in {"record", "forget"} /\ call[c].channel = ch

\* Until something goes wrong, all numbers are right.
SequenceInv ==
    disturbed = {} =>
       /\ inflight = {}
       /\ \A c \in Calls : RightNumber(c)
       /\ \A ch \in Channels : CacheRight(ch)

IInv ==
    /\ TypeInv /\ PlaceInv /\ NumbersInv /\ PaymentInv /\ InflightInv /\ WaitersInv
    /\ HandsInv /\ LeaseInv /\ SequenceInv

----------------------------------------------------------------------------
(* What each action does to its call, field by field *)

\* The calls other than c are left alone.
Changed(c) ==
    /\ call' \in [Calls -> CallType]
    /\ \A d \in Calls : d # c => call'[d] = call[d]

\* One entry of a store is written.
CacheSet(c, n) ==
    cached' = [cached EXCEPT ![StoreOf(Home[c])][call[c].channel] = n]

LeaseSet(c, s, t) == lease' = [lease EXCEPT ![s][call[c].channel] = t]

LeaseFreed(c) ==
    lease' = [lease EXCEPT ![StoreOf(Home[c])][call[c].channel] =
                             IF @ = Token(c) THEN Free ELSE @]

LEMMA FaultCounted == TypeInv /\ Fault => faults' \in 0 .. MaxFaults
BY BoundsAssumption DEF TypeInv, FaultsType, Fault

LEMMA HeadIdle ==
    ASSUME TypeInv, NEW p \in Replicas, idle[p] # <<>>
    PROVE  Head(idle[p]) \in Channels /\ Tail(idle[p]) \in Seq(Channels)
BY HeadTailProperties DEF TypeInv, QueuesType

\* Between the idle list and the hand-off a call has a channel.
LEMMA HasChannel ==
    ASSUME TypeInv, PlaceInv, NEW c \in Calls,
           call[c].pc \notin {"acquire", "waiting", "ok", "failed"}
    PROVE  call[c].channel \in Channels
BY DEF TypeInv, PlaceInv, CallType

LEMMA TakeIdleEffect ==
    ASSUME TypeInv, NEW c \in Calls, TakeIdle(c)
    PROVE  /\ Changed(c)
           /\ call[c].pc = "acquire"
           /\ idle[Home[c]] # <<>>
           /\ call'[c].pc = "claim"
           /\ call'[c].channel = Head(idle[Home[c]])
           /\ UNCHANGED <<call[c].attempt, call[c].inner, call[c].late,
                          call[c].claimed, call[c].account, call[c].seq,
                          call[c].error>>
           /\ idle' = [idle EXCEPT ![Home[c]] = Tail(@)]
           /\ UNCHANGED <<waiters, store, chain, disturbed, faults>>
<1> DEFINE x == [call[c] EXCEPT !.pc = "claim", !.channel = Head(idle[Home[c]])]
<1>1. call' = [call EXCEPT ![c] = x]
  BY DEF TakeIdle
<1>2. x \in CallType
  <2>1. call[c] \in CallType
    BY DEF TypeInv
  <2>2. "claim" \in Pcs /\ Head(idle[Home[c]]) \in Channels
    BY HeadIdle, BoundsAssumption, HomeAssumption DEF TakeIdle, Pcs, TypeInv
  <2> QED
    BY <2>1, <2>2 DEF CallType
<1>3. /\ x.pc = "claim"
      /\ x.channel = Head(idle[Home[c]])
      /\ x.attempt = call[c].attempt
      /\ x.inner = call[c].inner
      /\ x.late = call[c].late
      /\ x.claimed = call[c].claimed
      /\ x.account = call[c].account
      /\ x.seq = call[c].seq
      /\ x.error = call[c].error
  BY DEF TypeInv, CallType
<1> HIDE DEF x
<1>4. call'[c] = x /\ Changed(c)
  BY <1>1, <1>2 DEF TypeInv, Changed
<1> QED
  BY <1>3, <1>4, HeadIdle DEF TakeIdle

LEMMA WaitEffect ==
    ASSUME TypeInv, NEW c \in Calls, Wait(c)
    PROVE  /\ Changed(c)
           /\ call[c].pc = "acquire"
           /\ call'[c].pc = "waiting"
           /\ UNCHANGED <<call[c].channel, call[c].attempt, call[c].inner,
                          call[c].late, call[c].claimed, call[c].account,
                          call[c].seq, call[c].error>>
           /\ waiters' = [waiters EXCEPT ![Home[c]] = Append(@, c)]
           /\ UNCHANGED <<idle, store, chain, disturbed, faults>>
<1> DEFINE x == [call[c] EXCEPT !.pc = "waiting"]
<1>1. call' = [call EXCEPT ![c] = x]
  BY DEF Wait, Move
<1>2. x \in CallType
  <2>1. call[c] \in CallType
    BY DEF TypeInv
  <2>2. "waiting" \in Pcs
    BY BoundsAssumption DEF Wait, Pcs, TypeInv
  <2> QED
    BY <2>1, <2>2 DEF CallType
<1>3. /\ x.pc = "waiting"
      /\ x.channel = call[c].channel
      /\ x.attempt = call[c].attempt
      /\ x.inner = call[c].inner
      /\ x.late = call[c].late
      /\ x.claimed = call[c].claimed
      /\ x.account = call[c].account
      /\ x.seq = call[c].seq
      /\ x.error = call[c].error
  BY DEF TypeInv, CallType
<1> HIDE DEF x
<1>4. call'[c] = x /\ Changed(c)
  BY <1>1, <1>2 DEF TypeInv, Changed
<1> QED
  BY <1>3, <1>4 DEF Wait, Move

LEMMA WaiterTimesOutEffect ==
    ASSUME TypeInv, NEW c \in Calls, WaiterTimesOut(c)
    PROVE  /\ Changed(c)
           /\ call[c].pc = "waiting"
           /\ call'[c].pc = "acquire"
           /\ call'[c].late
           /\ UNCHANGED <<call[c].channel, call[c].attempt, call[c].inner,
                          call[c].claimed, call[c].account, call[c].seq,
                          call[c].error>>
           /\ UNCHANGED <<idle, store, chain, disturbed, faults>>
<1> DEFINE x == [call[c] EXCEPT !.pc = "acquire", !.late = TRUE]
<1>1. call' = [call EXCEPT ![c] = x]
  BY DEF WaiterTimesOut
<1>2. x \in CallType
  <2>1. call[c] \in CallType
    BY DEF TypeInv
  <2>2. "acquire" \in Pcs
    BY BoundsAssumption DEF WaiterTimesOut, Pcs, TypeInv
  <2> QED
    BY <2>1, <2>2 DEF CallType
<1>3. /\ x.pc = "acquire"
      /\ x.late
      /\ x.channel = call[c].channel
      /\ x.attempt = call[c].attempt
      /\ x.inner = call[c].inner
      /\ x.claimed = call[c].claimed
      /\ x.account = call[c].account
      /\ x.seq = call[c].seq
      /\ x.error = call[c].error
  BY DEF TypeInv, CallType
<1> HIDE DEF x
<1>4. call'[c] = x /\ Changed(c)
  BY <1>1, <1>2 DEF TypeInv, Changed
<1> QED
  BY <1>3, <1>4 DEF WaiterTimesOut

LEMMA GiveUpEffect ==
    ASSUME TypeInv, NEW c \in Calls, GiveUp(c)
    PROVE  /\ Changed(c)
           /\ call[c].pc = "acquire"
           /\ call'[c].pc = "failed"
           /\ call'[c].error = "other"
           /\ UNCHANGED <<call[c].channel, call[c].attempt, call[c].inner,
                          call[c].late, call[c].claimed, call[c].account,
                          call[c].seq>>
           /\ UNCHANGED <<idle, waiters, store, chain, disturbed, faults>>
<1> DEFINE x == [call[c] EXCEPT !.pc = "failed", !.error = "other"]
<1>1. call' = [call EXCEPT ![c] = x]
  BY DEF GiveUp
<1>2. x \in CallType
  <2>1. call[c] \in CallType
    BY DEF TypeInv
  <2>2. "failed" \in Pcs
    BY BoundsAssumption DEF GiveUp, Pcs, TypeInv
  <2> QED
    BY <2>1, <2>2 DEF CallType
<1>3. /\ x.pc = "failed"
      /\ x.error = "other"
      /\ x.channel = call[c].channel
      /\ x.attempt = call[c].attempt
      /\ x.inner = call[c].inner
      /\ x.late = call[c].late
      /\ x.claimed = call[c].claimed
      /\ x.account = call[c].account
      /\ x.seq = call[c].seq
  BY DEF TypeInv, CallType
<1> HIDE DEF x
<1>4. call'[c] = x /\ Changed(c)
  BY <1>1, <1>2 DEF TypeInv, Changed
<1> QED
  BY <1>3, <1>4 DEF GiveUp

LEMMA AskFailsEffect ==
    ASSUME TypeInv, NEW c \in Calls, AskFails(c)
    PROVE  /\ Changed(c)
           /\ call[c].pc = "ask"
           /\ call'[c].pc = "release"
           /\ call'[c].error = "other"
           /\ UNCHANGED <<call[c].channel, call[c].attempt, call[c].inner,
                          call[c].late, call[c].claimed, call[c].account,
                          call[c].seq>>
           /\ UNCHANGED <<idle, waiters, store, chain, disturbed>>
           /\ faults' \in 0 .. MaxFaults
<1> DEFINE x == [call[c] EXCEPT !.pc = "release", !.error = "other"]
<1>1. call' = [call EXCEPT ![c] = x]
  BY DEF AskFails, Fault
<1>2. x \in CallType
  <2>1. call[c] \in CallType
    BY DEF TypeInv
  <2>2. "release" \in Pcs
    BY BoundsAssumption DEF AskFails, Pcs, TypeInv
  <2> QED
    BY <2>1, <2>2 DEF CallType
<1>3. /\ x.pc = "release"
      /\ x.error = "other"
      /\ x.channel = call[c].channel
      /\ x.attempt = call[c].attempt
      /\ x.inner = call[c].inner
      /\ x.late = call[c].late
      /\ x.claimed = call[c].claimed
      /\ x.account = call[c].account
      /\ x.seq = call[c].seq
  BY DEF TypeInv, CallType
<1> HIDE DEF x
<1>4. call'[c] = x /\ Changed(c)
  BY <1>1, <1>2 DEF TypeInv, Changed
<1> QED
  BY <1>3, <1>4, FaultCounted DEF AskFails, Fault

LEMMA AskedFields ==
    ASSUME TypeInv, NEW c \in Calls, Move(c, "ask")
    PROVE  /\ Changed(c)
           /\ call'[c].pc = "ask"
           /\ UNCHANGED <<call[c].channel, call[c].attempt, call[c].inner,
                          call[c].late, call[c].claimed, call[c].account,
                          call[c].seq, call[c].error>>
<1> DEFINE x == [call[c] EXCEPT !.pc = "ask"]
<1>1. call' = [call EXCEPT ![c] = x]
  BY DEF Move
<1>2. x \in CallType
  <2>1. call[c] \in CallType
    BY DEF TypeInv
  <2>2. "ask" \in Pcs
    BY DEF Pcs
  <2> QED
    BY <2>1, <2>2 DEF CallType
<1>3. /\ x.pc = "ask"
      /\ x.error = call[c].error
      /\ x.channel = call[c].channel
      /\ x.attempt = call[c].attempt
      /\ x.inner = call[c].inner
      /\ x.late = call[c].late
      /\ x.claimed = call[c].claimed
      /\ x.account = call[c].account
      /\ x.seq = call[c].seq
  BY DEF TypeInv, CallType
<1> HIDE DEF x
<1>4. call'[c] = x /\ Changed(c)
  BY <1>1, <1>2 DEF TypeInv, Changed
<1> QED
  BY <1>3, <1>4

LEMMA LoadMissesEffect ==
    ASSUME TypeInv, NEW c \in Calls, LoadMisses(c)
    PROVE  /\ Changed(c)
           /\ call[c].pc = "load"
           /\ call'[c].pc = "ask"
           /\ UNCHANGED <<call[c].channel, call[c].attempt, call[c].inner,
                          call[c].late, call[c].claimed, call[c].account,
                          call[c].seq, call[c].error>>
           /\ UNCHANGED <<idle, waiters, store, chain, disturbed, faults>>
<1>1. Move(c, "ask") /\ call[c].pc = "load"
  BY DEF LoadMisses
<1> QED
  BY <1>1, AskedFields DEF LoadMisses

LEMMA LoadErrsEffect ==
    ASSUME TypeInv, NEW c \in Calls, LoadErrs(c)
    PROVE  /\ Changed(c)
           /\ call[c].pc = "load"
           /\ call'[c].pc = "ask"
           /\ UNCHANGED <<call[c].channel, call[c].attempt, call[c].inner,
                          call[c].late, call[c].claimed, call[c].account,
                          call[c].seq, call[c].error>>
           /\ UNCHANGED <<idle, waiters, store, chain, disturbed>>
           /\ faults' \in 0 .. MaxFaults
<1>1. Move(c, "ask") /\ call[c].pc = "load"
  BY DEF LoadErrs
<1> QED
  BY <1>1, AskedFields, FaultCounted DEF LoadErrs, Fault

LEMMA SubmitEffect ==
    ASSUME TypeInv, NEW c \in Calls, Submit(c)
    PROVE  /\ Changed(c)
           /\ call[c].pc = "submit"
           /\ call[c].seq + 1 = ledger[call[c].channel] + 1
           /\ call'[c].pc = "record"
           /\ call'[c].error = "none"
           /\ UNCHANGED <<call[c].channel, call[c].attempt, call[c].inner,
                          call[c].late, call[c].claimed, call[c].account,
                          call[c].seq>>
           /\ ledger' = [ledger EXCEPT ![call[c].channel] = @ + 1]
           /\ effect' = [effect EXCEPT ![c] = @ + 1]
           /\ UNCHANGED <<idle, waiters, store, inflight, disturbed, faults>>
<1> DEFINE x == [call[c] EXCEPT !.pc = "record", !.error = "none"]
<1>1. call' = [call EXCEPT ![c] = x]
  BY DEF Submit, Leave, Fits, Consume, TakesEffect
<1>2. x \in CallType
  <2>1. call[c] \in CallType
    BY DEF TypeInv
  <2>2. "record" \in Pcs
    BY BoundsAssumption DEF Submit, Pcs, TypeInv
  <2> QED
    BY <2>1, <2>2 DEF CallType
<1>3. /\ x.pc = "record"
      /\ x.error = "none"
      /\ x.channel = call[c].channel
      /\ x.attempt = call[c].attempt
      /\ x.inner = call[c].inner
      /\ x.late = call[c].late
      /\ x.claimed = call[c].claimed
      /\ x.account = call[c].account
      /\ x.seq = call[c].seq
  BY DEF TypeInv, CallType
<1> HIDE DEF x
<1>4. call'[c] = x /\ Changed(c)
  BY <1>1, <1>2 DEF TypeInv, Changed
<1> QED
  BY <1>3, <1>4 DEF Submit, Leave, Fits, Consume, TakesEffect

LEMMA PaymentFailsEffect ==
    ASSUME TypeInv, NEW c \in Calls, PaymentFails(c)
    PROVE  /\ Changed(c)
           /\ call[c].pc = "submit"
           /\ call[c].seq + 1 = ledger[call[c].channel] + 1
           /\ call'[c].pc = "forget"
           /\ call'[c].error = "other"
           /\ UNCHANGED <<call[c].channel, call[c].attempt, call[c].inner,
                          call[c].late, call[c].claimed, call[c].account,
                          call[c].seq>>
           /\ ledger' = [ledger EXCEPT ![call[c].channel] = @ + 1]
           /\ UNCHANGED <<idle, waiters, store, inflight, effect, disturbed>>
           /\ faults' \in 0 .. MaxFaults
<1> DEFINE x == [call[c] EXCEPT !.pc = "forget", !.error = "other"]
<1>1. call' = [call EXCEPT ![c] = x]
  BY DEF PaymentFails, Leave, Fits, Consume
<1>2. x \in CallType
  <2>1. call[c] \in CallType
    BY DEF TypeInv
  <2>2. "forget" \in Pcs
    BY BoundsAssumption DEF PaymentFails, Pcs, TypeInv
  <2> QED
    BY <2>1, <2>2 DEF CallType
<1>3. /\ x.pc = "forget"
      /\ x.error = "other"
      /\ x.channel = call[c].channel
      /\ x.attempt = call[c].attempt
      /\ x.inner = call[c].inner
      /\ x.late = call[c].late
      /\ x.claimed = call[c].claimed
      /\ x.account = call[c].account
      /\ x.seq = call[c].seq
  BY DEF TypeInv, CallType
<1> HIDE DEF x
<1>4. call'[c] = x /\ Changed(c)
  BY <1>1, <1>2 DEF TypeInv, Changed
<1> QED
  BY <1>3, <1>4, FaultCounted DEF PaymentFails, Leave, Fits, Consume

LEMMA AnswerLostEffect ==
    ASSUME TypeInv, NEW c \in Calls, AnswerLost(c)
    PROVE  /\ Changed(c)
           /\ call[c].pc = "submit"
           /\ call'[c].pc = "forget"
           /\ call'[c].error = "unknown"
           /\ UNCHANGED <<call[c].channel, call[c].attempt, call[c].inner,
                          call[c].late, call[c].claimed, call[c].account,
                          call[c].seq>>
           /\ \/ /\ ledger' = [ledger EXCEPT ![call[c].channel] = @ + 1]
                 /\ effect' = [effect EXCEPT ![c] = @ + 1]
                 /\ UNCHANGED inflight
              \/ /\ inflight' = inflight \cup
                      {[by |-> c, channel |-> call[c].channel, seq |-> call[c].seq + 1]}
                 /\ UNCHANGED <<ledger, effect>>
           /\ disturbed' = disturbed \cup {"answer"}
           /\ UNCHANGED <<idle, waiters, store>>
           /\ faults' \in 0 .. MaxFaults
<1> DEFINE x == [call[c] EXCEPT !.pc = "forget", !.error = "unknown"]
<1>1. call' = [call EXCEPT ![c] = x]
  BY DEF AnswerLost, Leave, Fits, Consume, TakesEffect
<1>2. x \in CallType
  <2>1. call[c] \in CallType
    BY DEF TypeInv
  <2>2. "forget" \in Pcs
    BY BoundsAssumption DEF AnswerLost, Pcs, TypeInv
  <2> QED
    BY <2>1, <2>2 DEF CallType
<1>3. /\ x.pc = "forget"
      /\ x.error = "unknown"
      /\ x.channel = call[c].channel
      /\ x.attempt = call[c].attempt
      /\ x.inner = call[c].inner
      /\ x.late = call[c].late
      /\ x.claimed = call[c].claimed
      /\ x.account = call[c].account
      /\ x.seq = call[c].seq
  BY DEF TypeInv, CallType
<1> HIDE DEF x
<1>4. call'[c] = x /\ Changed(c)
  BY <1>1, <1>2 DEF TypeInv, Changed
<1> QED
  BY <1>3, <1>4, FaultCounted DEF AnswerLost, Leave, Fits, Consume, TakesEffect

LEMMA ReloadEffect ==
    ASSUME TypeInv, PlaceInv, NEW c \in Calls, Reload(c)
    PROVE  /\ Changed(c)
           /\ call[c].pc = "reload"
           /\ call'[c].pc = "submit"
           /\ call'[c].seq = ledger[call[c].channel]
           /\ UNCHANGED <<call[c].channel, call[c].attempt, call[c].inner,
                          call[c].late, call[c].claimed, call[c].account,
                          call[c].error>>
           /\ UNCHANGED <<idle, waiters, store, chain, disturbed, faults>>
<1> DEFINE x == [call[c] EXCEPT !.pc = "submit", !.seq = ledger[call[c].channel]]
<1>1. call' = [call EXCEPT ![c] = x]
  BY DEF Reload
<1>2. x \in CallType
  <2>1. call[c] \in CallType
    BY DEF TypeInv
  <2>2. "submit" \in Pcs /\ ledger[call[c].channel] \in Nat
    BY HasChannel, BoundsAssumption, HomeAssumption DEF Reload, Pcs, TypeInv, ChainType
  <2> QED
    BY <2>1, <2>2 DEF CallType
<1>3. /\ x.pc = "submit"
      /\ x.seq = ledger[call[c].channel]
      /\ x.channel = call[c].channel
      /\ x.attempt = call[c].attempt
      /\ x.inner = call[c].inner
      /\ x.late = call[c].late
      /\ x.claimed = call[c].claimed
      /\ x.account = call[c].account
      /\ x.error = call[c].error
  BY DEF TypeInv, CallType
<1> HIDE DEF x
<1>4. call'[c] = x /\ Changed(c)
  BY <1>1, <1>2 DEF TypeInv, Changed
<1> QED
  BY <1>3, <1>4, HasChannel DEF Reload

LEMMA RecordEffect ==
    ASSUME TypeInv, NEW c \in Calls, Record(c)
    PROVE  /\ Changed(c)
           /\ call[c].pc = "record"
           /\ call'[c].pc = "release"
           /\ UNCHANGED <<call[c].channel, call[c].attempt, call[c].inner,
                          call[c].late, call[c].claimed, call[c].account,
                          call[c].seq, call[c].error>>
           /\ CacheSet(c, call[c].account + 1)
           /\ UNCHANGED <<idle, waiters, lease, online, chain, disturbed, faults>>
<1> DEFINE x == [call[c] EXCEPT !.pc = "release"]
<1>1. call' = [call EXCEPT ![c] = x]
  BY DEF Record, Move
<1>2. x \in CallType
  <2>1. call[c] \in CallType
    BY DEF TypeInv
  <2>2. "release" \in Pcs
    BY BoundsAssumption DEF Record, Pcs, TypeInv
  <2> QED
    BY <2>1, <2>2 DEF CallType
<1>3. /\ x.pc = "release"
      /\ x.channel = call[c].channel
      /\ x.attempt = call[c].attempt
      /\ x.inner = call[c].inner
      /\ x.late = call[c].late
      /\ x.claimed = call[c].claimed
      /\ x.account = call[c].account
      /\ x.seq = call[c].seq
      /\ x.error = call[c].error
  BY DEF TypeInv, CallType
<1> HIDE DEF x
<1>4. call'[c] = x /\ Changed(c)
  BY <1>1, <1>2 DEF TypeInv, Changed
<1> QED
  BY <1>3, <1>4 DEF Record, CacheSet, Move

LEMMA ForgetEffect ==
    ASSUME TypeInv, NEW c \in Calls, Forget(c)
    PROVE  /\ Changed(c)
           /\ call[c].pc = "forget"
           /\ call'[c].pc = "release"
           /\ UNCHANGED <<call[c].channel, call[c].attempt, call[c].inner,
                          call[c].late, call[c].claimed, call[c].account,
                          call[c].seq, call[c].error>>
           /\ CacheSet(c, 0)
           /\ UNCHANGED <<idle, waiters, lease, online, chain, disturbed, faults>>
<1> DEFINE x == [call[c] EXCEPT !.pc = "release"]
<1>1. call' = [call EXCEPT ![c] = x]
  BY DEF Forget, Move
<1>2. x \in CallType
  <2>1. call[c] \in CallType
    BY DEF TypeInv
  <2>2. "release" \in Pcs
    BY BoundsAssumption DEF Forget, Pcs, TypeInv
  <2> QED
    BY <2>1, <2>2 DEF CallType
<1>3. /\ x.pc = "release"
      /\ x.channel = call[c].channel
      /\ x.attempt = call[c].attempt
      /\ x.inner = call[c].inner
      /\ x.late = call[c].late
      /\ x.claimed = call[c].claimed
      /\ x.account = call[c].account
      /\ x.seq = call[c].seq
      /\ x.error = call[c].error
  BY DEF TypeInv, CallType
<1> HIDE DEF x
<1>4. call'[c] = x /\ Changed(c)
  BY <1>1, <1>2 DEF TypeInv, Changed
<1> QED
  BY <1>3, <1>4 DEF Forget, CacheSet, Move

LEMMA CacheErrsEffect ==
    ASSUME TypeInv, NEW c \in Calls, CacheErrs(c)
    PROVE  /\ Changed(c)
           /\ call[c].pc \in {"record", "forget"}
           /\ disturbed' = disturbed \cup {"answer"}
           /\ call'[c].pc = "release"
           /\ UNCHANGED <<call[c].channel, call[c].attempt, call[c].inner,
                          call[c].late, call[c].claimed, call[c].account,
                          call[c].seq, call[c].error>>
           /\ UNCHANGED <<idle, waiters, store, chain>>
           /\ faults' \in 0 .. MaxFaults
<1> DEFINE x == [call[c] EXCEPT !.pc = "release"]
<1>1. call' = [call EXCEPT ![c] = x]
  BY DEF CacheErrs, Move
<1>2. x \in CallType
  <2>1. call[c] \in CallType
    BY DEF TypeInv
  <2>2. "release" \in Pcs
    BY BoundsAssumption DEF CacheErrs, Pcs, TypeInv
  <2> QED
    BY <2>1, <2>2 DEF CallType
<1>3. /\ x.pc = "release"
      /\ x.channel = call[c].channel
      /\ x.attempt = call[c].attempt
      /\ x.inner = call[c].inner
      /\ x.late = call[c].late
      /\ x.claimed = call[c].claimed
      /\ x.account = call[c].account
      /\ x.seq = call[c].seq
      /\ x.error = call[c].error
  BY DEF TypeInv, CallType
<1> HIDE DEF x
<1>4. call'[c] = x /\ Changed(c)
  BY <1>1, <1>2 DEF TypeInv, Changed
<1> QED
  BY <1>3, <1>4, FaultCounted DEF CacheErrs, Move

LEMMA ReleaseEffect ==
    ASSUME TypeInv, NEW c \in Calls, Release(c)
    PROVE  /\ Changed(c)
           /\ call[c].pc = "release"
           /\ call'[c].pc = "handoff"
           /\ ~call'[c].claimed
           /\ UNCHANGED <<call[c].channel, call[c].attempt, call[c].inner,
                          call[c].late, call[c].account, call[c].seq,
                          call[c].error>>
           /\ LeaseFreed(c)
           /\ UNCHANGED <<idle, waiters, cached, online, chain, disturbed, faults>>
<1> DEFINE x == [call[c] EXCEPT !.pc = "handoff", !.claimed = FALSE]
<1>1. call' = [call EXCEPT ![c] = x]
  BY DEF Release
<1>2. x \in CallType
  <2>1. call[c] \in CallType
    BY DEF TypeInv
  <2>2. "handoff" \in Pcs
    BY BoundsAssumption DEF Release, Pcs, TypeInv
  <2> QED
    BY <2>1, <2>2 DEF CallType
<1>3. /\ x.pc = "handoff"
      /\ ~x.claimed
      /\ x.channel = call[c].channel
      /\ x.attempt = call[c].attempt
      /\ x.inner = call[c].inner
      /\ x.late = call[c].late
      /\ x.account = call[c].account
      /\ x.seq = call[c].seq
      /\ x.error = call[c].error
  BY DEF TypeInv, CallType
<1> HIDE DEF x
<1>4. call'[c] = x /\ Changed(c)
  BY <1>1, <1>2 DEF TypeInv, Changed
<1> QED
  BY <1>3, <1>4 DEF Release, LeaseFreed

LEMMA ReleaseErrsEffect ==
    ASSUME TypeInv, NEW c \in Calls, ReleaseErrs(c)
    PROVE  /\ Changed(c)
           /\ call[c].pc = "release"
           /\ call'[c].pc = "handoff"
           /\ ~call'[c].claimed
           /\ UNCHANGED <<call[c].channel, call[c].attempt, call[c].inner,
                          call[c].late, call[c].account, call[c].seq,
                          call[c].error>>
           /\ UNCHANGED <<idle, waiters, store, chain, disturbed>>
           /\ faults' \in 0 .. MaxFaults
<1> DEFINE x == [call[c] EXCEPT !.pc = "handoff", !.claimed = FALSE]
<1>1. call' = [call EXCEPT ![c] = x]
  BY DEF ReleaseErrs
<1>2. x \in CallType
  <2>1. call[c] \in CallType
    BY DEF TypeInv
  <2>2. "handoff" \in Pcs
    BY BoundsAssumption DEF ReleaseErrs, Pcs, TypeInv
  <2> QED
    BY <2>1, <2>2 DEF CallType
<1>3. /\ x.pc = "handoff"
      /\ ~x.claimed
      /\ x.channel = call[c].channel
      /\ x.attempt = call[c].attempt
      /\ x.inner = call[c].inner
      /\ x.late = call[c].late
      /\ x.account = call[c].account
      /\ x.seq = call[c].seq
      /\ x.error = call[c].error
  BY DEF TypeInv, CallType
<1> HIDE DEF x
<1>4. call'[c] = x /\ Changed(c)
  BY <1>1, <1>2 DEF TypeInv, Changed
<1> QED
  BY <1>3, <1>4, FaultCounted DEF ReleaseErrs
LEMMA GrantedFields ==
    ASSUME TypeInv, NEW c \in Calls,
           call' = [call EXCEPT ![c].pc = "load", ![c].claimed = TRUE]
    PROVE  /\ Changed(c)
           /\ call'[c].pc = "load"
           /\ call'[c].claimed
           /\ UNCHANGED <<call[c].channel, call[c].attempt, call[c].inner,
                          call[c].late, call[c].account, call[c].seq,
                          call[c].error>>
<1> DEFINE x == [call[c] EXCEPT !.pc = "load", !.claimed = TRUE]
<1>1. call' = [call EXCEPT ![c] = x]
  OBVIOUS
<1>2. x \in CallType
  <2>1. call[c] \in CallType
    BY DEF TypeInv
  <2>2. "load" \in Pcs
    BY DEF Pcs
  <2> QED
    BY <2>1, <2>2 DEF CallType
<1>3. /\ x.pc = "load"
      /\ x.claimed
      /\ x.channel = call[c].channel
      /\ x.attempt = call[c].attempt
      /\ x.inner = call[c].inner
      /\ x.late = call[c].late
      /\ x.account = call[c].account
      /\ x.seq = call[c].seq
      /\ x.error = call[c].error
  BY DEF TypeInv, CallType
<1> HIDE DEF x
<1>4. call'[c] = x /\ Changed(c)
  BY ONLY TypeInv, c \in Calls, <1>1, <1>2 DEF TypeInv, Changed
<1> QED
  BY <1>3, <1>4

LEMMA RefusedFields ==
    ASSUME TypeInv, NEW c \in Calls,
           call' = [call EXCEPT ![c].pc = "acquire", ![c].channel = NoChannel]
    PROVE  /\ Changed(c)
           /\ call'[c].pc = "acquire"
           /\ call'[c].channel = NoChannel
           /\ UNCHANGED <<call[c].attempt, call[c].inner, call[c].late,
                          call[c].claimed, call[c].account, call[c].seq,
                          call[c].error>>
<1> DEFINE x == [call[c] EXCEPT !.pc = "acquire", !.channel = NoChannel]
<1>1. call' = [call EXCEPT ![c] = x]
  OBVIOUS
<1>2. x \in CallType
  <2>1. call[c] \in CallType
    BY DEF TypeInv
  <2>2. "acquire" \in Pcs
    BY DEF Pcs
  <2> QED
    BY <2>1, <2>2 DEF CallType
<1>3. /\ x.pc = "acquire"
      /\ x.channel = NoChannel
      /\ x.attempt = call[c].attempt
      /\ x.inner = call[c].inner
      /\ x.late = call[c].late
      /\ x.claimed = call[c].claimed
      /\ x.account = call[c].account
      /\ x.seq = call[c].seq
      /\ x.error = call[c].error
  BY DEF TypeInv, CallType
<1> HIDE DEF x
<1>4. call'[c] = x /\ Changed(c)
  BY ONLY TypeInv, c \in Calls, <1>1, <1>2 DEF TypeInv, Changed
<1> QED
  BY <1>3, <1>4

LEMMA LoadedFields ==
    ASSUME TypeInv, NEW c \in Calls, NEW n \in Nat,
           call' = [call EXCEPT ![c].pc = "submit", ![c].account = n, ![c].seq = n,
                                ![c].inner = 0],
           0 \in 0 .. MaxInner
    PROVE  /\ Changed(c)
           /\ call'[c].pc = "submit"
           /\ call'[c].account = n
           /\ call'[c].seq = n
           /\ call'[c].inner = 0
           /\ UNCHANGED <<call[c].channel, call[c].attempt, call[c].late,
                          call[c].claimed, call[c].error>>
<1> DEFINE x == [call[c] EXCEPT !.pc = "submit", !.account = n, !.seq = n, !.inner = 0]
<1>1. call' = [call EXCEPT ![c] = x]
  OBVIOUS
<1>2. x \in CallType
  <2>1. call[c] \in CallType
    BY DEF TypeInv
  <2>2. "submit" \in Pcs
    BY DEF Pcs
  <2> QED
    BY <2>1, <2>2 DEF CallType
<1>3. /\ x.pc = "submit"
      /\ x.account = n
      /\ x.seq = n
      /\ x.inner = 0
      /\ x.channel = call[c].channel
      /\ x.attempt = call[c].attempt
      /\ x.late = call[c].late
      /\ x.claimed = call[c].claimed
      /\ x.error = call[c].error
  BY DEF TypeInv, CallType
<1> HIDE DEF x
<1>4. call'[c] = x /\ Changed(c)
  BY ONLY TypeInv, c \in Calls, <1>1, <1>2 DEF TypeInv, Changed
<1> QED
  BY <1>3, <1>4

LEMMA InnerFields ==
    ASSUME TypeInv, NEW c \in Calls,
           call' = [call EXCEPT ![c].pc = "reload", ![c].inner = @ + 1],
           call[c].inner + 1 \in 0 .. MaxInner
    PROVE  /\ Changed(c)
           /\ call'[c].pc = "reload"
           /\ call'[c].inner = call[c].inner + 1
           /\ UNCHANGED <<call[c].channel, call[c].attempt, call[c].late,
                          call[c].claimed, call[c].account, call[c].seq,
                          call[c].error>>
<1> DEFINE x == [call[c] EXCEPT !.pc = "reload", !.inner = call[c].inner + 1]
<1>1. call' = [call EXCEPT ![c] = x]
  OBVIOUS
<1>2. x \in CallType
  <2>1. call[c] \in CallType
    BY DEF TypeInv
  <2>2. "reload" \in Pcs
    BY DEF Pcs
  <2> QED
    BY <2>1, <2>2 DEF CallType
<1>3. /\ x.pc = "reload"
      /\ x.inner = call[c].inner + 1
      /\ x.channel = call[c].channel
      /\ x.attempt = call[c].attempt
      /\ x.late = call[c].late
      /\ x.claimed = call[c].claimed
      /\ x.account = call[c].account
      /\ x.seq = call[c].seq
      /\ x.error = call[c].error
  BY DEF TypeInv, CallType
<1> HIDE DEF x
<1>4. call'[c] = x /\ Changed(c)
  BY ONLY TypeInv, c \in Calls, <1>1, <1>2 DEF TypeInv, Changed
<1> QED
  BY <1>3, <1>4

LEMMA LeaveFields ==
    ASSUME TypeInv, NEW c \in Calls, NEW l \in Pcs,
           NEW e \in {"none", "bad_seq", "other", "unknown"}, Leave(c, l, e)
    PROVE  /\ Changed(c)
           /\ call'[c].pc = l
           /\ call'[c].error = e
           /\ UNCHANGED <<call[c].channel, call[c].attempt, call[c].inner,
                          call[c].late, call[c].claimed, call[c].account,
                          call[c].seq>>
<1> DEFINE x == [call[c] EXCEPT !.pc = l, !.error = e]
<1>1. call' = [call EXCEPT ![c] = x]
  BY DEF Leave
<1>2. x \in CallType
  <2>1. call[c] \in CallType
    BY DEF TypeInv
  <2>2. l \in Pcs
    BY DEF Pcs
  <2> QED
    BY <2>1, <2>2 DEF CallType
<1>3. /\ x.pc = l
      /\ x.error = e
      /\ x.channel = call[c].channel
      /\ x.attempt = call[c].attempt
      /\ x.inner = call[c].inner
      /\ x.late = call[c].late
      /\ x.claimed = call[c].claimed
      /\ x.account = call[c].account
      /\ x.seq = call[c].seq
  BY DEF TypeInv, CallType
<1> HIDE DEF x
<1>4. call'[c] = x /\ Changed(c)
  BY ONLY TypeInv, c \in Calls, <1>1, <1>2 DEF TypeInv, Changed
<1> QED
  BY <1>3, <1>4

LEMMA ClaimEffect ==
    ASSUME TypeInv, NEW c \in Calls, Claim(c)
    PROVE  /\ Changed(c)
           /\ call[c].pc = "claim"
           /\ \/ /\ call'[c].pc = "load"
                 /\ call'[c].claimed
                 /\ UNCHANGED <<call[c].channel, call[c].attempt, call[c].inner,
                                call[c].late, call[c].account, call[c].seq,
                                call[c].error>>
                 /\ lease[StoreOf(Home[c])][call[c].channel] = Free
                 /\ LeaseSet(c, StoreOf(Home[c]), Token(c))
                 /\ UNCHANGED idle
              \/ /\ call'[c].pc = "acquire"
                 /\ call'[c].channel = NoChannel
                 /\ UNCHANGED <<call[c].attempt, call[c].inner, call[c].late,
                                call[c].claimed, call[c].account, call[c].seq,
                                call[c].error>>
                 /\ PutBack(Home[c], call[c].channel)
                 /\ UNCHANGED lease
           /\ UNCHANGED <<waiters, cached, online, chain, disturbed, faults>>
<1>1. CASE lease[StoreOf(Home[c])][call[c].channel] = Free
  <2>1. call' = [call EXCEPT ![c].pc = "load", ![c].claimed = TRUE]
    BY <1>1 DEF Claim
  <2> QED
    BY <1>1, <2>1, GrantedFields DEF Claim, LeaseSet
<1>2. CASE lease[StoreOf(Home[c])][call[c].channel] # Free
  <2>1. call' = [call EXCEPT ![c].pc = "acquire", ![c].channel = NoChannel]
    BY <1>2 DEF Claim
  <2> QED
    BY <1>2, <2>1, RefusedFields DEF Claim, LeaseSet
<1> QED
  BY <1>1, <1>2

LEMMA ClaimErrsEffect ==
    ASSUME TypeInv, NEW c \in Calls, ClaimErrs(c)
    PROVE  /\ Changed(c)
           /\ call[c].pc = "claim" /\ online
           /\ call'[c].pc = "acquire"
           /\ call'[c].channel = NoChannel
           /\ UNCHANGED <<call[c].attempt, call[c].inner, call[c].late,
                          call[c].claimed, call[c].account, call[c].seq,
                          call[c].error>>
           /\ PutBack(Home[c], call[c].channel)
           /\ \/ /\ lease["redis"][call[c].channel] = Free
                 /\ LeaseSet(c, "redis", Token(c))
              \/ UNCHANGED lease
           /\ UNCHANGED <<waiters, cached, online, chain, disturbed>>
           /\ faults' \in 0 .. MaxFaults
<1>1. call' = [call EXCEPT ![c].pc = "acquire", ![c].channel = NoChannel]
  BY DEF ClaimErrs
<1> QED
  BY <1>1, RefusedFields, FaultCounted DEF ClaimErrs, LeaseSet

\* The number loadSequence starts from.
Start(c) ==
    IF call[c].pc = "load"
    THEN cached[StoreOf(Home[c])][call[c].channel]
    ELSE ledger[call[c].channel]

LEMMA StoreExists == ASSUME NEW c \in Calls PROVE StoreOf(Home[c]) \in Stores
BY HomeAssumption DEF StoreOf, Stores

LEMMA LoadEffect ==
    ASSUME TypeInv, PlaceInv, NEW c \in Calls, Load(c) \/ Ask(c)
    PROVE  /\ Changed(c)
           /\ call[c].pc \in {"load", "ask"}
           /\ call[c].pc = "load" => Start(c) # 0
           /\ Start(c) \in Nat
           /\ call'[c].pc = "submit"
           /\ call'[c].account = Start(c)
           /\ call'[c].seq = Start(c)
           /\ call'[c].inner = 0
           /\ UNCHANGED <<call[c].channel, call[c].attempt, call[c].late,
                          call[c].claimed, call[c].error>>
           /\ UNCHANGED <<idle, waiters, store, chain, disturbed, faults>>
<1>1. call[c].pc \in {"load", "ask"}
  BY DEF Load, Ask
<1>2. call[c].channel \in Channels
  BY <1>1, HasChannel
<1>3. Start(c) \in Nat
  BY <1>2, StoreExists DEF Start, TypeInv, StoresType, ChainType
<1>4. BuildOn(c, Start(c)) /\ (call[c].pc = "load" => Start(c) # 0)
  BY DEF Load, Ask, Start
<1>5. 0 \in 0 .. MaxInner
  BY BoundsAssumption
<1>6. UNCHANGED <<idle, waiters, store, chain, disturbed, faults>>
  BY DEF Load, Ask
<1> QED
  BY <1>1, <1>3, <1>4, <1>5, <1>6, LoadedFields DEF BuildOn

LEMMA BadSequenceEffect ==
    ASSUME TypeInv, NEW c \in Calls, BadSequence(c)
    PROVE  /\ Changed(c)
           /\ call[c].pc = "submit"
           /\ call[c].seq + 1 # ledger[call[c].channel] + 1
           /\ \/ /\ call'[c].pc = "reload"
                 /\ call'[c].inner = call[c].inner + 1
                 /\ UNCHANGED <<call[c].channel, call[c].attempt, call[c].late,
                                call[c].claimed, call[c].account, call[c].seq,
                                call[c].error>>
              \/ /\ call'[c].pc = "forget"
                 /\ call'[c].error = "bad_seq"
                 /\ UNCHANGED <<call[c].channel, call[c].attempt, call[c].inner,
                                call[c].late, call[c].claimed, call[c].account,
                                call[c].seq>>
           /\ UNCHANGED <<idle, waiters, store, ledger, inflight, effect, disturbed,
                          faults>>
<1>1. CASE call[c].inner < MaxInner
  <2>1. call' = [call EXCEPT ![c].pc = "reload", ![c].inner = @ + 1]
    BY <1>1 DEF BadSequence
  <2>2. call[c].inner \in 0 .. MaxInner
    BY DEF TypeInv, CallType
  <2>3. call[c].inner + 1 \in 0 .. MaxInner
    BY <1>1, <2>2, BoundsAssumption
  <2> QED
    BY <2>1, <2>3, InnerFields DEF BadSequence, Fits
<1>2. CASE ~(call[c].inner < MaxInner)
  <2>1. Leave(c, "forget", "bad_seq") /\ "forget" \in Pcs
    BY <1>2 DEF BadSequence, Pcs
  <2> QED
    BY <2>1, LeaveFields DEF BadSequence, Fits
<1> QED
  BY <1>1, <1>2

LEMMA BuildFailsEffect ==
    ASSUME TypeInv, NEW c \in Calls, BuildFails(c)
    PROVE  /\ Changed(c)
           /\ call[c].pc \in {"submit", "reload"}
           /\ call'[c].pc \in {"release", "forget"}
           /\ call'[c].error = "other"
           /\ UNCHANGED <<call[c].channel, call[c].attempt, call[c].inner,
                          call[c].late, call[c].claimed, call[c].account,
                          call[c].seq>>
           /\ UNCHANGED <<idle, waiters, store, chain, disturbed>>
           /\ faults' \in 0 .. MaxFaults
<1>1. \E l \in {"release", "forget"} : Leave(c, l, "other")
  BY DEF BuildFails
<1>2. "release" \in Pcs /\ "forget" \in Pcs
  BY DEF Pcs
<1> QED
  BY <1>1, <1>2, LeaveFields, FaultCounted DEF BuildFails

LEMMA NewCallFields ==
    /\ NewCall \in CallType
    /\ NewCall.pc = "acquire" /\ NewCall.channel = NoChannel
    /\ ~NewCall.claimed /\ NewCall.error = "none"
BY BoundsAssumption DEF NewCall, CallType, Pcs

\* Where HandOff leaves its call: it starts again, or it is over.
LEMMA EndedFields ==
    ASSUME TypeInv, NEW c \in Calls
    PROVE  /\ Ended(c) \in CallType
           /\ Ended(c).channel = NoChannel /\ ~Ended(c).claimed
           /\ \/ /\ call[c].error = "bad_seq"
                 /\ Ended(c).pc = "acquire" /\ Ended(c).error = "none"
              \/ call[c].error = "none" /\ Ended(c).pc = "ok" /\ Ended(c).error = "none"
              \/ /\ call[c].error # "none"
                 /\ Ended(c).pc = "failed" /\ Ended(c).error = call[c].error
<1>1. /\ call[c].attempt \in 1 .. MaxAttempts
      /\ call[c].error \in {"none", "bad_seq", "other", "unknown"}
  BY DEF TypeInv, CallType
<1>2. /\ NewCall \in CallType
      /\ NewCall.pc = "acquire" /\ NewCall.channel = NoChannel
      /\ ~NewCall.claimed /\ NewCall.error = "none"
  BY NewCallFields
<1>3. CASE call[c].error = "bad_seq" /\ call[c].attempt < MaxAttempts
  <2> DEFINE x == [NewCall EXCEPT !.attempt = call[c].attempt + 1]
  <2>1. call[c].attempt + 1 \in 1 .. MaxAttempts
    BY <1>1, <1>3, BoundsAssumption
  <2>2. x \in CallType /\ x.pc = "acquire" /\ x.channel = NoChannel
        /\ ~x.claimed /\ x.error = "none"
    BY ONLY <1>2, <2>1 DEF CallType
  <2>3. Ended(c) = x
    BY <1>3 DEF Ended
  <2> QED
    BY <1>3, <2>2, <2>3
<1>4. CASE ~(call[c].error = "bad_seq" /\ call[c].attempt < MaxAttempts)
  <2> DEFINE l == IF call[c].error = "none" THEN "ok" ELSE "failed"
             e == call[c].error
             x == [NewCall EXCEPT !.pc = l, !.error = e]
  <2>1. l \in Pcs
    BY DEF Pcs
  <2>2. e \in {"none", "bad_seq", "other", "unknown"}
    BY <1>1
  <2>3. Ended(c) = x
    BY <1>4 DEF Ended
  <2>4. l = IF e = "none" THEN "ok" ELSE "failed"
    OBVIOUS
  <2> HIDE DEF l, e
  <2>5. x \in CallType /\ x.pc = l /\ x.channel = NoChannel
        /\ ~x.claimed /\ x.error = e
    BY ONLY <1>2, <2>1, <2>2 DEF CallType
  <2> QED
    BY <2>3, <2>4, <2>5 DEF e
<1> QED
  BY <1>3, <1>4

\* The first in a queue is a call of the replica that waits.
LEMMA FirstWaiter ==
    ASSUME TypeInv, WaitersInv, NEW p \in Replicas, waiters[p] # <<>>
    PROVE  /\ Head(waiters[p]) \in Calls
           /\ Home[Head(waiters[p])] = p
           /\ call[Head(waiters[p])].pc = "waiting"
<1>1. waiters[p] \in Seq(Calls)
  BY DEF TypeInv, QueuesType
<1>2. 1 \in 1 .. Len(waiters[p]) /\ Head(waiters[p]) = waiters[p][1]
  BY <1>1, EmptySeq, HeadTailProperties
<1> QED
  BY <1>1, <1>2, ElementOfSeq DEF WaitersInv

LEMMA HandOffEffect ==
    ASSUME TypeInv, WaitersInv, NEW c \in Calls, HandOff(c)
    PROVE  /\ call[c].pc = "handoff"
           /\ call' \in [Calls -> CallType]
           /\ call'[c] = Ended(c)
           /\ \/ /\ waiters[Home[c]] # <<>>
                 /\ \E w \in Calls :
                      /\ w = Head(waiters[Home[c]]) /\ w # c
                      /\ Home[w] = Home[c] /\ call[w].pc = "waiting"
                      /\ call'[w].pc = "claim"
                      /\ call'[w].channel = call[c].channel
                      /\ UNCHANGED <<call[w].attempt, call[w].inner, call[w].late,
                                     call[w].claimed, call[w].account, call[w].seq,
                                     call[w].error>>
                      /\ \A d \in Calls : d \notin {c, w} => call'[d] = call[d]
                 /\ waiters' = [waiters EXCEPT ![Home[c]] = Tail(@)]
                 /\ UNCHANGED idle
              \/ /\ waiters[Home[c]] = <<>>
                 /\ Changed(c)
                 /\ idle' = [idle EXCEPT ![Home[c]] = Append(@, call[c].channel)]
                 /\ UNCHANGED waiters
           /\ UNCHANGED <<store, chain, disturbed, faults>>
<1> DEFINE p == Home[c]
           w == Head(waiters[p])
           y == [call[w] EXCEPT !.pc = "claim", !.channel = call[c].channel]
<1>1. call[c].pc = "handoff" /\ p \in Replicas
  BY HomeAssumption DEF HandOff
<1>2. Ended(c) \in CallType
  BY EndedFields
<1>3. CASE waiters[p] # <<>>
  <2>1. w \in Calls /\ Home[w] = p /\ call[w].pc = "waiting" /\ w # c
    BY <1>1, <1>3, FirstWaiter
  <2>2. call' = [[call EXCEPT ![c] = Ended(c)] EXCEPT ![w] = y]
    <3>1. call' = [call EXCEPT ![c] = Ended(c),
                      ![w] = IF @.pc = "waiting"
                             THEN [@ EXCEPT !.pc = "claim", !.channel = call[c].channel]
                             ELSE @]
      BY <1>3 DEF HandOff
    <3>2. [call EXCEPT ![c] = Ended(c)][w] = call[w]
      BY <2>1 DEF TypeInv
    <3> HIDE DEF w
    <3> QED
      BY <2>1, <3>1, <3>2
  <2>3. y \in CallType
    <3>1. call[w] \in CallType /\ call[c].channel \in Channels \cup {NoChannel}
      BY <2>1 DEF TypeInv, CallType
    <3>2. "claim" \in Pcs
      BY DEF Pcs
    <3> HIDE DEF w
    <3> QED
      BY <3>1, <3>2 DEF CallType
  <2>4. /\ y.pc = "claim" /\ y.channel = call[c].channel
        /\ y.attempt = call[w].attempt /\ y.inner = call[w].inner
        /\ y.late = call[w].late /\ y.claimed = call[w].claimed
        /\ y.account = call[w].account /\ y.seq = call[w].seq
        /\ y.error = call[w].error
    <3>1. call[w] \in CallType
      BY <2>1 DEF TypeInv
    <3> HIDE DEF w
    <3> QED
      BY <3>1 DEF CallType
  <2> HIDE DEF y, w
  <2>5. /\ call' \in [Calls -> CallType] /\ call'[c] = Ended(c) /\ call'[w] = y
        /\ \A d \in Calls : d \notin {c, w} => call'[d] = call[d]
    BY <1>2, <2>1, <2>2, <2>3 DEF TypeInv
  <2>6. /\ waiters' = [waiters EXCEPT ![Home[c]] = Tail(@)]
        /\ UNCHANGED <<idle, store, chain, disturbed, faults>>
    BY <1>3 DEF HandOff
  <2> QED
    BY <1>1, <1>3, <2>1, <2>4, <2>5, <2>6 DEF w
<1>4. CASE waiters[p] = <<>>
  <2>1. call' = [call EXCEPT ![c] = Ended(c)]
    BY <1>4 DEF HandOff
  <2>2. call'[c] = Ended(c) /\ Changed(c)
    BY <1>2, <2>1 DEF TypeInv, Changed
  <2> QED
    BY <1>1, <1>4, <2>2 DEF HandOff, Changed
<1> QED
  BY <1>3, <1>4

\* A crash ends the calls of its replica that were not over.
LEMMA CrashEffect ==
    ASSUME TypeInv, NEW p \in Replicas, Crash(p)
    PROVE  /\ call' \in [Calls -> CallType]
           /\ \A c \in Calls :
                \/ /\ Home[c] = p /\ Busy(c)
                   /\ call'[c].pc = "failed" /\ call'[c].channel = NoChannel
                   /\ ~call'[c].claimed /\ call'[c].error = "unknown"
                \/ ~(Home[c] = p /\ Busy(c)) /\ call'[c] = call[c]
           /\ waiters' = [waiters EXCEPT ![p] = <<>>]
           /\ lease' = [lease EXCEPT ![p] = [ch \in Channels |-> Free]]
           /\ cached' = [cached EXCEPT ![p] = [ch \in Channels |-> 0]]
           /\ disturbed' = disturbed \cup {"answer"}
           /\ UNCHANGED <<online, chain>>
           /\ faults' \in 0 .. MaxFaults
<1> DEFINE x == [NewCall EXCEPT !.pc = "failed", !.error = "unknown"]
<1>1. /\ x \in CallType /\ x.pc = "failed" /\ x.channel = NoChannel
      /\ ~x.claimed /\ x.error = "unknown"
  <2>1. "failed" \in Pcs
    BY DEF Pcs
  <2> QED
    BY ONLY <2>1, NewCallFields DEF CallType
<1>2. call' = [c \in Calls |-> IF Home[c] = p /\ Busy(c) THEN x ELSE call[c]]
  BY DEF Crash
<1> HIDE DEF x
<1>3. call' \in [Calls -> CallType]
  BY <1>1, <1>2 DEF TypeInv
<1>4. \A c \in Calls : call'[c] = IF Home[c] = p /\ Busy(c) THEN x ELSE call[c]
  BY <1>2
<1>5. /\ waiters' = [waiters EXCEPT ![p] = <<>>]
      /\ lease' = [lease EXCEPT ![p] = [ch \in Channels |-> Free]]
      /\ cached' = [cached EXCEPT ![p] = [ch \in Channels |-> 0]]
      /\ disturbed' = disturbed \cup {"answer"}
      /\ UNCHANGED <<online, chain>>
      /\ Fault
  BY DEF Crash
<1>6. faults' \in 0 .. MaxFaults
  BY <1>5, FaultCounted
<1> QED
  BY ONLY <1>1, <1>3, <1>4, <1>5, <1>6

----------------------------------------------------------------------------
(* Where a call is *)

LEMMA PlaceInit == Init => PlaceInv
BY NamesAssumption, NewCallFields DEF Init, PlaceInv, Submitting

LEMMA PlaceStep ==
    TypeInv /\ PlaceInv /\ WaitersInv /\ [Next]_vars => PlaceInv'
<1> SUFFICES ASSUME TypeInv, PlaceInv, WaitersInv, [Next]_vars
             PROVE  PlaceInv'
  OBVIOUS
<1> USE NamesAssumption
<1>1. ASSUME NEW c \in Calls, TakeIdle(c)
      PROVE  PlaceInv'
  BY <1>1, TakeIdleEffect, HeadIdle, HomeAssumption
  DEF Changed, PlaceInv, Submitting
<1>2. ASSUME NEW c \in Calls, Wait(c)
      PROVE  PlaceInv'
  BY <1>2, WaitEffect
  DEF Changed, PlaceInv, Submitting
<1>3. ASSUME NEW c \in Calls, WaiterTimesOut(c)
      PROVE  PlaceInv'
  BY <1>3, WaiterTimesOutEffect
  DEF Changed, PlaceInv, Submitting
<1>4. ASSUME NEW c \in Calls, GiveUp(c)
      PROVE  PlaceInv'
  BY <1>4, GiveUpEffect
  DEF Changed, PlaceInv, Submitting
<1>5. ASSUME NEW c \in Calls, Claim(c)
      PROVE  PlaceInv'
  BY <1>5, ClaimEffect
  DEF Changed, PlaceInv, Submitting
<1>6. ASSUME NEW c \in Calls, ClaimErrs(c)
      PROVE  PlaceInv'
  BY <1>6, ClaimErrsEffect
  DEF Changed, PlaceInv, Submitting
<1>7. ASSUME NEW c \in Calls, Load(c) \/ Ask(c)
      PROVE  PlaceInv'
  BY <1>7, LoadEffect
  DEF Changed, PlaceInv, Submitting
<1>7a. ASSUME NEW c \in Calls, LoadMisses(c) \/ LoadErrs(c)
       PROVE  PlaceInv'
  BY <1>7a, LoadMissesEffect, LoadErrsEffect
  DEF Changed, PlaceInv, Submitting
<1>8. ASSUME NEW c \in Calls, AskFails(c)
      PROVE  PlaceInv'
  BY <1>8, AskFailsEffect
  DEF Changed, PlaceInv, Submitting
<1>9. ASSUME NEW c \in Calls, Submit(c)
      PROVE  PlaceInv'
  BY <1>9, SubmitEffect
  DEF Changed, PlaceInv, Submitting
<1>10. ASSUME NEW c \in Calls, PaymentFails(c)
       PROVE  PlaceInv'
  BY <1>10, PaymentFailsEffect
  DEF Changed, PlaceInv, Submitting
<1>11. ASSUME NEW c \in Calls, AnswerLost(c)
       PROVE  PlaceInv'
  BY <1>11, AnswerLostEffect
  DEF Changed, PlaceInv, Submitting
<1>12. ASSUME NEW c \in Calls, BadSequence(c)
       PROVE  PlaceInv'
  BY <1>12, BadSequenceEffect
  DEF Changed, PlaceInv, Submitting
<1>13. ASSUME NEW c \in Calls, Reload(c)
       PROVE  PlaceInv'
  BY <1>13, ReloadEffect
  DEF Changed, PlaceInv, Submitting
<1>14. ASSUME NEW c \in Calls, BuildFails(c)
       PROVE  PlaceInv'
  BY <1>14, BuildFailsEffect
  DEF Changed, PlaceInv, Submitting
<1>15. ASSUME NEW c \in Calls, Record(c)
       PROVE  PlaceInv'
  BY <1>15, RecordEffect
  DEF Changed, PlaceInv, Submitting
<1>16. ASSUME NEW c \in Calls, Forget(c)
       PROVE  PlaceInv'
  BY <1>16, ForgetEffect
  DEF Changed, PlaceInv, Submitting
<1>17. ASSUME NEW c \in Calls, CacheErrs(c)
       PROVE  PlaceInv'
  BY <1>17, CacheErrsEffect
  DEF Changed, PlaceInv, Submitting
<1>18. ASSUME NEW c \in Calls, Release(c)
       PROVE  PlaceInv'
  BY <1>18, ReleaseEffect
  DEF Changed, PlaceInv, Submitting
<1>19. ASSUME NEW c \in Calls, ReleaseErrs(c)
       PROVE  PlaceInv'
  BY <1>19, ReleaseErrsEffect
  DEF Changed, PlaceInv, Submitting
<1>20. ASSUME NEW c \in Calls, HandOff(c)
       PROVE  PlaceInv'
  BY <1>20, HandOffEffect, EndedFields, HasChannel
  DEF Changed, PlaceInv, Submitting
<1>21. ASSUME NEW s \in Stores, NEW ch \in Channels, Expire(s, ch)
       PROVE  PlaceInv'
  BY <1>21
  DEF Expire, Uses, Token, PlaceInv, Submitting
<1>22. ASSUME NEW p \in Replicas, Crash(p)
       PROVE  PlaceInv'
  BY <1>22, CrashEffect
  DEF Changed, Busy, PlaceInv, Submitting
<1>23. CASE Land
  BY <1>23
  DEF Land, Fits, Consume, TakesEffect, PlaceInv, Submitting
<1>24. CASE GoOffline
  BY <1>24
  DEF GoOffline, PlaceInv, Submitting
<1>25. CASE GoOnline
  BY <1>25
  DEF GoOnline, PlaceInv, Submitting
<1>26. CASE UNCHANGED vars
  BY <1>26
  DEF vars, store, chain, PlaceInv, Submitting
<1> QED
  BY <1>1, <1>2, <1>3, <1>4, <1>5, <1>6, <1>7, <1>7a, <1>8, <1>9, <1>10, <1>11, <1>12,
      <1>13, <1>14, <1>15, <1>16, <1>17, <1>18, <1>19, <1>20, <1>21, <1>22,
      <1>23, <1>24, <1>25, <1>26
  DEF Next, Acquiring, Working, Failing

----------------------------------------------------------------------------
(* The payments *)

LEMMA PaymentInit == Init => PaymentInv /\ InflightInv
BY NewCallFields DEF Init, PaymentInv, InflightInv

LEMMA PaymentStep ==
    TypeInv /\ PlaceInv /\ WaitersInv /\ PaymentInv /\ InflightInv /\ [Next]_vars => PaymentInv'
<1> SUFFICES ASSUME TypeInv, PlaceInv, WaitersInv, PaymentInv, InflightInv,
    [Next]_vars
             PROVE  PaymentInv'
  OBVIOUS
<1>e. effect \in [Calls -> Nat] /\ \A t \in inflight : t.by \in Calls
  BY DEF TypeInv, ChainType
<1>1. ASSUME NEW c \in Calls, TakeIdle(c)
      PROVE  PaymentInv'
  BY <1>1, TakeIdleEffect, <1>e
  DEF Changed, chain, PaymentInv
<1>2. ASSUME NEW c \in Calls, Wait(c)
      PROVE  PaymentInv'
  BY <1>2, WaitEffect, <1>e
  DEF Changed, chain, PaymentInv
<1>3. ASSUME NEW c \in Calls, WaiterTimesOut(c)
      PROVE  PaymentInv'
  BY <1>3, WaiterTimesOutEffect, <1>e
  DEF Changed, chain, PaymentInv
<1>4. ASSUME NEW c \in Calls, GiveUp(c)
      PROVE  PaymentInv'
  BY <1>4, GiveUpEffect, <1>e
  DEF Changed, chain, PaymentInv
<1>5. ASSUME NEW c \in Calls, Claim(c)
      PROVE  PaymentInv'
  BY <1>5, ClaimEffect, <1>e
  DEF Changed, chain, PaymentInv
<1>6. ASSUME NEW c \in Calls, ClaimErrs(c)
      PROVE  PaymentInv'
  BY <1>6, ClaimErrsEffect, <1>e
  DEF Changed, chain, PaymentInv
<1>7. ASSUME NEW c \in Calls, Load(c) \/ Ask(c)
      PROVE  PaymentInv'
  BY <1>7, LoadEffect, <1>e
  DEF Changed, chain, PaymentInv
<1>7a. ASSUME NEW c \in Calls, LoadMisses(c) \/ LoadErrs(c)
       PROVE  PaymentInv'
  BY <1>7a, LoadMissesEffect, LoadErrsEffect, <1>e
  DEF Changed, chain, PaymentInv
<1>8. ASSUME NEW c \in Calls, AskFails(c)
      PROVE  PaymentInv'
  BY <1>8, AskFailsEffect, <1>e
  DEF Changed, chain, PaymentInv
<1>9. ASSUME NEW c \in Calls, Submit(c)
      PROVE  PaymentInv'
  BY <1>9, SubmitEffect, <1>e
  DEF Changed, chain, PaymentInv
<1>10. ASSUME NEW c \in Calls, PaymentFails(c)
       PROVE  PaymentInv'
  BY <1>10, PaymentFailsEffect, <1>e
  DEF Changed, chain, PaymentInv
<1>11. ASSUME NEW c \in Calls, AnswerLost(c)
       PROVE  PaymentInv'
  BY <1>11, AnswerLostEffect, <1>e
  DEF Changed, chain, PaymentInv
<1>12. ASSUME NEW c \in Calls, BadSequence(c)
       PROVE  PaymentInv'
  BY <1>12, BadSequenceEffect, <1>e
  DEF Changed, chain, PaymentInv
<1>13. ASSUME NEW c \in Calls, Reload(c)
       PROVE  PaymentInv'
  BY <1>13, ReloadEffect, <1>e
  DEF Changed, chain, PaymentInv
<1>14. ASSUME NEW c \in Calls, BuildFails(c)
       PROVE  PaymentInv'
  BY <1>14, BuildFailsEffect, <1>e
  DEF Changed, chain, PaymentInv
<1>15. ASSUME NEW c \in Calls, Record(c)
       PROVE  PaymentInv'
  BY <1>15, RecordEffect, <1>e
  DEF Changed, chain, PaymentInv
<1>16. ASSUME NEW c \in Calls, Forget(c)
       PROVE  PaymentInv'
  BY <1>16, ForgetEffect, <1>e
  DEF Changed, chain, PaymentInv
<1>17. ASSUME NEW c \in Calls, CacheErrs(c)
       PROVE  PaymentInv'
  BY <1>17, CacheErrsEffect, <1>e
  DEF Changed, chain, PaymentInv
<1>18. ASSUME NEW c \in Calls, Release(c)
       PROVE  PaymentInv'
  BY <1>18, ReleaseEffect, <1>e
  DEF Changed, chain, PaymentInv
<1>19. ASSUME NEW c \in Calls, ReleaseErrs(c)
       PROVE  PaymentInv'
  BY <1>19, ReleaseErrsEffect, <1>e
  DEF Changed, chain, PaymentInv
<1>20. ASSUME NEW c \in Calls, HandOff(c)
       PROVE  PaymentInv'
  BY <1>20, HandOffEffect, <1>e, EndedFields
  DEF Changed, chain, PaymentInv
<1>21. ASSUME NEW s \in Stores, NEW ch \in Channels, Expire(s, ch)
       PROVE  PaymentInv'
  BY <1>21, <1>e
  DEF Expire, Uses, Token, chain, PaymentInv
<1>22. ASSUME NEW p \in Replicas, Crash(p)
       PROVE  PaymentInv'
  BY <1>22, CrashEffect, <1>e
  DEF Changed, chain, Busy, PaymentInv
<1>23. CASE Land
  <2>1. PICK t \in inflight :
           /\ inflight' = inflight \ {t}
           /\ UNCHANGED effect \/ effect' = [effect EXCEPT ![t.by] = @ + 1]
           /\ UNCHANGED call
    BY <1>23 DEF Land, TakesEffect
  <2> QED
    BY <1>e, <2>1 DEF PaymentInv, InflightInv
<1>24. CASE GoOffline
  BY <1>24, <1>e
  DEF GoOffline, chain, PaymentInv
<1>25. CASE GoOnline
  BY <1>25, <1>e
  DEF GoOnline, chain, PaymentInv
<1>26. CASE UNCHANGED vars
  BY <1>26, <1>e
  DEF vars, store, chain, PaymentInv
<1> QED
  BY <1>1, <1>2, <1>3, <1>4, <1>5, <1>6, <1>7, <1>7a, <1>8, <1>9, <1>10, <1>11, <1>12,
      <1>13, <1>14, <1>15, <1>16, <1>17, <1>18, <1>19, <1>20, <1>21, <1>22,
      <1>23, <1>24, <1>25, <1>26
  DEF Next, Acquiring, Working, Failing

LEMMA InflightStep ==
    TypeInv /\ PlaceInv /\ WaitersInv /\ PaymentInv /\ InflightInv /\ [Next]_vars => InflightInv'
<1> SUFFICES ASSUME TypeInv, PlaceInv, WaitersInv, PaymentInv, InflightInv,
    [Next]_vars
             PROVE  InflightInv'
  OBVIOUS
<1>e. effect \in [Calls -> Nat] /\ \A t \in inflight : t.by \in Calls
  BY DEF TypeInv, ChainType
<1>1. ASSUME NEW c \in Calls, TakeIdle(c)
      PROVE  InflightInv'
  BY <1>1, TakeIdleEffect, <1>e
  DEF Changed, chain, PaymentInv, InflightInv
<1>2. ASSUME NEW c \in Calls, Wait(c)
      PROVE  InflightInv'
  BY <1>2, WaitEffect, <1>e
  DEF Changed, chain, PaymentInv, InflightInv
<1>3. ASSUME NEW c \in Calls, WaiterTimesOut(c)
      PROVE  InflightInv'
  BY <1>3, WaiterTimesOutEffect, <1>e
  DEF Changed, chain, PaymentInv, InflightInv
<1>4. ASSUME NEW c \in Calls, GiveUp(c)
      PROVE  InflightInv'
  BY <1>4, GiveUpEffect, <1>e
  DEF Changed, chain, PaymentInv, InflightInv
<1>5. ASSUME NEW c \in Calls, Claim(c)
      PROVE  InflightInv'
  BY <1>5, ClaimEffect, <1>e
  DEF Changed, chain, PaymentInv, InflightInv
<1>6. ASSUME NEW c \in Calls, ClaimErrs(c)
      PROVE  InflightInv'
  BY <1>6, ClaimErrsEffect, <1>e
  DEF Changed, chain, PaymentInv, InflightInv
<1>7. ASSUME NEW c \in Calls, Load(c) \/ Ask(c)
      PROVE  InflightInv'
  BY <1>7, LoadEffect, <1>e
  DEF Changed, chain, PaymentInv, InflightInv
<1>7a. ASSUME NEW c \in Calls, LoadMisses(c) \/ LoadErrs(c)
       PROVE  InflightInv'
  BY <1>7a, LoadMissesEffect, LoadErrsEffect, <1>e
  DEF Changed, chain, PaymentInv, InflightInv
<1>8. ASSUME NEW c \in Calls, AskFails(c)
      PROVE  InflightInv'
  BY <1>8, AskFailsEffect, <1>e
  DEF Changed, chain, PaymentInv, InflightInv
<1>9. ASSUME NEW c \in Calls, Submit(c)
      PROVE  InflightInv'
  BY <1>9, SubmitEffect, <1>e
  DEF Changed, chain, PaymentInv, InflightInv
<1>10. ASSUME NEW c \in Calls, PaymentFails(c)
       PROVE  InflightInv'
  BY <1>10, PaymentFailsEffect, <1>e
  DEF Changed, chain, PaymentInv, InflightInv
<1>11. ASSUME NEW c \in Calls, AnswerLost(c)
       PROVE  InflightInv'
  BY <1>11, AnswerLostEffect, <1>e
  DEF Changed, chain, PaymentInv, InflightInv
<1>12. ASSUME NEW c \in Calls, BadSequence(c)
       PROVE  InflightInv'
  BY <1>12, BadSequenceEffect, <1>e
  DEF Changed, chain, PaymentInv, InflightInv
<1>13. ASSUME NEW c \in Calls, Reload(c)
       PROVE  InflightInv'
  BY <1>13, ReloadEffect, <1>e
  DEF Changed, chain, PaymentInv, InflightInv
<1>14. ASSUME NEW c \in Calls, BuildFails(c)
       PROVE  InflightInv'
  BY <1>14, BuildFailsEffect, <1>e
  DEF Changed, chain, PaymentInv, InflightInv
<1>15. ASSUME NEW c \in Calls, Record(c)
       PROVE  InflightInv'
  BY <1>15, RecordEffect, <1>e
  DEF Changed, chain, PaymentInv, InflightInv
<1>16. ASSUME NEW c \in Calls, Forget(c)
       PROVE  InflightInv'
  BY <1>16, ForgetEffect, <1>e
  DEF Changed, chain, PaymentInv, InflightInv
<1>17. ASSUME NEW c \in Calls, CacheErrs(c)
       PROVE  InflightInv'
  BY <1>17, CacheErrsEffect, <1>e
  DEF Changed, chain, PaymentInv, InflightInv
<1>18. ASSUME NEW c \in Calls, Release(c)
       PROVE  InflightInv'
  BY <1>18, ReleaseEffect, <1>e
  DEF Changed, chain, PaymentInv, InflightInv
<1>19. ASSUME NEW c \in Calls, ReleaseErrs(c)
       PROVE  InflightInv'
  BY <1>19, ReleaseErrsEffect, <1>e
  DEF Changed, chain, PaymentInv, InflightInv
<1>20. ASSUME NEW c \in Calls, HandOff(c)
       PROVE  InflightInv'
  BY <1>20, HandOffEffect, <1>e, EndedFields
  DEF Changed, chain, PaymentInv, InflightInv
<1>21. ASSUME NEW s \in Stores, NEW ch \in Channels, Expire(s, ch)
       PROVE  InflightInv'
  BY <1>21, <1>e
  DEF Expire, Uses, Token, chain, PaymentInv, InflightInv
<1>22. ASSUME NEW p \in Replicas, Crash(p)
       PROVE  InflightInv'
  BY <1>22, CrashEffect, <1>e
  DEF Changed, chain, Busy, PaymentInv, InflightInv
<1>23. CASE Land
  <2>1. PICK t \in inflight :
           /\ inflight' = inflight \ {t}
           /\ UNCHANGED effect \/ effect' = [effect EXCEPT ![t.by] = @ + 1]
           /\ UNCHANGED call
    BY <1>23 DEF Land, TakesEffect
  <2> QED
    BY <1>e, <2>1 DEF PaymentInv, InflightInv
<1>24. CASE GoOffline
  BY <1>24, <1>e
  DEF GoOffline, chain, PaymentInv, InflightInv
<1>25. CASE GoOnline
  BY <1>25, <1>e
  DEF GoOnline, chain, PaymentInv, InflightInv
<1>26. CASE UNCHANGED vars
  BY <1>26, <1>e
  DEF vars, store, chain, PaymentInv, InflightInv
<1> QED
  BY <1>1, <1>2, <1>3, <1>4, <1>5, <1>6, <1>7, <1>7a, <1>8, <1>9, <1>10, <1>11, <1>12,
      <1>13, <1>14, <1>15, <1>16, <1>17, <1>18, <1>19, <1>20, <1>21, <1>22,
      <1>23, <1>24, <1>25, <1>26
  DEF Next, Acquiring, Working, Failing

----------------------------------------------------------------------------
(* The lists of a replica *)

\* A sequence without its entry i.
Without(q, i) == SubSeq(q, 1, i - 1) \o SubSeq(q, i + 1, Len(q))

LEMMA WithoutEntry ==
    ASSUME NEW S, NEW q \in Seq(S), NEW i \in 1 .. Len(q)
    PROVE  /\ Without(q, i) \in Seq(S)
           /\ Len(Without(q, i)) = Len(q) - 1
           /\ \A k \in 1 .. Len(q) - 1 :
                 Without(q, i)[k] = q[IF k < i THEN k ELSE k + 1]
<1> DEFINE a == SubSeq(q, 1, i - 1)
           b == SubSeq(q, i + 1, Len(q))
<1>1. Len(q) \in Nat /\ \A k \in 1 .. Len(q) : q[k] \in S
  BY LenProperties, ElementOfSeq
<1>2. /\ a \in Seq(S) /\ Len(a) = i - 1
      /\ \A k \in 1 .. i - 1 : a[k] = q[k]
  <2>1. /\ a \in Seq(S) /\ Len(a) = IF 1 <= i - 1 THEN i - 1 - 1 + 1 ELSE 0
        /\ \A k \in 1 .. i - 1 - 1 + 1 : a[k] = q[1 + k - 1]
    BY <1>1, SubSeqProperties
  <2> HIDE DEF a
  <2> QED
    BY <1>1, <2>1
<1>3. /\ b \in Seq(S) /\ Len(b) = Len(q) - i
      /\ \A k \in 1 .. Len(q) - i : b[k] = q[i + k]
  <2>1. /\ b \in Seq(S) /\ Len(b) = IF i + 1 <= Len(q) THEN Len(q) - (i + 1) + 1 ELSE 0
        /\ \A k \in 1 .. Len(q) - (i + 1) + 1 : b[k] = q[i + 1 + k - 1]
    BY <1>1, SubSeqProperties
  <2> HIDE DEF b
  <2>2. \A k \in 1 .. Len(q) - i : i + 1 + k - 1 = i + k
    BY <1>1
  <2> QED
    BY <1>1, <2>1, <2>2
<1> HIDE DEF a, b
<1>4. /\ a \o b \in Seq(S) /\ Len(a \o b) = Len(a) + Len(b)
      /\ \A k \in 1 .. Len(a) + Len(b) :
            (a \o b)[k] = IF k <= Len(a) THEN a[k] ELSE b[k - Len(a)]
  BY <1>2, <1>3, ConcatProperties
<1>5. Without(q, i) = a \o b
  BY DEF Without, a, b
<1>6. ASSUME NEW k \in 1 .. Len(q) - 1
      PROVE  (a \o b)[k] = q[IF k < i THEN k ELSE k + 1]
  <2>1. CASE k < i
    <3>1. k \in 1 .. i - 1 /\ k \in 1 .. Len(a) + Len(b) /\ k <= Len(a)
      BY <1>1, <1>2, <1>3, <2>1
    <3> QED
      BY <1>2, <1>4, <2>1, <3>1
  <2>2. CASE ~(k < i)
    <3>1. k - Len(a) \in 1 .. Len(q) - i /\ i + (k - Len(a)) = k + 1 /\ ~(k <= Len(a))
      BY <1>1, <1>2, <2>2
    <3>2. (a \o b)[k] = b[k - Len(a)]
      <4>1. k \in 1 .. Len(a) + Len(b)
        BY <1>1, <1>2, <1>3
      <4> QED
        BY <1>4, <3>1, <4>1
    <3> QED
      BY <1>3, <2>2, <3>1, <3>2
  <2> QED
    BY <2>1, <2>2
<1>7. Len(a \o b) = Len(q) - 1
  BY <1>1, <1>2, <1>3, <1>4
<1> DEFINE w == a \o b
<1> HIDE DEF w
<1> QED
  BY <1>4, <1>5, <1>6, <1>7 DEF w

LEMMA AbsentIsNowhere ==
    ASSUME NEW S, NEW q \in Seq(S), NEW x
    PROVE  /\ Places(q, x) = {} <=> Absent(q, x)
           /\ Absent(q, x) => ~Once(q, x)
BY LenProperties DEF Places, Absent, Once

\* Taking the first entry off, and putting one at the end.
LEMMA TailOccurrences ==
    ASSUME NEW S, NEW q \in Seq(S), q # <<>>, NEW x
    PROVE  /\ x # Head(q) => (Once(q, x) => Once(Tail(q), x))
           /\ Absent(q, x) => Absent(Tail(q), x)
           /\ x = Head(q) /\ Once(q, x) => Absent(Tail(q), x)
<1>1. Len(q) \in Nat \ {0} /\ Head(q) = q[1]
  BY EmptySeq, LenProperties
<1>2. /\ Len(Tail(q)) = Len(q) - 1
      /\ \A i \in 1 .. Len(q) - 1 : Tail(q)[i] = q[i + 1]
  BY HeadTailProperties
<1>3. ASSUME x # Head(q), Once(q, x)
      PROVE  Once(Tail(q), x)
  <2>1. PICK i \in 1 .. Len(q) : q[i] = x /\ \A j \in 1 .. Len(q) : q[j] = x => j = i
    BY <1>3 DEF Once
  <2>2. i - 1 \in 1 .. Len(Tail(q)) /\ Tail(q)[i - 1] = x
    BY <1>1, <1>2, <1>3, <2>1
  <2>3. \A j \in 1 .. Len(Tail(q)) : Tail(q)[j] = x => j = i - 1
    BY <1>1, <1>2, <2>1
  <2> QED
    BY <2>2, <2>3 DEF Once
<1>4. Absent(q, x) => Absent(Tail(q), x)
  BY <1>1, <1>2 DEF Absent
<1>5. ASSUME x = Head(q), Once(q, x)
      PROVE  Absent(Tail(q), x)
  <2>1. \A j \in 1 .. Len(q) : q[j] = x => j = 1
    BY <1>1, <1>5 DEF Once
  <2> QED
    BY <1>1, <1>2, <2>1 DEF Absent
<1> QED
  BY <1>3, <1>4, <1>5

LEMMA AppendOccurrences ==
    ASSUME NEW S, NEW q \in Seq(S), NEW y \in S, NEW x
    PROVE  /\ x # y => (Once(q, x) => Once(Append(q, y), x))
           /\ x # y => (Absent(q, x) => Absent(Append(q, y), x))
           /\ x = y /\ Absent(q, x) => Once(Append(q, y), x)
<1>1. Len(q) \in Nat
  BY LenProperties
<1>2. /\ Len(Append(q, y)) = Len(q) + 1 /\ Append(q, y)[Len(q) + 1] = y
      /\ \A i \in 1 .. Len(q) : Append(q, y)[i] = q[i]
  BY AppendProperties
<1>3. \A j \in 1 .. Len(q) + 1 : j \in 1 .. Len(q) \/ j = Len(q) + 1
  BY <1>1
<1> DEFINE a == Append(q, y)
           n == Len(q)
<1> HIDE DEF a, n
<1> QED
  BY <1>1, <1>2, <1>3 DEF Once, Absent

\* What the timer of a waiter does to the queue.
LEMMA WaiterLeaves ==
    ASSUME TypeInv, NEW c \in Calls, WaiterTimesOut(c)
    PROVE  /\ waiters[Home[c]] \in Seq(Calls)
           /\ \E i \in 1 .. Len(waiters[Home[c]]) :
                /\ waiters[Home[c]][i] = c
                /\ waiters' = [waiters EXCEPT ![Home[c]] = Without(waiters[Home[c]], i)]
<1>1. Home[c] \in Replicas
  BY HomeAssumption
<1>2. waiters[Home[c]] \in Seq(Calls)
  BY <1>1 DEF TypeInv, QueuesType
<1>3. DOMAIN waiters[Home[c]] = 1 .. Len(waiters[Home[c]])
  BY <1>2, LenProperties
<1> QED
  BY <1>2, <1>3 DEF WaiterTimesOut, Without

LEMMA PutBackIdle ==
    ASSUME TypeInv, NEW p \in Replicas, NEW ch \in Channels, PutBack(p, ch)
    PROVE  /\ idle' \in [Replicas -> Seq(Channels)]
           /\ \A r \in Replicas : r # p => idle'[r] = idle[r]
           /\ idle'[p] = IF Absent(idle[p], ch) THEN Append(idle[p], ch) ELSE idle[p]
<1>1. idle \in [Replicas -> Seq(Channels)] /\ idle[p] \in Seq(Channels)
  BY DEF TypeInv, QueuesType
<1>2. Places(idle[p], ch) = {} <=> Absent(idle[p], ch)
  BY <1>1, AbsentIsNowhere
<1>3. Append(idle[p], ch) \in Seq(Channels)
  BY <1>1, AppendProperties
<1> QED
  BY <1>1, <1>2, <1>3 DEF PutBack

\* A list of all channels that is no longer than their number has each once.
LEMMA FullList ==
    ASSUME NEW q \in [1 .. Cardinality(Channels) -> Channels],
           \A ch \in Channels : Places(q, ch) # {}
    PROVE  /\ q \in Seq(Channels)
           /\ \A ch \in Channels : Once(q, ch)
<1> DEFINE n == Cardinality(Channels)
<1>1. n \in Nat
  BY ChannelsAssumption, FS_CardinalityType
<1>2. q \in Seq(Channels) /\ Len(q) = n /\ DOMAIN q = 1 .. n
  BY <1>1, SeqDef
<1>3. q \in Surjection(1 .. n, Channels)
  BY <1>2 DEF Surjection, Places
<1>4. IsFiniteSet(1 .. n) /\ Cardinality(1 .. n) = n
  BY <1>1, FS_Interval
<1>5. q \in Injection(1 .. n, Channels)
  BY <1>3, <1>4, FS_SurjSameCardinalityImpliesInj
<1>6. ASSUME NEW ch \in Channels
      PROVE  Once(q, ch)
  <2>1. PICK i \in 1 .. n : q[i] = ch
    BY <1>2 DEF Places
  <2>2. \A j \in 1 .. n : q[j] = ch => j = i
    BY <1>5, <2>1 DEF Injection, IsInjective
  <2> QED
    BY <1>2, <2>1, <2>2 DEF Once
<1> QED
  BY <1>2, <1>6

----------------------------------------------------------------------------
(* Types *)

LEMMA TypeInit == Init => TypeInv
<1> SUFFICES ASSUME Init PROVE TypeInv
  OBVIOUS
<1>1. call \in [Calls -> CallType]
  BY NewCallFields DEF Init
<1>2. QueuesType
  BY FullList, EmptySeq DEF Init, QueuesType
<1>3. StoresType /\ ChainType /\ FaultsType
  BY BoundsAssumption DEF Init, StoresType, ChainType, FaultsType
<1> QED
  BY <1>1, <1>2, <1>3 DEF TypeInv

\* The steps that leave the lists of a replica alone.
LEMMA ListsKept ==
    ASSUME Next,
           \A c \in Calls : ~Acquiring(c) /\ ~ClaimErrs(c) /\ ~HandOff(c),
           \A p \in Replicas : ~Crash(p)
    PROVE  UNCHANGED <<idle, waiters>>
<1>1. ASSUME NEW c \in Calls, GiveUp(c) \/ Working(c)
      PROVE  UNCHANGED <<idle, waiters>>
  BY <1>1 DEF GiveUp, Working, Load, LoadMisses, Ask, Submit, BadSequence, Reload, Record, Forget, Release
<1>2. ASSUME NEW c \in Calls, Failing(c)
      PROVE  UNCHANGED <<idle, waiters>>
  BY <1>2 DEF Failing, LoadErrs, AskFails, PaymentFails, AnswerLost, BuildFails, CacheErrs, ReleaseErrs
<1>3. ASSUME NEW s \in Stores, NEW ch \in Channels, Expire(s, ch)
      PROVE  UNCHANGED <<idle, waiters>>
  BY <1>3 DEF Expire
<1>4. CASE Land \/ GoOffline \/ GoOnline
  BY <1>4 DEF Land, GoOffline, GoOnline
<1> QED
  BY <1>1, <1>2, <1>3, <1>4 DEF Next

LEMMA QueuesStep ==
    TypeInv /\ PlaceInv /\ WaitersInv /\ [Next]_vars => QueuesType'
<1> SUFFICES ASSUME TypeInv, PlaceInv, WaitersInv, [Next]_vars
             PROVE  QueuesType'
  OBVIOUS
<1>t. /\ idle \in [Replicas -> Seq(Channels)]
      /\ waiters \in [Replicas -> Seq(Calls)]
  BY DEF TypeInv, QueuesType
<1>h. \A c \in Calls : Home[c] \in Replicas
  BY HomeAssumption
<1>1. ASSUME NEW c \in Calls, TakeIdle(c)
      PROVE  QueuesType'
  <2>1. /\ idle' = [idle EXCEPT ![Home[c]] = Tail(idle[Home[c]])]
        /\ UNCHANGED waiters /\ Tail(idle[Home[c]]) \in Seq(Channels)
    BY <1>1, <1>h, HeadIdle DEF TakeIdle
  <2> QED
    BY <1>t, <1>h, <2>1 DEF QueuesType
<1>2. ASSUME NEW c \in Calls, Wait(c)
      PROVE  QueuesType'
  <2>1. /\ waiters' = [waiters EXCEPT ![Home[c]] = Append(waiters[Home[c]], c)]
        /\ UNCHANGED idle
    BY <1>2 DEF Wait
  <2>2. Append(waiters[Home[c]], c) \in Seq(Calls)
    BY <1>t, <1>h, AppendProperties
  <2> QED
    BY <1>t, <1>h, <2>1, <2>2 DEF QueuesType
<1>3. ASSUME NEW c \in Calls, WaiterTimesOut(c)
      PROVE  QueuesType'
  <2>1. PICK i \in 1 .. Len(waiters[Home[c]]) :
           waiters' = [waiters EXCEPT ![Home[c]] = Without(waiters[Home[c]], i)]
    BY <1>3, WaiterLeaves
  <2>2. Without(waiters[Home[c]], i) \in Seq(Calls)
    BY <1>t, <1>h, WithoutEntry
  <2> QED
    BY <1>3, <1>t, <1>h, <2>1, <2>2 DEF WaiterTimesOut, QueuesType
<1>4. ASSUME NEW c \in Calls, Claim(c) \/ ClaimErrs(c)
      PROVE  QueuesType'
  <2>1. call[c].channel \in Channels /\ Home[c] \in Replicas
    BY <1>4, HasChannel, HomeAssumption DEF Claim, ClaimErrs
  <2>2. (UNCHANGED idle \/ PutBack(Home[c], call[c].channel)) /\ UNCHANGED waiters
    BY <1>4 DEF Claim, ClaimErrs
  <2> QED
    BY <1>t, <2>1, <2>2, PutBackIdle DEF QueuesType
<1>5. ASSUME NEW c \in Calls, HandOff(c)
      PROVE  QueuesType'
  <2>1. call[c].channel \in Channels /\ Home[c] \in Replicas
    BY <1>5, HasChannel, HomeAssumption DEF HandOff
  <2>2. CASE waiters[Home[c]] # <<>>
    <3>1. Tail(waiters[Home[c]]) \in Seq(Calls)
      BY <1>t, <2>1, <2>2, HeadTailProperties
    <3>2. /\ waiters' = [waiters EXCEPT ![Home[c]] = Tail(waiters[Home[c]])]
          /\ UNCHANGED idle
      BY <1>5, <2>2 DEF HandOff
    <3> QED
      BY <1>t, <2>1, <3>1, <3>2 DEF QueuesType
  <2>3. CASE waiters[Home[c]] = <<>>
    <3>1. Append(idle[Home[c]], call[c].channel) \in Seq(Channels)
      BY <1>t, <2>1, AppendProperties
    <3>2. /\ idle' = [idle EXCEPT ![Home[c]] = Append(idle[Home[c]], call[c].channel)]
          /\ UNCHANGED waiters
      BY <1>5, <2>3 DEF HandOff
    <3> QED
      BY <1>t, <2>1, <3>1, <3>2 DEF QueuesType
  <2> QED
    BY <2>2, <2>3
<1>6. ASSUME NEW p \in Replicas, Crash(p)
      PROVE  QueuesType'
  BY <1>6, <1>t, FullList, EmptySeq DEF Crash, QueuesType
<1>7. CASE UNCHANGED <<idle, waiters>>
  BY <1>7, <1>t DEF QueuesType
<1> QED
  BY <1>1, <1>2, <1>3, <1>4, <1>5, <1>6, <1>7, ListsKept DEF Acquiring, vars

\* One entry of a table of tables is written.
LEMMA EntryWritten ==
    ASSUME NEW D, NEW R, NEW V, NEW f \in [D -> [R -> V]],
           NEW a \in D, NEW b \in R, NEW v \in V,
           NEW g, g = [f EXCEPT ![a][b] = v]
    PROVE  /\ g \in [D -> [R -> V]]
           /\ \A x \in D, y \in R : g[x][y] = IF x = a /\ y = b THEN v ELSE f[x][y]
<1>1. g = [f EXCEPT ![a] = [f[a] EXCEPT ![b] = v]]
  OBVIOUS
<1>2. [f[a] EXCEPT ![b] = v] \in [R -> V]
  OBVIOUS
<1> QED
  BY <1>1, <1>2

LEMMA CacheWritten ==
    ASSUME TypeInv, NEW c \in Calls, call[c].channel \in Channels,
           NEW n \in Nat, CacheSet(c, n)
    PROVE  /\ cached' \in [Stores -> [Channels -> Nat]]
           /\ \A s \in Stores, ch \in Channels :
                 cached'[s][ch] = IF s = StoreOf(Home[c]) /\ ch = call[c].channel
                                  THEN n ELSE cached[s][ch]
<1>1. cached \in [Stores -> [Channels -> Nat]]
  BY DEF TypeInv, StoresType
<1>2. cached' = [cached EXCEPT ![StoreOf(Home[c])][call[c].channel] = n]
  BY DEF CacheSet
<1>3. StoreOf(Home[c]) \in Stores
  BY StoreExists
<1> DEFINE s == StoreOf(Home[c])
           ch == call[c].channel
<1> HIDE DEF s, ch
<1> QED
  BY <1>1, <1>2, <1>3, EntryWritten

LEMMA LeaseWritten ==
    ASSUME TypeInv, NEW c \in Calls, call[c].channel \in Channels,
           NEW s \in Stores, NEW t \in Tokens \cup {Free}, LeaseSet(c, s, t)
    PROVE  /\ lease' \in [Stores -> [Channels -> Tokens \cup {Free}]]
           /\ \A r \in Stores, ch \in Channels :
                 lease'[r][ch] = IF r = s /\ ch = call[c].channel THEN t ELSE lease[r][ch]
<1>1. lease \in [Stores -> [Channels -> Tokens \cup {Free}]]
  BY DEF TypeInv, StoresType
<1>2. lease' = [lease EXCEPT ![s][call[c].channel] = t]
  BY DEF LeaseSet
<1> QED
  BY <1>1, <1>2, EntryWritten

LEMMA OwnToken ==
    ASSUME TypeInv, NEW c \in Calls
    PROVE  Token(c) \in Tokens /\ Token(c) # Free
BY DEF TypeInv, CallType, Token, Tokens, Free

\* A release writes Free over the caller's own token, and nothing else.
LEMMA LeaseGivenBack ==
    ASSUME TypeInv, NEW c \in Calls, call[c].channel \in Channels, LeaseFreed(c)
    PROVE  /\ lease' \in [Stores -> [Channels -> Tokens \cup {Free}]]
           /\ \A r \in Stores, ch \in Channels :
                 \/ lease'[r][ch] = lease[r][ch]
                 \/ /\ r = StoreOf(Home[c]) /\ ch = call[c].channel
                    /\ lease[r][ch] = Token(c)
<1> DEFINE s == StoreOf(Home[c])
           v == lease[s][call[c].channel]
           t == IF v = Token(c) THEN Free ELSE v
<1>1. lease \in [Stores -> [Channels -> Tokens \cup {Free}]] /\ s \in Stores
  BY StoreExists DEF TypeInv, StoresType
<1>2. lease' = [lease EXCEPT ![s][call[c].channel] = t]
  BY DEF LeaseFreed
<1>3. t \in Tokens \cup {Free}
  BY <1>1
<1>4. t = v \/ v = Token(c)
  OBVIOUS
<1> HIDE DEF t
<1>5. LeaseSet(c, s, t)
  BY <1>2 DEF LeaseSet
<1> HIDE DEF s
<1>6. /\ lease' \in [Stores -> [Channels -> Tokens \cup {Free}]]
      /\ \A r \in Stores, ch \in Channels :
            lease'[r][ch] = IF r = s /\ ch = call[c].channel THEN t ELSE lease[r][ch]
  BY <1>1, <1>3, <1>5, LeaseWritten
<1> QED
  BY <1>4, <1>6 DEF s

\* The steps that leave the stores alone.
LEMMA StoresKept ==
    ASSUME Next,
           \A c \in Calls : ~Claim(c) /\ ~ClaimErrs(c) /\ ~Record(c) /\ ~Forget(c) /\ ~Release(c),
           \A s \in Stores, ch \in Channels : ~Expire(s, ch),
           \A p \in Replicas : ~Crash(p), ~GoOffline, ~GoOnline
    PROVE  UNCHANGED store
<1>1. ASSUME NEW c \in Calls, Acquiring(c) \/ GiveUp(c) \/ Working(c)
      PROVE  UNCHANGED store
  BY <1>1 DEF Acquiring, TakeIdle, Wait, WaiterTimesOut, GiveUp, Working, Load, LoadMisses, Ask, Submit,
              BadSequence, Reload, HandOff
<1>2. ASSUME NEW c \in Calls, Failing(c)
      PROVE  UNCHANGED store
  BY <1>2 DEF Failing, LoadErrs, AskFails, PaymentFails, AnswerLost, BuildFails, CacheErrs, ReleaseErrs
<1> QED
  BY <1>1, <1>2 DEF Next, Land

LEMMA StoresStep ==
    TypeInv /\ PlaceInv /\ [Next]_vars => StoresType'
<1> SUFFICES ASSUME TypeInv, PlaceInv, [Next]_vars
             PROVE  StoresType'
  OBVIOUS
<1>t. /\ lease \in [Stores -> [Channels -> Tokens \cup {Free}]]
      /\ cached \in [Stores -> [Channels -> Nat]]
      /\ online \in BOOLEAN
  BY DEF TypeInv, StoresType
<1>1. ASSUME NEW c \in Calls, Claim(c)
      PROVE  StoresType'
  <2>1. call[c].channel \in Channels /\ Token(c) \in Tokens
    BY <1>1, HasChannel, OwnToken DEF Claim
  <2>2. UNCHANGED lease \/ LeaseSet(c, StoreOf(Home[c]), Token(c))
    BY <1>1, ClaimEffect
  <2>3. lease' \in [Stores -> [Channels -> Tokens \cup {Free}]]
    BY <1>t, <2>1, <2>2, LeaseWritten, StoreExists
  <2> QED
    BY <1>1, <1>t, <2>3 DEF Claim, StoresType
<1>2. ASSUME NEW c \in Calls, ClaimErrs(c)
      PROVE  StoresType'
  <2>1. call[c].channel \in Channels /\ Token(c) \in Tokens /\ "redis" \in Stores
    BY <1>2, HasChannel, OwnToken DEF ClaimErrs, Stores
  <2>2. UNCHANGED lease \/ LeaseSet(c, "redis", Token(c))
    BY <1>2, ClaimErrsEffect
  <2>3. lease' \in [Stores -> [Channels -> Tokens \cup {Free}]]
    BY <1>t, <2>1, <2>2, LeaseWritten
  <2> QED
    BY <1>2, <1>t, <2>3 DEF ClaimErrs, StoresType
<1>3. ASSUME NEW c \in Calls, Record(c) \/ Forget(c)
      PROVE  StoresType'
  <2>1. call[c].channel \in Channels /\ call[c].account + 1 \in Nat
    BY <1>3, HasChannel DEF Record, Forget, TypeInv, CallType
  <2>2. CacheSet(c, call[c].account + 1) \/ CacheSet(c, 0)
    BY <1>3 DEF Record, Forget, CacheSet
  <2>3. cached' \in [Stores -> [Channels -> Nat]]
    BY <2>1, <2>2, CacheWritten
  <2> QED
    BY <1>3, <1>t, <2>3 DEF Record, Forget, StoresType
<1>4. ASSUME NEW c \in Calls, Release(c)
      PROVE  StoresType'
  <2>1. call[c].channel \in Channels
    BY <1>4, HasChannel DEF Release
  <2>2. lease' \in [Stores -> [Channels -> Tokens \cup {Free}]]
    BY <1>4, <2>1, ReleaseEffect, LeaseGivenBack
  <2> QED
    BY <1>4, <1>t, <2>2 DEF Release, StoresType
<1>5. ASSUME NEW s \in Stores, NEW ch \in Channels, Expire(s, ch)
      PROVE  StoresType'
  <2>1. lease' \in [Stores -> [Channels -> Tokens \cup {Free}]]
    BY <1>5, <1>t, EntryWritten DEF Expire
  <2> QED
    BY <1>5, <1>t, <2>1 DEF Expire, StoresType
<1>6. ASSUME NEW p \in Replicas, Crash(p)
      PROVE  StoresType'
  BY <1>6, <1>t DEF Crash, StoresType, Stores
<1>7. CASE GoOffline \/ GoOnline
  BY <1>7, <1>t DEF GoOffline, GoOnline, StoresType
<1>8. CASE UNCHANGED store
  BY <1>8, <1>t DEF store, StoresType
<1> QED
  BY <1>1, <1>2, <1>3, <1>4, <1>5, <1>6, <1>7, <1>8, StoresKept DEF vars

\* The steps that leave the ledger and the submissions alone.
LEMMA ChainKept ==
    ASSUME Next,
           \A c \in Calls : ~Submit(c) /\ ~PaymentFails(c) /\ ~AnswerLost(c),
           ~Land
    PROVE  UNCHANGED chain
<1>1. ASSUME NEW c \in Calls, Acquiring(c) \/ GiveUp(c)
      PROVE  UNCHANGED chain
  BY <1>1 DEF Acquiring, TakeIdle, Wait, WaiterTimesOut, Claim, GiveUp
<1>2. ASSUME NEW c \in Calls, Working(c)
      PROVE  UNCHANGED chain
  BY <1>2 DEF Working, Load, LoadMisses, Ask, BadSequence, Reload, Record, Forget, Release, HandOff, chain
<1>3. ASSUME NEW c \in Calls, Failing(c)
      PROVE  UNCHANGED chain
  BY <1>3 DEF Failing, ClaimErrs, LoadErrs, AskFails, BuildFails, CacheErrs, ReleaseErrs
<1> QED
  BY <1>1, <1>2, <1>3 DEF Next, Expire, Crash, GoOffline, GoOnline

\* An account's sequence number only grows.
LEMMA ChainStep ==
    TypeInv /\ PlaceInv /\ [Next]_vars =>
       ChainType' /\ \A ch \in Channels : ledger[ch] <= ledger'[ch]
<1> DEFINE Grows == \A ch \in Channels : ledger[ch] <= ledger'[ch]
<1> SUFFICES ASSUME TypeInv, PlaceInv, [Next]_vars
             PROVE  ChainType' /\ Grows
  OBVIOUS
<1>t. /\ ledger \in [Channels -> Nat]
      /\ inflight \subseteq [by : Calls, channel : Channels, seq : Nat]
      /\ effect \in [Calls -> Nat]
  BY DEF TypeInv, ChainType
<1>1. ASSUME NEW c \in Calls, Submit(c) \/ PaymentFails(c) \/ AnswerLost(c)
      PROVE  ChainType' /\ Grows
  <2>1. call[c].channel \in Channels /\ call[c].seq + 1 \in Nat
    BY <1>1, HasChannel DEF Submit, PaymentFails, AnswerLost, TypeInv, CallType
  <2>2. /\ \/ UNCHANGED ledger
           \/ ledger' = [ledger EXCEPT ![call[c].channel] = @ + 1]
        /\ UNCHANGED effect \/ effect' = [effect EXCEPT ![c] = @ + 1]
        /\ \/ UNCHANGED inflight
           \/ inflight' = inflight \cup
                 {[by |-> c, channel |-> call[c].channel, seq |-> call[c].seq + 1]}
    BY <1>1 DEF Submit, PaymentFails, AnswerLost, Consume, TakesEffect
  <2>3. inflight' \subseteq [by : Calls, channel : Channels, seq : Nat]
    BY <1>t, <2>1, <2>2
  <2>4. ledger' \in [Channels -> Nat] /\ Grows
    BY <1>t, <2>1, <2>2
  <2>5. effect' \in [Calls -> Nat]
    BY <1>t, <2>2
  <2> QED
    BY <2>3, <2>4, <2>5 DEF ChainType
<1>2. CASE Land
  <2>1. PICK t \in inflight :
           /\ inflight' = inflight \ {t}
           /\ UNCHANGED ledger \/ ledger' = [ledger EXCEPT ![t.channel] = @ + 1]
           /\ UNCHANGED effect \/ effect' = [effect EXCEPT ![t.by] = @ + 1]
    BY <1>2 DEF Land, Consume, TakesEffect
  <2>2. t.channel \in Channels /\ t.by \in Calls
    BY <1>t
  <2> QED
    BY <1>t, <2>1, <2>2 DEF ChainType
<1>3. CASE UNCHANGED chain
  BY <1>3, <1>t DEF chain, ChainType
<1> QED
  BY <1>1, <1>2, <1>3, ChainKept DEF vars

LEMMA FaultsStep == TypeInv /\ [Next]_vars => FaultsType'
<1> SUFFICES ASSUME TypeInv, [Next]_vars
             PROVE  FaultsType'
  OBVIOUS
<1>t. disturbed \subseteq {"lease", "answer"} /\ faults \in 0 .. MaxFaults
  BY DEF TypeInv, FaultsType
<1> DEFINE Noted == \/ UNCHANGED disturbed
                    \/ disturbed' = disturbed \cup {"lease"}
                    \/ disturbed' = disturbed \cup {"answer"}
           Counted == Fault \/ UNCHANGED faults
<1>1. ASSUME NEW c \in Calls, Acquiring(c) \/ GiveUp(c)
      PROVE  Noted /\ Counted
  BY <1>1 DEF Acquiring, TakeIdle, Wait, WaiterTimesOut, Claim, GiveUp
<1>2. ASSUME NEW c \in Calls, Working(c)
      PROVE  Noted /\ Counted
  BY <1>2 DEF Working, Load, LoadMisses, Ask, Submit, BadSequence, Reload, Record, Forget, Release, HandOff
<1>3. ASSUME NEW c \in Calls, Failing(c)
      PROVE  Noted /\ Counted
  BY <1>3 DEF Failing, ClaimErrs, LoadErrs, AskFails, PaymentFails, AnswerLost, BuildFails, CacheErrs,
              ReleaseErrs
<1>4. ASSUME NEW s \in Stores, NEW ch \in Channels, Expire(s, ch)
      PROVE  Noted /\ Counted
  BY <1>4 DEF Expire
<1>5. ASSUME NEW p \in Replicas, Crash(p)
      PROVE  Noted /\ Counted
  BY <1>5 DEF Crash
<1>6. ASSUME Land \/ GoOffline \/ GoOnline \/ UNCHANGED vars
      PROVE  Noted /\ Counted
  BY <1>6 DEF Land, GoOffline, GoOnline, vars
<1>7. Noted /\ Counted
  BY <1>1, <1>2, <1>3, <1>4, <1>5, <1>6 DEF Next
<1>8. faults' \in 0 .. MaxFaults
  BY <1>7, <1>t, FaultCounted
<1> QED
  BY <1>7, <1>8, <1>t DEF FaultsType

LEMMA TypeStep ==
    TypeInv /\ PlaceInv /\ WaitersInv /\ [Next]_vars => TypeInv'
<1> SUFFICES ASSUME TypeInv, PlaceInv, WaitersInv, [Next]_vars
             PROVE  TypeInv'
  OBVIOUS
<1> DEFINE Typed == call' \in [Calls -> CallType]
<1>1. ASSUME NEW c \in Calls, Acquiring(c) \/ GiveUp(c)
      PROVE  Typed
  BY <1>1, TakeIdleEffect, WaitEffect, WaiterTimesOutEffect, ClaimEffect, GiveUpEffect
  DEF Acquiring, Changed
<1>2. ASSUME NEW c \in Calls, Working(c)
      PROVE  Typed
  BY <1>2, LoadEffect, LoadMissesEffect, SubmitEffect, BadSequenceEffect, ReloadEffect, RecordEffect,
     ForgetEffect, ReleaseEffect, HandOffEffect
  DEF Working, Changed
<1>3. ASSUME NEW c \in Calls, Failing(c)
      PROVE  Typed
  BY <1>3, ClaimErrsEffect, LoadErrsEffect, AskFailsEffect, PaymentFailsEffect, AnswerLostEffect,
     BuildFailsEffect, CacheErrsEffect, ReleaseErrsEffect
  DEF Failing, Changed
<1>4. ASSUME NEW p \in Replicas, Crash(p)
      PROVE  Typed
  BY <1>4, CrashEffect
<1>5. ASSUME UNCHANGED call
      PROVE  Typed
  BY <1>5 DEF TypeInv
<1>6. Typed
  BY <1>1, <1>2, <1>3, <1>4, <1>5 DEF Next, Expire, Land, GoOffline, GoOnline, vars
<1> QED
  BY <1>6, QueuesStep, StoresStep, ChainStep, FaultsStep DEF TypeInv

----------------------------------------------------------------------------
(* The sequence numbers that are known *)

LEMMA NumbersInit == Init => NumbersInv
BY NewCallFields DEF Init, NumbersInv

\* The numbers a call works with.
CallNumbers(c) ==
    /\ call[c].pc \in {"submit", "reload"} => call[c].account <= ledger[call[c].channel]
    /\ call[c].pc = "record" => call[c].account + 1 <= ledger[call[c].channel]

LEMMA CacheStep ==
    TypeInv /\ PlaceInv /\ NumbersInv /\ [Next]_vars =>
       \A s \in Stores, ch \in Channels : cached'[s][ch] <= ledger'[ch]
<1> SUFFICES ASSUME TypeInv, PlaceInv, NumbersInv, [Next]_vars,
                    NEW s \in Stores, NEW ch \in Channels
             PROVE  cached'[s][ch] <= ledger'[ch]
  OBVIOUS
<1>t. /\ ledger[ch] \in Nat /\ ledger'[ch] \in Nat /\ ledger[ch] <= ledger'[ch]
      /\ cached \in [Stores -> [Channels -> Nat]] /\ cached[s][ch] <= ledger[ch]
  <2>1. ledger \in [Channels -> Nat] /\ ledger' \in [Channels -> Nat]
        /\ cached \in [Stores -> [Channels -> Nat]]
    BY ChainStep DEF TypeInv, ChainType, StoresType
  <2> QED
    BY <2>1, ChainStep DEF NumbersInv
<1>1. ASSUME NEW c \in Calls, Record(c)
      PROVE  cached'[s][ch] <= ledger'[ch]
  <2>1. /\ call[c].channel \in Channels /\ call[c].account + 1 \in Nat
        /\ call[c].account + 1 <= ledger[call[c].channel]
    BY <1>1, HasChannel DEF Record, TypeInv, CallType, NumbersInv
  <2>2. cached'[s][ch] = IF s = StoreOf(Home[c]) /\ ch = call[c].channel
                         THEN call[c].account + 1 ELSE cached[s][ch]
    BY <1>1, <2>1, RecordEffect, CacheWritten
  <2> QED
    BY <1>t, <2>1, <2>2
<1>2. ASSUME NEW c \in Calls, Forget(c)
      PROVE  cached'[s][ch] <= ledger'[ch]
  <2>1. call[c].channel \in Channels
    BY <1>2, HasChannel DEF Forget
  <2>2. cached'[s][ch] = IF s = StoreOf(Home[c]) /\ ch = call[c].channel
                         THEN 0 ELSE cached[s][ch]
    BY <1>2, <2>1, ForgetEffect, CacheWritten
  <2> QED
    BY <1>t, <2>2
<1>3. ASSUME NEW p \in Replicas, Crash(p)
      PROVE  cached'[s][ch] <= ledger'[ch]
  <2>1. cached'[s][ch] = IF s = p THEN 0 ELSE cached[s][ch]
    BY <1>3, <1>t DEF Crash
  <2> QED
    BY <1>t, <2>1
<1>4. CASE UNCHANGED cached
  BY <1>4, <1>t
<1> QED
  BY <1>1, <1>2, <1>3, <1>4, StoresKept
  DEF vars, store, Claim, ClaimErrs, Release, Expire, GoOffline, GoOnline

LEMMA NumbersStep ==
    TypeInv /\ PlaceInv /\ WaitersInv /\ NumbersInv /\ [Next]_vars => NumbersInv'
<1> SUFFICES ASSUME TypeInv, PlaceInv, WaitersInv, NumbersInv, [Next]_vars,
                    NEW d \in Calls
             PROVE  CallNumbers(d)'
  BY CacheStep DEF NumbersInv, CallNumbers
<1>t. /\ call \in [Calls -> CallType] /\ ledger \in [Channels -> Nat]
      /\ ledger' \in [Channels -> Nat]
      /\ \A ch \in Channels : ledger[ch] <= ledger'[ch]
  BY ChainStep DEF TypeInv, ChainType
<1>n. CallNumbers(d)
  BY DEF NumbersInv, CallNumbers
<1>d. /\ call[d].account \in Nat
      /\ call[d].pc \in {"submit", "reload", "record"} => call[d].channel \in Channels
  BY <1>t, HasChannel DEF CallType
<1>k. ASSUME UNCHANGED call[d]
      PROVE  CallNumbers(d)'
  BY <1>t, <1>n, <1>d, <1>k DEF CallNumbers
<1>1. ASSUME NEW c \in Calls, Acquiring(c) \/ GiveUp(c)
      PROVE  CallNumbers(d)'
  BY <1>1, <1>k, TakeIdleEffect, WaitEffect, WaiterTimesOutEffect, ClaimEffect, GiveUpEffect
  DEF Acquiring, Changed, CallNumbers
<1>2a. ASSUME NEW c \in Calls, LoadMisses(c)
       PROVE  CallNumbers(d)'
  BY <1>2a, <1>k, LoadMissesEffect DEF Changed, CallNumbers
<1>2. ASSUME NEW c \in Calls, Load(c) \/ Ask(c)
      PROVE  CallNumbers(d)'
  <2>1. Start(c) <= ledger[call[c].channel] /\ Start(c) \in Nat
    <3>1. call[c].channel \in Channels /\ StoreOf(Home[c]) \in Stores
      BY <1>2, HasChannel, StoreExists DEF Load, Ask
    <3> QED
      BY <1>2, <1>t, <3>1, LoadEffect DEF Start, NumbersInv
  <2> QED
    BY <1>2, <1>k, <1>t, <2>1, LoadEffect, HasChannel DEF Changed, CallNumbers, chain
<1>3. ASSUME NEW c \in Calls, Submit(c)
      PROVE  CallNumbers(d)'
  <2>1. /\ call[c].channel \in Channels /\ call[c].account \in Nat
        /\ ledger'[call[c].channel] = ledger[call[c].channel] + 1
        /\ call[c].account <= ledger[call[c].channel]
    BY <1>3, <1>t, HasChannel, SubmitEffect DEF CallType, NumbersInv
  <2> QED
    BY <1>3, <1>k, <1>t, <2>1, SubmitEffect DEF Changed, CallNumbers
<1>4. ASSUME NEW c \in Calls, BadSequence(c)
      PROVE  CallNumbers(d)'
  BY <1>4, <1>k, <1>n, BadSequenceEffect DEF Changed, CallNumbers
<1>5. ASSUME NEW c \in Calls, Reload(c)
      PROVE  CallNumbers(d)'
  BY <1>5, <1>k, <1>n, ReloadEffect DEF Changed, CallNumbers, chain
<1>6. ASSUME NEW c \in Calls, Record(c) \/ Forget(c) \/ Release(c)
      PROVE  CallNumbers(d)'
  BY <1>6, <1>k, RecordEffect, ForgetEffect, ReleaseEffect DEF Changed, CallNumbers
<1>7. ASSUME NEW c \in Calls, HandOff(c)
      PROVE  CallNumbers(d)'
  BY <1>7, <1>k, HandOffEffect, EndedFields DEF Changed, CallNumbers
<1>8. ASSUME NEW c \in Calls, Failing(c)
      PROVE  CallNumbers(d)'
  BY <1>8, <1>k, ClaimErrsEffect, LoadErrsEffect, AskFailsEffect, PaymentFailsEffect, AnswerLostEffect,
     BuildFailsEffect, CacheErrsEffect, ReleaseErrsEffect
  DEF Failing, Changed, CallNumbers
<1>9. ASSUME NEW p \in Replicas, Crash(p)
      PROVE  CallNumbers(d)'
  BY <1>9, <1>k, CrashEffect DEF CallNumbers
<1> QED
  BY <1>k, <1>1, <1>2, <1>2a, <1>3, <1>4, <1>5, <1>6, <1>7, <1>8, <1>9
  DEF Next, Working, Expire, Land, GoOffline, GoOnline, vars

----------------------------------------------------------------------------
(* The waiters *)

\* What WaitersInv says of one replica, whose queue is q, with the calls f.
Queued(f, q, p) ==
    \A i \in 1 .. Len(q) :
       /\ Home[q[i]] = p
       /\ f[q[i]].pc = "waiting"
       /\ \A j \in 1 .. Len(q) : q[i] = q[j] => i = j

LEMMA WaitersInit == Init => WaitersInv
BY EmptySeq DEF Init, WaitersInv

\* A queue keeps its property while none of its calls changes, and when a call
\* leaves it, too, if that call is the only one that changes.
LEMMA QueueKept ==
    ASSUME NEW f, NEW g, NEW p, NEW q \in Seq(Calls), Queued(f, q, p),
           \A d \in Calls : f[d].pc = "waiting" /\ Home[d] = p => g[d].pc = "waiting"
    PROVE  Queued(g, q, p)
<1>1. \A i \in 1 .. Len(q) : q[i] \in Calls
  BY ElementOfSeq
<1> QED
  BY <1>1 DEF Queued

LEMMA QueueLeft ==
    ASSUME NEW f, NEW g, NEW p, NEW q \in Seq(Calls), Queued(f, q, p), NEW i \in 1 .. Len(q),
           \A d \in Calls : d # q[i] => (f[d].pc = "waiting" => g[d].pc = "waiting")
    PROVE  Queued(g, Without(q, i), p)
<1> DEFINE r == Without(q, i)
           at(k) == IF k < i THEN k ELSE k + 1
<1>1. Len(q) \in Nat /\ \A k \in 1 .. Len(q) : q[k] \in Calls
  BY LenProperties, ElementOfSeq
<1>2. Len(r) = Len(q) - 1 /\ \A k \in 1 .. Len(r) : r[k] = q[at(k)]
  BY WithoutEntry
<1>3. \A k \in 1 .. Len(r) : at(k) \in 1 .. Len(q) /\ at(k) # i
  BY <1>1, <1>2
<1>4. \A j, k \in 1 .. Len(r) : at(j) = at(k) => j = k
  BY <1>1, <1>2
<1> HIDE DEF r, at
<1>5. ASSUME NEW k \in 1 .. Len(r)
      PROVE  /\ Home[r[k]] = p /\ g[r[k]].pc = "waiting"
             /\ \A j \in 1 .. Len(r) : r[k] = r[j] => k = j
  <2>1. /\ Home[q[at(k)]] = p /\ f[q[at(k)]].pc = "waiting"
        /\ \A j \in 1 .. Len(q) : q[at(k)] = q[j] => at(k) = j
    BY <1>3 DEF Queued
  <2>2. q[at(k)] # q[i] /\ q[at(k)] \in Calls
    BY <1>1, <1>3, <2>1
  <2> QED
    BY <1>2, <1>3, <1>4, <2>1, <2>2
<1> QED
  BY <1>5 DEF Queued, r

LEMMA QueueJoined ==
    ASSUME NEW f, NEW g, NEW p, NEW q \in Seq(Calls), Queued(f, q, p), NEW c \in Calls, Home[c] = p,
           f[c].pc # "waiting", g[c].pc = "waiting",
           \A d \in Calls : d # c => g[d] = f[d]
    PROVE  Queued(g, Append(q, c), p)
<1> DEFINE r == Append(q, c)
           n == Len(q)
<1>1. n \in Nat /\ \A k \in 1 .. n : q[k] \in Calls
  BY LenProperties, ElementOfSeq
<1>2. Len(r) = n + 1 /\ r[n + 1] = c /\ \A k \in 1 .. n : r[k] = q[k]
  BY AppendProperties
<1>3. \A k \in 1 .. n : /\ Home[q[k]] = p /\ f[q[k]].pc = "waiting"
                        /\ \A j \in 1 .. n : q[k] = q[j] => k = j
  BY DEF Queued
<1>4. \A k \in 1 .. n + 1 : k \in 1 .. n \/ k = n + 1
  BY <1>1
<1>5. \A k \in 1 .. n : q[k] # c /\ g[q[k]].pc = "waiting"
  BY <1>1, <1>3
<1> HIDE DEF r, n
<1>6. \A k \in 1 .. n + 1 : Home[r[k]] = p /\ g[r[k]].pc = "waiting"
  BY <1>2, <1>3, <1>4, <1>5
<1>7. \A j, k \in 1 .. n + 1 : r[j] = r[k] => j = k
  BY <1>2, <1>3, <1>4, <1>5
<1> QED
  BY <1>2, <1>6, <1>7 DEF Queued, r

\* The first entry leaves as any other does.
LEMMA TailIsWithout ==
    ASSUME NEW S, NEW q \in Seq(S), q # <<>>
    PROVE  1 \in 1 .. Len(q) /\ Head(q) = q[1] /\ Tail(q) = Without(q, 1)
<1>1. Len(q) \in Nat \ {0} /\ Head(q) = q[1]
  BY EmptySeq
<1>2. /\ Tail(q) \in Seq(S) /\ Len(Tail(q)) = Len(q) - 1
      /\ \A k \in 1 .. Len(q) - 1 : Tail(q)[k] = q[k + 1]
  BY HeadTailProperties
<1>3. 1 \in 1 .. Len(q)
  BY <1>1
<1>4. /\ Without(q, 1) \in Seq(S) /\ Len(Without(q, 1)) = Len(q) - 1
      /\ \A k \in 1 .. Len(q) - 1 : Without(q, 1)[k] = q[IF k < 1 THEN k ELSE k + 1]
  BY <1>3, WithoutEntry
<1>5. \A k \in 1 .. Len(q) - 1 : ~(k < 1)
  BY <1>1
<1>6. Tail(q) = Without(q, 1)
  BY <1>2, <1>4, <1>5, SeqEqual
<1> QED
  BY <1>1, <1>3, <1>6

LEMMA WaitersStep ==
    TypeInv /\ PlaceInv /\ WaitersInv /\ [Next]_vars => WaitersInv'
<1> SUFFICES ASSUME TypeInv, PlaceInv, WaitersInv, [Next]_vars, NEW r \in Replicas
             PROVE  Queued(call', waiters'[r], r)
  BY DEF WaitersInv, Queued
<1>q. /\ waiters \in [Replicas -> Seq(Calls)] /\ waiters[r] \in Seq(Calls)
      /\ Queued(call, waiters[r], r)
  BY DEF TypeInv, QueuesType, WaitersInv, Queued
<1>h. \A c \in Calls : Home[c] \in Replicas
  BY HomeAssumption
<1>k. ASSUME UNCHANGED waiters,
             \A d \in Calls : call[d].pc = "waiting" => call'[d].pc = "waiting"
      PROVE  Queued(call', waiters'[r], r)
  BY <1>k, <1>q, QueueKept
<1>1. ASSUME NEW c \in Calls, Wait(c)
      PROVE  Queued(call', waiters'[r], r)
  <2>1. /\ call[c].pc # "waiting" /\ call'[c].pc = "waiting"
        /\ \A d \in Calls : d # c => call'[d] = call[d]
        /\ waiters' = [waiters EXCEPT ![Home[c]] = Append(waiters[Home[c]], c)]
    BY <1>1, WaitEffect DEF Changed
  <2>2. CASE r = Home[c]
    <3>1. waiters'[r] = Append(waiters[r], c)
      BY <1>q, <1>h, <2>1, <2>2
    <3>2. Queued(call', Append(waiters[r], c), r)
      BY <1>q, <2>1, <2>2, QueueJoined
    <3> QED
      BY <3>1, <3>2
  <2>3. CASE r # Home[c]
    <3>1. waiters'[r] = waiters[r]
      BY <1>q, <1>h, <2>1, <2>3
    <3>2. \A d \in Calls : call[d].pc = "waiting" => call'[d].pc = "waiting"
      BY <2>1
    <3> QED
      BY <1>q, <3>1, <3>2, QueueKept
  <2> QED
    BY <2>2, <2>3
<1>2. ASSUME NEW c \in Calls, WaiterTimesOut(c)
      PROVE  Queued(call', waiters'[r], r)
  <2>1. \A d \in Calls : d # c => call'[d] = call[d]
    BY <1>2, WaiterTimesOutEffect DEF Changed
  <2>2. PICK i \in 1 .. Len(waiters[Home[c]]) :
           /\ waiters[Home[c]][i] = c
           /\ waiters' = [waiters EXCEPT ![Home[c]] = Without(waiters[Home[c]], i)]
    BY <1>2, WaiterLeaves
  <2>3. CASE r = Home[c]
    <3>1. waiters'[r] = Without(waiters[r], i)
      <4>1. waiters'[Home[c]] = Without(waiters[Home[c]], i)
        BY <1>q, <1>h, <2>2
      <4> QED
        BY <2>3, <4>1
    <3>2. i \in 1 .. Len(waiters[r]) /\ waiters[r][i] = c
      BY <2>2, <2>3
    <3>3. \A d \in Calls : d # c => (call[d].pc = "waiting" => call'[d].pc = "waiting")
      BY <2>1
    <3>4. Queued(call', Without(waiters[r], i), r)
      BY <1>q, <3>2, <3>3, QueueLeft
    <3> QED
      BY <3>1, <3>4
  <2>4. CASE r # Home[c]
    <3>1. waiters'[r] = waiters[r]
      BY <1>q, <2>2, <2>4
    <3>2. \A d \in Calls : call[d].pc = "waiting" /\ Home[d] = r => call'[d].pc = "waiting"
      BY <2>1, <2>4
    <3> QED
      BY <1>q, <3>1, <3>2, QueueKept
  <2> QED
    BY <2>3, <2>4
<1>3. ASSUME NEW c \in Calls, HandOff(c)
      PROVE  Queued(call', waiters'[r], r)
  <2>1. CASE waiters[Home[c]] = <<>>
    <3>1. UNCHANGED waiters /\ \A d \in Calls : d # c => call'[d] = call[d]
      BY <1>3, <2>1, HandOffEffect DEF Changed
    <3> QED
      BY <1>3, <1>k, <3>1, HandOffEffect
  <2>2. CASE waiters[Home[c]] # <<>>
    <3>1. /\ waiters' = [waiters EXCEPT ![Home[c]] = Tail(waiters[Home[c]])]
          /\ call[c].pc = "handoff"
      BY <1>3, <2>2 DEF HandOff
    <3>2. PICK w \in Calls :
             /\ w = Head(waiters[Home[c]]) /\ Home[w] = Home[c]
             /\ \A d \in Calls : d \notin {c, w} => call'[d] = call[d]
      BY <1>3, <2>2, <3>1, HandOffEffect
    <3>3. \A d \in Calls : d # w => (call[d].pc = "waiting" => call'[d].pc = "waiting")
      BY <3>1, <3>2
    <3>4. CASE r = Home[c]
      <4>1. waiters'[r] = Without(waiters[r], 1) /\ 1 \in 1 .. Len(waiters[r]) /\ waiters[r][1] = w
        BY <1>q, <2>2, <3>1, <3>2, <3>4, TailIsWithout
      <4>2. Queued(call', Without(waiters[r], 1), r)
        BY <1>q, <3>3, <4>1, QueueLeft
      <4> QED
        BY <4>1, <4>2
    <3>5. CASE r # Home[c]
      <4>1. waiters'[r] = waiters[r]
        BY <1>q, <1>h, <3>1, <3>5
      <4> QED
        BY <1>q, <3>2, <3>3, <3>5, <4>1, QueueKept
    <3> QED
      BY <3>4, <3>5
  <2> QED
    BY <2>1, <2>2
<1>4. ASSUME NEW p \in Replicas, Crash(p)
      PROVE  Queued(call', waiters'[r], r)
  <2>1. waiters'[r] = IF r = p THEN <<>> ELSE waiters[r]
    BY <1>4, <1>q DEF Crash
  <2>2. CASE r = p
    BY <2>1, <2>2, EmptySeq DEF Queued
  <2>3. CASE r # p
    BY <1>4, <1>q, <2>1, <2>3, CrashEffect, QueueKept
  <2> QED
    BY <2>2, <2>3
<1>5. ASSUME NEW c \in Calls, TakeIdle(c) \/ Claim(c) \/ GiveUp(c)
      PROVE  Queued(call', waiters'[r], r)
  BY <1>5, <1>k, TakeIdleEffect, ClaimEffect, GiveUpEffect DEF Changed
<1>6. ASSUME NEW c \in Calls,
             \/ Load(c) \/ Ask(c) \/ LoadMisses(c)
             \/ Submit(c) \/ BadSequence(c) \/ Reload(c)
      PROVE  Queued(call', waiters'[r], r)
  BY <1>6, <1>k, LoadEffect, LoadMissesEffect, SubmitEffect, BadSequenceEffect,
     ReloadEffect DEF Changed
<1>7. ASSUME NEW c \in Calls, Record(c) \/ Forget(c) \/ Release(c)
      PROVE  Queued(call', waiters'[r], r)
  BY <1>7, <1>k, RecordEffect, ForgetEffect, ReleaseEffect DEF Changed
<1>8. ASSUME NEW c \in Calls, Failing(c)
      PROVE  Queued(call', waiters'[r], r)
  BY <1>8, <1>k, ClaimErrsEffect, LoadErrsEffect, AskFailsEffect, PaymentFailsEffect, AnswerLostEffect,
     BuildFailsEffect, CacheErrsEffect, ReleaseErrsEffect
  DEF Failing, Changed
<1>9. ASSUME UNCHANGED <<call, waiters>>
      PROVE  Queued(call', waiters'[r], r)
  BY <1>9, <1>k
<1> QED
  BY <1>1, <1>2, <1>3, <1>4, <1>5, <1>6, <1>7, <1>8, <1>9
  DEF Next, Acquiring, Working, Expire, Land, GoOffline, GoOnline, vars

----------------------------------------------------------------------------
(* Every channel is in one hand *)

LEMMA HandsInit == Init => HandsInv
<1> SUFFICES ASSUME Init, NEW p \in Replicas, NEW ch \in Channels
             PROVE  OneHand(p, ch)
  BY DEF HandsInv
<1>1. Once(idle[p], ch)
  BY FullList DEF Init
<1>2. \A c \in Calls : call[c].channel = NoChannel
  BY NewCallFields DEF Init
<1> QED
  BY <1>1, <1>2, NamesAssumption DEF OneHand, Holds

\* Whoever has a channel of the replica is the only one, and it is not idle.
LEMMA HeldNotIdle ==
    ASSUME TypeInv, HandsInv, NEW c \in Calls, call[c].channel \in Channels
    PROVE  /\ Absent(idle[Home[c]], call[c].channel)
           /\ \A d \in Calls : Holds(d, Home[c], call[c].channel) => d = c
BY HomeAssumption DEF HandsInv, OneHand, Holds

LEMMA HandsStep ==
    TypeInv /\ PlaceInv /\ WaitersInv /\ HandsInv /\ [Next]_vars => HandsInv'
<1> SUFFICES ASSUME TypeInv, PlaceInv, WaitersInv, HandsInv, [Next]_vars,
                    NEW p \in Replicas, NEW ch \in Channels
             PROVE  OneHand(p, ch)'
  BY DEF HandsInv
<1>q. /\ idle \in [Replicas -> Seq(Channels)] /\ idle[p] \in Seq(Channels)
      /\ OneHand(p, ch)
  BY DEF TypeInv, QueuesType, HandsInv
<1>h. \A c \in Calls : Home[c] \in Replicas
  BY HomeAssumption
<1>k. ASSUME Once(idle[p], ch) => Once(idle'[p], ch),
             Absent(idle[p], ch) => Absent(idle'[p], ch),
             \A d \in Calls : Home[d] = p => (call'[d].channel = ch <=> call[d].channel = ch)
      PROVE  OneHand(p, ch)'
  BY <1>k, <1>q DEF OneHand, Holds, Once, Absent
<1>s. ASSUME UNCHANGED idle, \A d \in Calls : call'[d].channel = call[d].channel
      PROVE  OneHand(p, ch)'
  BY <1>k, <1>s
<1>b. ASSUME NEW c \in Calls, call[c].channel \in Channels, call'[c].channel = NoChannel,
             \A d \in Calls : d # c => call'[d] = call[d],
             \A r \in Replicas : r # Home[c] => idle'[r] = idle[r],
             idle'[Home[c]] = Append(idle[Home[c]], call[c].channel)
      PROVE  OneHand(p, ch)'
  <2>1. CASE p # Home[c]
    BY <1>b, <1>k, <2>1
  <2>2. CASE p = Home[c] /\ ch # call[c].channel
    <3>1. idle'[p] = Append(idle[p], call[c].channel)
      BY <1>b, <2>2
    <3>2. /\ Once(idle[p], ch) => Once(idle'[p], ch)
          /\ Absent(idle[p], ch) => Absent(idle'[p], ch)
      <4>1. \A y \in Channels : ch # y =>
               /\ Once(idle[p], ch) => Once(Append(idle[p], y), ch)
               /\ Absent(idle[p], ch) => Absent(Append(idle[p], y), ch)
        BY <1>q, AppendOccurrences
      <4> QED
        BY <1>b, <2>2, <3>1, <4>1
    <3> QED
      BY <1>b, <1>k, <2>2, <3>2, NamesAssumption
  <2>3. CASE p = Home[c] /\ ch = call[c].channel
    <3>1. Absent(idle[p], ch) /\ \A d \in Calls : Holds(d, p, ch) => d = c
      BY <2>3, HeldNotIdle
    <3>2. Once(idle'[p], ch)
      <4>1. idle'[p] = Append(idle[p], ch)
        BY <1>b, <2>3
      <4> QED
        BY <1>q, <3>1, <4>1, AppendOccurrences
    <3>3. \A d \in Calls : ~(Home[d] = p /\ call'[d].channel = ch)
      BY <1>b, <3>1, NamesAssumption DEF Holds
    <3> QED
      BY <3>2, <3>3 DEF OneHand, Holds, Once
  <2> QED
    BY <2>1, <2>2, <2>3
<1>1. ASSUME NEW c \in Calls, TakeIdle(c)
      PROVE  OneHand(p, ch)'
  <2>1. /\ call[c].channel = NoChannel /\ call'[c].channel = Head(idle[Home[c]])
        /\ \A d \in Calls : d # c => call'[d] = call[d]
        /\ idle[Home[c]] # <<>>
        /\ idle' = [idle EXCEPT ![Home[c]] = Tail(idle[Home[c]])]
    BY <1>1, TakeIdleEffect DEF Changed, PlaceInv
  <2>2. CASE p # Home[c]
    <3>1. idle'[p] = idle[p]
      BY <1>q, <1>h, <2>1, <2>2
    <3> QED
      BY <1>k, <2>1, <2>2, <3>1
  <2>3. CASE p = Home[c]
    <3>1. idle'[p] = Tail(idle[p]) /\ idle[p] # <<>> /\ call'[c].channel = Head(idle[p])
      BY <1>q, <1>h, <2>1, <2>3
    <3>2. CASE ch # Head(idle[p])
      <4>1. /\ Once(idle[p], ch) => Once(idle'[p], ch)
            /\ Absent(idle[p], ch) => Absent(idle'[p], ch)
        BY <1>q, <3>1, <3>2, TailOccurrences
      <4> QED
        BY <1>k, <2>1, <3>1, <3>2, <4>1, NamesAssumption
    <3>3. CASE ch = Head(idle[p])
      <4>1. ~Absent(idle[p], ch)
        BY <1>q, <3>1, <3>3, TailIsWithout DEF Absent
      <4>2. Once(idle[p], ch) /\ \A d \in Calls : ~Holds(d, p, ch)
        BY <1>q, <4>1 DEF OneHand
      <4>3. Absent(idle'[p], ch)
        BY <1>q, <3>1, <3>3, <4>2, TailOccurrences
      <4>4. \A d \in Calls : Home[d] = p /\ call'[d].channel = ch => d = c
        BY <2>1, <4>2 DEF Holds
      <4> QED
        BY <2>3, <3>1, <3>3, <4>3, <4>4 DEF OneHand, Holds, Absent
    <3> QED
      BY <3>2, <3>3
  <2> QED
    BY <2>2, <2>3
<1>2. ASSUME NEW c \in Calls, Claim(c) \/ ClaimErrs(c)
      PROVE  OneHand(p, ch)'
  <2>1. call[c].channel \in Channels
    BY <1>2, HasChannel DEF Claim, ClaimErrs
  <2>2. CASE UNCHANGED <<idle, call[c].channel>> /\ Changed(c)
    BY <1>s, <2>2 DEF Changed
  <2>3. CASE PutBack(Home[c], call[c].channel) /\ call'[c].channel = NoChannel /\ Changed(c)
    <3>1. Absent(idle[Home[c]], call[c].channel)
      BY <2>1, HeldNotIdle
    <3>2. /\ idle'[Home[c]] = Append(idle[Home[c]], call[c].channel)
          /\ \A r \in Replicas : r # Home[c] => idle'[r] = idle[r]
      BY <1>h, <2>1, <2>3, <3>1, PutBackIdle
    <3> QED
      BY <1>b, <2>1, <2>3, <3>2 DEF Changed
  <2> QED
    BY <1>2, <2>2, <2>3, ClaimEffect, ClaimErrsEffect
<1>3. ASSUME NEW c \in Calls, HandOff(c)
      PROVE  OneHand(p, ch)'
  <2>1. /\ call[c].channel \in Channels /\ call'[c].channel = NoChannel
    BY <1>3, HasChannel, HandOffEffect, EndedFields
  <2>2. CASE waiters[Home[c]] = <<>>
    <3>1. /\ \A d \in Calls : d # c => call'[d] = call[d]
          /\ idle' = [idle EXCEPT ![Home[c]] = Append(@, call[c].channel)]
      BY <1>3, <2>2, HandOffEffect DEF Changed
    <3>2. /\ idle'[Home[c]] = Append(idle[Home[c]], call[c].channel)
          /\ \A r \in Replicas : r # Home[c] => idle'[r] = idle[r]
      BY <1>q, <1>h, <3>1
    <3> QED
      BY <1>b, <2>1, <3>1, <3>2
  <2>3. CASE waiters[Home[c]] # <<>>
    <3>1. PICK w \in Calls :
             /\ w # c /\ Home[w] = Home[c] /\ call[w].pc = "waiting"
             /\ call'[w].channel = call[c].channel
             /\ \A d \in Calls : d \notin {c, w} => call'[d] = call[d]
      BY <1>3, <2>3, HandOffEffect
    <3>2. UNCHANGED idle /\ call[w].channel = NoChannel
      BY <1>3, <2>3, <3>1, HandOffEffect DEF PlaceInv
    <3>3. CASE p = Home[c] /\ ch = call[c].channel
      <4>1. Absent(idle[p], ch) /\ \A d \in Calls : Holds(d, p, ch) => d = c
        BY <3>3, HeldNotIdle
      <4>2. \A d \in Calls : Home[d] = p /\ call'[d].channel = ch => d = w
        BY <2>1, <3>1, <4>1, NamesAssumption DEF Holds
      <4> QED
        BY <3>1, <3>2, <3>3, <4>1, <4>2 DEF OneHand, Holds, Absent
    <3>4. CASE ~(p = Home[c] /\ ch = call[c].channel)
      BY <1>k, <2>1, <3>1, <3>2, <3>4, NamesAssumption
    <3> QED
      BY <3>3, <3>4
  <2> QED
    BY <2>2, <2>3
<1>4. ASSUME NEW r \in Replicas, Crash(r)
      PROVE  OneHand(p, ch)'
  <2>1. CASE p # r
    <3>1. idle'[p] = idle[p]
      BY <1>4, <1>q, <2>1 DEF Crash
    <3> QED
      BY <1>4, <1>k, <2>1, <3>1, CrashEffect
  <2>2. CASE p = r
    <3>1. Once(idle'[p], ch)
      BY <1>4, <1>q, <2>2, FullList DEF Crash
    <3>2. \A d \in Calls : ~(Home[d] = p /\ call'[d].channel = ch)
      BY <1>4, <2>2, CrashEffect, NamesAssumption DEF Busy, PlaceInv
    <3> QED
      BY <3>1, <3>2 DEF OneHand, Holds, Once
  <2> QED
    BY <2>1, <2>2
<1>5. ASSUME NEW c \in Calls, Wait(c) \/ WaiterTimesOut(c) \/ GiveUp(c)
      PROVE  OneHand(p, ch)'
  BY <1>5, <1>s, WaitEffect, WaiterTimesOutEffect, GiveUpEffect DEF Changed
<1>6. ASSUME NEW c \in Calls,
             \/ Load(c) \/ Ask(c) \/ LoadMisses(c)
             \/ Submit(c) \/ BadSequence(c) \/ Reload(c)
      PROVE  OneHand(p, ch)'
  BY <1>6, <1>s, LoadEffect, LoadMissesEffect, SubmitEffect, BadSequenceEffect,
     ReloadEffect DEF Changed
<1>7. ASSUME NEW c \in Calls, Record(c) \/ Forget(c) \/ Release(c)
      PROVE  OneHand(p, ch)'
  BY <1>7, <1>s, RecordEffect, ForgetEffect, ReleaseEffect DEF Changed
<1>8. ASSUME NEW c \in Calls, Failing(c)
      PROVE  OneHand(p, ch)'
  BY <1>8, <1>s, <1>2, LoadErrsEffect, AskFailsEffect, PaymentFailsEffect, AnswerLostEffect,
     BuildFailsEffect, CacheErrsEffect, ReleaseErrsEffect
  DEF Failing, Changed
<1>9. ASSUME UNCHANGED <<call, idle>>
      PROVE  OneHand(p, ch)'
  BY <1>9, <1>s
<1> QED
  BY <1>1, <1>2, <1>3, <1>4, <1>5, <1>6, <1>7, <1>8, <1>9
  DEF Next, Acquiring, Working, Expire, Land, GoOffline, GoOnline, vars

----------------------------------------------------------------------------
(* The leases *)

LEMMA LeaseInit == Init => LeaseInv
BY NewCallFields DEF Init, LeaseInv, Leased

LEMMA LeaseStep ==
    TypeInv /\ PlaceInv /\ WaitersInv /\ LeaseInv /\ [Next]_vars => LeaseInv'
<1> SUFFICES ASSUME TypeInv, PlaceInv, WaitersInv, LeaseInv, [Next]_vars,
                    "lease" \notin disturbed'
             PROVE  online' /\ \A d \in Calls : Leased(d)'
  BY DEF LeaseInv
<1> DEFINE Goal == online' /\ \A d \in Calls : Leased(d)'
<1>o. (disturbed \subseteq disturbed') => online /\ \A d \in Calls : Leased(d)
  BY DEF LeaseInv
<1>c. \A d \in Calls : call[d].claimed => call[d].channel \in Channels
  BY HasChannel DEF PlaceInv, Submitting
<1>r. "redis" \in Stores
  BY DEF Stores
<1>k. ASSUME disturbed \subseteq disturbed', UNCHANGED online,
             \A d \in Calls :
                call'[d].claimed =>
                   /\ call[d].claimed
                   /\ UNCHANGED <<call[d].channel, call[d].attempt>>
                   /\ lease'["redis"][call[d].channel] = lease["redis"][call[d].channel]
      PROVE  Goal
  BY <1>k, <1>o DEF Leased, Token
<1>1. ASSUME NEW c \in Calls, Claim(c)
      PROVE  Goal
  <2>1. /\ online /\ \A d \in Calls : Leased(d)
        /\ disturbed = disturbed' /\ UNCHANGED online /\ StoreOf(Home[c]) = "redis"
    BY <1>1, <1>o DEF Claim, StoreOf
  <2>2. call[c].channel \in Channels /\ ~call[c].claimed
    BY <1>1, HasChannel DEF Claim, PlaceInv, Submitting
  <2>3. CASE UNCHANGED lease /\ ~call'[c].claimed
    BY <1>1, <1>k, <2>1, <2>3, ClaimEffect DEF Changed
  <2>4. CASE /\ call'[c].claimed /\ UNCHANGED <<call[c].channel, call[c].attempt>>
             /\ lease["redis"][call[c].channel] = Free
             /\ LeaseSet(c, "redis", Token(c))
    <3>1. \A ch \in Channels : lease'["redis"][ch] =
             IF ch = call[c].channel THEN Token(c) ELSE lease["redis"][ch]
      BY <1>r, <2>2, <2>4, LeaseWritten, OwnToken
    <3>2. \A d \in Calls : call[d].claimed => call[d].channel # call[c].channel
      BY <2>1, <2>4, OwnToken DEF Leased
    <3>3. \A d \in Calls : d # c => call'[d] = call[d]
      BY <1>1, ClaimEffect DEF Changed
    <3>4. Leased(c)'
      BY <2>2, <2>4, <3>1 DEF Leased, Token
    <3>5. ASSUME NEW d \in Calls, d # c
          PROVE  Leased(d)'
      BY <1>c, <2>1, <3>1, <3>2, <3>3, <3>5 DEF Leased, Token
    <3> QED
      BY <2>1, <3>4, <3>5
  <2> QED
    BY <1>1, <2>1, <2>2, <2>3, <2>4, ClaimEffect
<1>2. ASSUME NEW c \in Calls, ClaimErrs(c)
      PROVE  Goal
  <2>1. /\ online /\ \A d \in Calls : Leased(d)
        /\ disturbed = disturbed' /\ UNCHANGED online
    BY <1>2, <1>o, ClaimErrsEffect
  <2>2. call[c].channel \in Channels /\ ~call[c].claimed
    BY <1>2, HasChannel DEF ClaimErrs, PlaceInv, Submitting
  <2>3. \A d \in Calls : call[d].claimed =>
           lease'["redis"][call[d].channel] = lease["redis"][call[d].channel]
    <3>1. CASE UNCHANGED lease
      BY <3>1
    <3>2. CASE lease["redis"][call[c].channel] = Free /\ LeaseSet(c, "redis", Token(c))
      <4>1. \A ch \in Channels : ch # call[c].channel =>
               lease'["redis"][ch] = lease["redis"][ch]
        BY <1>r, <2>2, <3>2, LeaseWritten, OwnToken
      <4>2. \A d \in Calls : call[d].claimed => call[d].channel # call[c].channel
        BY <2>1, <3>2, OwnToken DEF Leased
      <4> QED
        BY <1>c, <4>1, <4>2
    <3> QED
      BY <1>2, <3>1, <3>2, ClaimErrsEffect
  <2> QED
    BY <1>2, <1>k, <2>1, <2>2, <2>3, ClaimErrsEffect DEF Changed
<1>3. ASSUME NEW c \in Calls, Release(c)
      PROVE  Goal
  <2>1. /\ online /\ \A d \in Calls : Leased(d)
        /\ disturbed = disturbed' /\ UNCHANGED online /\ call[c].channel \in Channels
    BY <1>3, <1>o, HasChannel DEF Release
  <2>2. \A ch \in Channels : \/ lease'["redis"][ch] = lease["redis"][ch]
                             \/ lease["redis"][ch] = Token(c)
    BY <1>3, <1>r, <2>1, ReleaseEffect, LeaseGivenBack
  <2>3. \A d \in Calls : d # c => Token(d) # Token(c)
    BY DEF Token
  <2>4. \A d \in Calls : call[d].claimed /\ d # c =>
           lease'["redis"][call[d].channel] = lease["redis"][call[d].channel]
    BY <1>c, <2>1, <2>2, <2>3 DEF Leased
  <2> QED
    BY <1>3, <1>k, <2>1, <2>4, ReleaseEffect DEF Changed
<1>4. ASSUME NEW s \in Stores, NEW ch \in Channels, Expire(s, ch)
      PROVE  Goal
  <2>1. UNCHANGED <<call, online>> /\ disturbed \subseteq disturbed'
    BY <1>4 DEF Expire
  <2>2. ~\E c \in Calls : Uses(c, ch) /\ Token(c) = lease[s][ch]
    BY <1>4 DEF Expire
  <2>3. online /\ \A d \in Calls : Leased(d)
    BY <1>o, <2>1
  <2>4. \A r \in Stores, x \in Channels :
           lease'[r][x] = IF r = s /\ x = ch THEN Free ELSE lease[r][x]
    BY <1>4, EntryWritten DEF Expire, TypeInv, StoresType
  <2>5. \A d \in Calls : call[d].claimed =>
           lease'["redis"][call[d].channel] = lease["redis"][call[d].channel]
    BY <1>c, <1>r, <2>2, <2>3, <2>4 DEF Leased, Uses
  <2> QED
    BY <1>k, <2>1, <2>5
<1>5. ASSUME NEW p \in Replicas, Crash(p)
      PROVE  Goal
  <2>1. lease'["redis"] = lease["redis"]
    BY <1>5, <1>r, NamesAssumption DEF Crash, TypeInv, StoresType
  <2> QED
    BY <1>5, <1>k, <2>1, CrashEffect
<1>6. ASSUME GoOffline \/ GoOnline
      PROVE  Goal
  BY <1>6, <1>o DEF GoOffline, GoOnline
<1>7. ASSUME NEW c \in Calls, HandOff(c)
      PROVE  Goal
  BY <1>7, <1>k, HandOffEffect, EndedFields DEF Changed, PlaceInv, Submitting, store
<1>8. ASSUME NEW c \in Calls, TakeIdle(c) \/ Wait(c) \/ WaiterTimesOut(c) \/ GiveUp(c)
      PROVE  Goal
  BY <1>8, <1>k, TakeIdleEffect, WaitEffect, WaiterTimesOutEffect, GiveUpEffect
  DEF Changed, PlaceInv, Submitting, store
<1>9. ASSUME NEW c \in Calls,
             \/ Load(c) \/ Ask(c) \/ LoadMisses(c)
             \/ Submit(c) \/ BadSequence(c) \/ Reload(c)
      PROVE  Goal
  BY <1>9, <1>k, LoadEffect, LoadMissesEffect, SubmitEffect, BadSequenceEffect,
     ReloadEffect
  DEF Changed, store
<1>10. ASSUME NEW c \in Calls, Record(c) \/ Forget(c)
       PROVE  Goal
  BY <1>10, <1>k, RecordEffect, ForgetEffect DEF Changed
<1>11. ASSUME NEW c \in Calls, Failing(c)
       PROVE  Goal
  BY <1>11, <1>2, <1>k, LoadErrsEffect, AskFailsEffect, PaymentFailsEffect, AnswerLostEffect,
     BuildFailsEffect, CacheErrsEffect, ReleaseErrsEffect
  DEF Failing, Changed, store
<1>12. ASSUME Land \/ UNCHANGED vars
       PROVE  Goal
  BY <1>12, <1>k DEF Land, vars, store
<1> QED
  BY <1>1, <1>3, <1>4, <1>5, <1>6, <1>7, <1>8, <1>9, <1>10, <1>11, <1>12
  DEF Next, Acquiring, Working

----------------------------------------------------------------------------
(* Undisturbed, all numbers are right *)

LEMMA SequenceInit == Init => SequenceInv
BY NewCallFields DEF Init, SequenceInv, RightNumber, CacheRight, Stores

\* While leases are kept, a channel has one call that works on it.
LEMMA OneWorker ==
    ASSUME LeaseInv, "lease" \notin disturbed, NEW c \in Calls, NEW d \in Calls,
           call[c].claimed, call[d].claimed, call[c].channel = call[d].channel
    PROVE  c = d
BY DEF LeaseInv, Leased, Token

LEMMA SequenceStep ==
    TypeInv /\ PlaceInv /\ WaitersInv /\ LeaseInv /\ SequenceInv /\ [Next]_vars => SequenceInv'
<1> DEFINE Goal == /\ inflight' = {}
                   /\ \A d \in Calls : RightNumber(d)'
                   /\ \A ch \in Channels : CacheRight(ch)'
<1> SUFFICES ASSUME TypeInv, PlaceInv, WaitersInv, LeaseInv, SequenceInv, [Next]_vars,
                    disturbed' = {}
             PROVE  Goal
  BY DEF SequenceInv
<1>t. /\ ledger \in [Channels -> Nat] /\ cached \in [Stores -> [Channels -> Nat]]
      /\ call \in [Calls -> CallType] /\ "redis" \in Stores
  BY DEF TypeInv, ChainType, StoresType, Stores
<1>o. ASSUME disturbed \subseteq disturbed'
      PROVE  /\ disturbed = {} /\ inflight = {} /\ online
             /\ \A d \in Calls : RightNumber(d)
             /\ \A ch \in Channels : CacheRight(ch)
  BY <1>o DEF SequenceInv, LeaseInv
<1>w. ASSUME disturbed = {}, NEW c \in Calls, NEW d \in Calls,
             call[c].pc \in Submitting, call[d].pc \in Submitting,
             call[c].channel = call[d].channel
      PROVE  c = d
  BY <1>w, OneWorker DEF PlaceInv
\* A step that moves calls elsewhere, and writes neither cache nor ledger.
<1>k. ASSUME UNCHANGED <<cached, chain>>, disturbed \subseteq disturbed',
             \A d \in Calls :
                \/ call'[d] = call[d]
                \/ /\ call[d].pc \notin {"record", "forget"}
                   /\ call'[d].pc \notin {"submit", "reload", "record"}
      PROVE  Goal
  BY <1>k, <1>o DEF RightNumber, CacheRight, chain
<1>1. ASSUME NEW c \in Calls, Acquiring(c) \/ GiveUp(c)
      PROVE  Goal
  <2>1. UNCHANGED <<cached, chain, disturbed>>
    BY <1>1 DEF Acquiring, GiveUp, TakeIdle, Wait, WaiterTimesOut, Claim, store
  <2> QED
    BY <1>1, <1>k, <2>1, TakeIdleEffect, WaitEffect, WaiterTimesOutEffect, ClaimEffect,
       GiveUpEffect
    DEF Acquiring, Changed
<1>2a. ASSUME NEW c \in Calls, LoadMisses(c)
       PROVE  Goal
  BY <1>2a, <1>k, LoadMissesEffect DEF Changed, store
<1>2. ASSUME NEW c \in Calls, Load(c) \/ Ask(c)
      PROVE  Goal
  <2>1. /\ disturbed = {} /\ inflight = {} /\ online
        /\ \A d \in Calls : RightNumber(d)
        /\ \A ch \in Channels : CacheRight(ch)
    BY <1>2, <1>o, LoadEffect
  <2>2. /\ call[c].pc \in {"load", "ask"} /\ call[c].channel \in Channels
        /\ call[c].pc = "load" => Start(c) # 0
        /\ UNCHANGED <<cached, ledger, inflight>>
        /\ \A d \in Calls : d # c => call'[d] = call[d]
        /\ call'[c].pc = "submit" /\ UNCHANGED call[c].channel
        /\ call'[c].account = Start(c) /\ call'[c].seq = Start(c)
    BY <1>2, HasChannel, LoadEffect DEF Changed, store, chain
  <2>3. Start(c) = ledger[call[c].channel]
    <3>1. cached["redis"][call[c].channel] \in {0, ledger[call[c].channel]}
      BY <1>w, <2>1, <2>2 DEF CacheRight, Submitting
    <3>2. StoreOf(Home[c]) = "redis"
      BY <2>1 DEF StoreOf
    <3> QED
      BY <2>2, <3>1, <3>2 DEF Start
  <2> QED
    BY <2>1, <2>2, <2>3 DEF RightNumber, CacheRight
<1>3. ASSUME NEW c \in Calls, Submit(c) \/ PaymentFails(c)
      PROVE  Goal
  <2>1. /\ disturbed = {} /\ inflight = {}
        /\ \A d \in Calls : RightNumber(d)
        /\ \A ch \in Channels : CacheRight(ch)
    BY <1>3, <1>o DEF Submit, PaymentFails
  <2>2. /\ call[c].pc = "submit" /\ call[c].channel \in Channels
        /\ UNCHANGED <<cached, inflight>>
        /\ \A d \in Calls : d # c => call'[d] = call[d]
        /\ call'[c].pc \in {"record", "forget"}
        /\ UNCHANGED <<call[c].channel, call[c].account>>
        /\ ledger' = [ledger EXCEPT ![call[c].channel] = @ + 1]
    BY <1>3, HasChannel, SubmitEffect, PaymentFailsEffect DEF Changed, store
  <2>3. /\ ledger'[call[c].channel] = ledger[call[c].channel] + 1
        /\ \A ch \in Channels : ch # call[c].channel => ledger'[ch] = ledger[ch]
    BY <1>t, <2>2
  <2>4. ASSUME NEW d \in Calls
        PROVE  RightNumber(d)'
    <3>1. CASE d = c
      BY <2>1, <2>2, <2>3, <3>1 DEF RightNumber
    <3>2. CASE d # c /\ call[d].pc \in {"submit", "record"}
      <4>1. call[d].channel \in Channels /\ call[d].channel # call[c].channel
        BY <1>w, <2>1, <2>2, <3>2, HasChannel DEF Submitting
      <4> QED
        BY <2>1, <2>2, <2>3, <3>2, <4>1 DEF RightNumber
    <3>3. CASE d # c /\ call[d].pc \notin {"submit", "record"}
      BY <2>1, <2>2, <3>3 DEF RightNumber
    <3> QED
      BY <3>1, <3>2, <3>3
  <2>5. ASSUME NEW ch \in Channels
        PROVE  CacheRight(ch)'
    BY <2>1, <2>2, <2>3 DEF CacheRight
  <2> QED
    BY <2>1, <2>2, <2>4, <2>5
<1>4. ASSUME NEW c \in Calls, BadSequence(c)
      PROVE  Goal
  BY <1>4, <1>o, BadSequenceEffect DEF RightNumber
<1>5. ASSUME NEW c \in Calls, Reload(c)
      PROVE  Goal
  BY <1>5, <1>o, ReloadEffect DEF RightNumber
<1>6. ASSUME NEW c \in Calls, Record(c) \/ Forget(c)
      PROVE  Goal
  <2>1. /\ disturbed = {} /\ inflight = {} /\ StoreOf(Home[c]) = "redis"
        /\ \A d \in Calls : RightNumber(d)
        /\ \A ch \in Channels : CacheRight(ch)
    BY <1>6, <1>o DEF Record, Forget, StoreOf
  <2>2. /\ call[c].pc \in {"record", "forget"} /\ call[c].channel \in Channels
        /\ UNCHANGED <<ledger, inflight>>
        /\ \A d \in Calls : d # c => call'[d] = call[d]
        /\ call'[c].pc = "release"
    BY <1>6, HasChannel, RecordEffect, ForgetEffect DEF Changed, chain
  <2>3. PICK n \in Nat : n \in {0, ledger[call[c].channel]} /\ CacheSet(c, n)
    <3>1. CASE Record(c)
      <4>1. /\ call[c].account + 1 \in Nat
            /\ call[c].account + 1 = ledger[call[c].channel]
        BY <1>t, <2>1, <3>1 DEF Record, RightNumber, CallType
      <4> QED
        BY <3>1, <4>1, RecordEffect
    <3>2. CASE Forget(c)
      BY <3>2, ForgetEffect
    <3> QED
      BY <1>6, <3>1, <3>2
  <2>4. \A ch \in Channels : cached'["redis"][ch] =
           IF ch = call[c].channel THEN n ELSE cached["redis"][ch]
    BY <1>t, <2>1, <2>2, <2>3, CacheWritten
  <2>5. \A d \in Calls : RightNumber(d)'
    BY <2>1, <2>2 DEF RightNumber
  <2>6. ASSUME NEW ch \in Channels
        PROVE  CacheRight(ch)'
    BY <2>1, <2>2, <2>3, <2>4 DEF CacheRight
  <2> QED
    BY <2>1, <2>2, <2>5, <2>6
<1>7. ASSUME NEW c \in Calls, Release(c) \/ HandOff(c)
      PROVE  Goal
  <2>1. UNCHANGED <<cached, chain, disturbed>>
    BY <1>7 DEF Release, HandOff, store
  <2> QED
    BY <1>7, <1>k, <2>1, ReleaseEffect, HandOffEffect, EndedFields DEF Changed
<1>8. ASSUME NEW c \in Calls,
             ClaimErrs(c) \/ LoadErrs(c) \/ AskFails(c) \/ BuildFails(c) \/ ReleaseErrs(c)
      PROVE  Goal
  <2>1. UNCHANGED <<cached, chain, disturbed>>
    BY <1>8 DEF ClaimErrs, LoadErrs, AskFails, BuildFails, ReleaseErrs, store
  <2> QED
    BY <1>8, <1>k, <2>1, ClaimErrsEffect, LoadErrsEffect, AskFailsEffect, BuildFailsEffect,
       ReleaseErrsEffect
    DEF Changed
<1>9. ASSUME NEW c \in Calls, AnswerLost(c) \/ CacheErrs(c)
      PROVE  Goal
  BY <1>9 DEF AnswerLost, CacheErrs
<1>10. ASSUME NEW s \in Stores, NEW ch \in Channels, Expire(s, ch)
       PROVE  Goal
  <2>1. UNCHANGED <<call, cached, chain>> /\ disturbed \subseteq disturbed'
    BY <1>10 DEF Expire
  <2> QED
    BY <1>k, <2>1
<1>11. ASSUME NEW p \in Replicas, Crash(p)
       PROVE  Goal
  BY <1>11 DEF Crash
<1>12. ASSUME Land
       PROVE  Goal
  BY <1>12, <1>o DEF Land
<1>13. ASSUME GoOffline \/ GoOnline \/ UNCHANGED vars
       PROVE  Goal
  <2>1. UNCHANGED <<call, cached, chain>> /\ disturbed \subseteq disturbed'
    BY <1>13 DEF GoOffline, GoOnline, vars, store
  <2> QED
    BY <1>k, <2>1
<1> QED
  BY <1>1, <1>2, <1>2a, <1>3, <1>4, <1>5, <1>6, <1>7, <1>8, <1>9, <1>10, <1>11, <1>12, <1>13
  DEF Next, Working, Failing

----------------------------------------------------------------------------
(* The theorems *)

LEMMA Invariance == Spec => []IInv
<1>1. Init => IInv
  BY TypeInit, PlaceInit, NumbersInit, PaymentInit, WaitersInit, HandsInit, LeaseInit,
     SequenceInit
  DEF IInv
<1>2. IInv /\ [Next]_vars => IInv'
  BY TypeStep, PlaceStep, NumbersStep, PaymentStep, InflightStep, WaitersStep, HandsStep,
     LeaseStep, SequenceStep
  DEF IInv
<1> QED
  BY <1>1, <1>2, PTL DEF Spec

\* Every variable keeps its type, and no cached sequence number is ever ahead
\* of the ledger's, on whichever store a replica reads it from: recordSequence
\* writes the number of a transaction the ledger took, and it only grows.
THEOREM TypeCorrect == Spec => []TypeOK
<1>1. IInv => TypeOK
  <2> SUFFICES ASSUME IInv PROVE TypeOK
    OBVIOUS
  <2>1. QueuesType /\ StoresType /\ ChainType /\ FaultsType /\ call \in [Calls -> CallType]
    BY DEF IInv, TypeInv
  <2>2. \A s \in Stores : \A ch \in Channels : cached[s][ch] \in 0 .. ledger[ch]
    BY <2>1 DEF IInv, NumbersInv, StoresType, ChainType
  <2> QED
    BY <2>1, <2>2 DEF TypeOK, QueuesType, StoresType, ChainType, FaultsType
<1> QED
  BY <1>1, Invariance, PTL

\* withChannel and submitWithSequenceRecovery pay at most once and tell the
\* caller what happened, for any number of attempts, replicas and faults.
THEOREM CallerToldTheTruth == Spec => []ToldTheTruth
<1>1. IInv => ToldTheTruth
  BY DEF IInv, PaymentInv, ToldTheTruth, TypeInv, CallType
<1> QED
  BY <1>1, Invariance, PTL

\* acquire, the hand-off to waiters and their timers, refused claims and
\* restarts never lose a channel of a replica and never give it to two calls.
THEOREM ChannelNeverLost == Spec => []ChannelAccounted
<1>1. ASSUME IInv, NEW p \in Replicas, NEW ch \in Channels
      PROVE  Cardinality(Places(idle[p], ch))
               + Cardinality({c \in Calls : Home[c] = p /\ call[c].channel = ch}) = 1
  <2> DEFINE H == {c \in Calls : Home[c] = p /\ call[c].channel = ch}
  <2>1. DOMAIN idle[p] = 1 .. Len(idle[p]) /\ OneHand(p, ch)
    BY <1>1, LenProperties DEF IInv, TypeInv, QueuesType, HandsInv
  <2>2. CASE Once(idle[p], ch) /\ \A c \in Calls : ~Holds(c, p, ch)
    <3>1. H = {}
      BY <2>2 DEF Holds
    <3>2. \E i : Places(idle[p], ch) = {i}
      BY <2>1, <2>2 DEF Once, Places
    <3>3. Cardinality(H) = 0 /\ Cardinality(Places(idle[p], ch)) = 1
      BY <3>1, <3>2, FS_EmptySet, FS_Singleton
    <3> QED
      BY <3>3
  <2>3. CASE /\ Absent(idle[p], ch)
             /\ \E c \in Calls : Holds(c, p, ch) /\ \A d \in Calls : Holds(d, p, ch) => d = c
    <3>1. Places(idle[p], ch) = {}
      BY <2>1, <2>3 DEF Absent, Places
    <3>2. \E c : H = {c}
      BY <2>3 DEF Holds
    <3>3. Cardinality(H) = 1 /\ Cardinality(Places(idle[p], ch)) = 0
      BY <3>1, <3>2, FS_EmptySet, FS_Singleton
    <3> QED
      BY <3>3
  <2> QED
    BY <2>1, <2>2, <2>3 DEF OneHand
<1>2. IInv => ChannelAccounted
  BY <1>1 DEF ChannelAccounted
<1> QED
  BY <1>2, Invariance, PTL

\* Until a lease, an answer, a cache write or Redis is lost, the lease keeps
\* every other call off a channel, and no submission is tx_bad_seq.
THEOREM NoCollisionByItself == Spec => []NoCollision
<1>1. ASSUME IInv, disturbed = {}
      PROVE  /\ \A c \in Calls :
                  call[c].pc = "submit" => Fits(call[c].channel, call[c].seq + 1)
             /\ \A c, d \in Calls : \A ch \in Channels : Uses(c, ch) /\ Uses(d, ch) => c = d
  <2>1. LeaseInv /\ \A c \in Calls : RightNumber(c)
    BY <1>1 DEF IInv, SequenceInv
  <2> QED
    BY <1>1, <2>1, OneWorker DEF RightNumber, Fits, Uses
<1>2. IInv => NoCollision
  BY <1>1 DEF NoCollision
<1> QED
  BY <1>2, Invariance, PTL
=============================================================================
