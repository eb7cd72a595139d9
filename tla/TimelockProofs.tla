--------------------------- MODULE TimelockProofs ---------------------------
(***************************************************************************)
(* Proofs about Timelock, for any sets of addresses and amounts and any    *)
(* values of the delay and the bounds.                                     *)
(***************************************************************************)
EXTENDS Timelock, FiniteSetTheorems, SequenceTheorems, TLAPS

\* A list without repetitions has as many members as places, so a threshold
\* within its length can be reached.
LEMMA InjectiveListCount ==
    ASSUME NEW list \in Seq(Addresses), IsInjective(list)
    PROVE  /\ ToSet(list) \in SUBSET Addresses
           /\ IsFiniteSet(ToSet(list))
           /\ Cardinality(ToSet(list)) = Len(list)
<1>1. /\ Len(list) \in Nat
      /\ DOMAIN list = 1..Len(list)
      /\ list \in [1..Len(list) -> Addresses]
  BY LenProperties
<1>2. ToSet(list) = {list[i] : i \in 1..Len(list)}
  BY DEF ToSet
<1>3. list \in Bijection(1..Len(list), ToSet(list))
  BY <1>1, <1>2 DEF IsInjective, Bijection, Injection, Surjection
<1>4. ExistsBijection(1..Len(list), ToSet(list))
  BY <1>3 DEF ExistsBijection
<1> QED
  BY <1>1, <1>2, <1>4, FS_NatBijection, FS_CountingElements

\* Resolving a request changes its status and nothing else.
LEMMA ResolvedFact ==
    ASSUME NEW r \in DOMAIN requests, NEW s \in {"Executed", "Cancelled"},
           \A q \in DOMAIN requests : requests[q] \in Request
    PROVE  /\ DOMAIN Resolved(r, s) = DOMAIN requests
           /\ \A q \in DOMAIN requests : Resolved(r, s)[q] \in Request
           /\ Resolved(r, s)[r] = [requests[r] EXCEPT !.status = s]
           /\ Resolved(r, s)[r].status = s
           /\ \A q \in DOMAIN requests : q # r => Resolved(r, s)[q] = requests[q]
BY DEF Resolved, Request

\* saturating_add stays in the range of the timestamp.
LEMMA SaturatingAddType ==
    ASSUME NEW t \in 0 .. MaxTime
    PROVE  SaturatingAdd(t, Delay) \in 0 .. MaxTime
BY TimelockAssumption DEF SaturatingAdd

\* next_id is the number of requests, the first id not given out.
LEMMA NextIdFact ==
    ASSUME NEW n \in 0 .. MaxRequests, DOMAIN requests = 0 .. n - 1
    PROVE  NextId = n
<1>1. n \in Nat /\ 0 \in Int /\ n - 1 \in Int
  BY TimelockAssumption
<1>2. Cardinality(0 .. n - 1) = IF 0 > n - 1 THEN 0 ELSE n - 1 - 0 + 1
  BY <1>1, FS_Interval
<1> QED
  BY <1>1, <1>2 DEF NextId

----------------------------------------------------------------------------
(* Type correctness *)

\* What left the contract and what it holds never exceed what was paid in:
\* the part of the accounting that keeps the balance in its range.
Covered == reserve + spent <= deposited

\* The conjuncts of TypeOK, by what they are about.
ConfigType ==
    config = <<>> \/ \E a \in Addresses, m \in Minimums :
                        config = << [admin |-> a, minimum |-> m] >>

\* Nothing can be requested before initialize, which resets the requests.
EmptyAtFirst == ~Initialized => DOMAIN requests = {}

RequestsType ==
    /\ \E n \in 0 .. MaxRequests : DOMAIN requests = 0 .. n - 1
    /\ \A r \in DOMAIN requests : requests[r] \in Request

VotesType ==
    /\ DOMAIN votes \subseteq DOMAIN requests
    /\ \A r \in DOMAIN votes : votes[r] \in SUBSET Addresses

FundsType ==
    /\ reserve \in 0 .. MaxReserve
    /\ deposited \in 0 .. MaxReserve
    /\ spent \in 0 .. MaxReserve
    /\ Covered

HistoryType ==
    /\ DOMAIN cancelledBy \subseteq DOMAIN requests
    /\ DOMAIN executedAt \subseteq DOMAIN requests
    /\ \A r \in DOMAIN executedAt : executedAt[r] \in 0 .. MaxTime

TypeParts ==
    /\ ConfigType /\ governance \in Governance /\ RequestsType /\ VotesType
    /\ now \in 0 .. MaxTime /\ FundsType /\ HistoryType /\ EmptyAtFirst

LEMMA TypePartsDef == TypeOK /\ Covered /\ EmptyAtFirst <=> TypeParts
BY DEF TypeOK, TypeParts, ConfigType, RequestsType, VotesType, FundsType,
       HistoryType

LEMMA TypeInit == Init => TypeParts
<1> SUFFICES ASSUME Init PROVE TypeParts
  OBVIOUS
<1>1. DOMAIN requests = 0 .. 0 - 1 /\ 0 \in 0 .. MaxRequests
  BY TimelockAssumption DEF Init
<1>2. DOMAIN votes = {} /\ DOMAIN cancelledBy = {} /\ DOMAIN executedAt = {}
  BY DEF Init
<1> QED
  BY <1>1, <1>2, TimelockAssumption
  DEF Init, TypeParts, ConfigType, RequestsType, VotesType, FundsType, HistoryType,
      Covered, Governance, EmptyAtFirst

LEMMA TypeStep == TypeParts /\ [Next]_vars => TypeParts'
<1> SUFFICES ASSUME TypeParts, [Next]_vars PROVE TypeParts'
  OBVIOUS
<1> USE TimelockAssumption DEF TypeParts
<1>n. PICK n \in 0 .. MaxRequests : DOMAIN requests = 0 .. n - 1
  BY DEF RequestsType
<1>c. UNCHANGED config => ConfigType'
  BY DEF ConfigType
<1>v. UNCHANGED <<requests, votes>> => VotesType'
  BY DEF VotesType
<1>r. UNCHANGED requests => RequestsType'
  BY DEF RequestsType
<1>f. UNCHANGED <<reserve, deposited, spent>> => FundsType'
  BY DEF FundsType, Covered
<1>h. UNCHANGED <<requests, cancelledBy, executedAt>> => HistoryType'
  BY DEF HistoryType
<1>e. UNCHANGED config /\ DOMAIN requests' = DOMAIN requests => EmptyAtFirst'
  BY DEF EmptyAtFirst, Initialized
<1>1. ASSUME NEW a \in Addresses, NEW m \in Minimums, Initialize(a, m)
      PROVE  TypeParts'
  <2>0. DOMAIN requests = {}
    BY <1>1 DEF Initialize, EmptyAtFirst
  <2>1. /\ DOMAIN requests' = {} /\ DOMAIN votes' = {}
        /\ UNCHANGED <<reserve, now, deposited, spent, cancelledBy, executedAt>>
    BY <1>1 DEF Initialize, history
  <2>2. governance' \in Governance
    BY <1>1 DEF Initialize, Governance
  <2>3. ConfigType'
    <3>1. config' = << [admin |-> a, minimum |-> m] >>
      BY <1>1 DEF Initialize
    <3> QED
      BY <3>1, Zenon DEF ConfigType
  <2>4. RequestsType'
    <3>1. DOMAIN requests' = 0 .. 0 - 1 /\ 0 \in 0 .. MaxRequests
      BY <2>1
    <3> QED
      BY <2>1, <3>1 DEF RequestsType
  <2>5. VotesType'
    BY <2>1 DEF VotesType
  <2>6. HistoryType' /\ EmptyAtFirst'
    BY <2>0, <2>1 DEF HistoryType, EmptyAtFirst
  <2> QED
    BY <2>1, <2>2, <2>3, <2>4, <2>5, <2>6, <1>f
<1>2. ASSUME NEW to \in Recipients, NEW amount \in Amounts,
             InitiateWithdrawal(to, amount)
      PROVE  TypeParts'
  <2> DEFINE new == [recipient |-> to, amount |-> amount, requestedAt |-> now,
                     executableAt |-> SaturatingAdd(now, Delay),
                     status |-> "Pending"]
  <2>1. NextId = n /\ n < MaxRequests
    BY <1>n, <1>2, NextIdFact DEF InitiateWithdrawal
  <2>2. /\ requests' = With(requests, n, new)
        /\ UNCHANGED <<config, governance, votes, reserve, now, deposited, spent,
                       cancelledBy, executedAt>>
    BY <1>2, <2>1 DEF InitiateWithdrawal, history
  <2>3. DOMAIN requests' = DOMAIN requests \cup {n}
    BY <2>2 DEF With
  <2>4. DOMAIN requests' = 0 .. (n + 1) - 1 /\ n + 1 \in 0 .. MaxRequests
    BY <1>n, <2>1, <2>3
  <2>5. new \in Request
    BY <1>2, SaturatingAddType DEF InitiateWithdrawal, Request
  <2>6. \A r \in DOMAIN requests' : requests'[r] \in Request
    <3> HIDE DEF new
    <3>1. /\ requests'[n] = new
          /\ \A q \in DOMAIN requests : q # n => requests'[q] = requests[q]
      BY <2>2 DEF With
    <3> QED
      BY <2>3, <2>5, <3>1 DEF RequestsType
  <2>7. RequestsType'
    BY <2>4, <2>6 DEF RequestsType
  <2>8. VotesType'
    BY <2>2, <2>3 DEF VotesType
  <2>9. HistoryType' /\ EmptyAtFirst'
    BY <1>2, <2>2, <2>3 DEF HistoryType, EmptyAtFirst, InitiateWithdrawal, Initialized
  <2> QED
    BY <2>2, <2>7, <2>8, <2>9, <1>c, <1>f
<1>3. ASSUME NEW list \in AdminLists, NEW k, ConfigureGovernance(list, k)
      PROVE  TypeParts'
  <2>1. governance' \in Governance
    <3>1. list \in Seq(Addresses) /\ IsInjective(list) /\ k \in 1 .. Len(list)
      BY <1>3 DEF ConfigureGovernance
    <3>2. ToSet(list) \in SUBSET Addresses /\ k \in Nat
      BY <3>1, InjectiveListCount
    <3> QED
      BY <1>3, <3>2 DEF ConfigureGovernance, Governance
  <2>2. /\ DOMAIN votes' = {}
        /\ UNCHANGED <<config, requests, reserve, now, deposited, spent,
                       cancelledBy, executedAt>>
    BY <1>3 DEF ConfigureGovernance, history
  <2>3. VotesType'
    BY <2>2 DEF VotesType
  <2> QED
    BY <2>1, <2>2, <2>3, <1>c, <1>r, <1>f, <1>h, <1>e
<1>4. ASSUME NEW r \in Ids, NEW a \in Addresses, VoteCancel(r, a)
      PROVE  TypeParts'
  <2> DEFINE approvals == VotesFor(r) \cup {a}
  <2>1. r \in DOMAIN requests /\ approvals \in SUBSET Addresses
    BY <1>4 DEF VoteCancel, Pending, VotesFor, VotesType
  <2>2. UNCHANGED <<config, governance, reserve, now, deposited, spent, executedAt>>
    BY <1>4 DEF VoteCancel
  <2>3. CASE Cancel(r, approvals)
    <3>1. /\ DOMAIN requests' = DOMAIN requests
          /\ \A q \in DOMAIN requests : requests'[q] \in Request
      BY <2>1, <2>3, ResolvedFact DEF Cancel, RequestsType
    <3>2. /\ DOMAIN votes' \subseteq DOMAIN votes
          /\ \A q \in DOMAIN votes' : votes'[q] = votes[q]
      BY <2>3 DEF Cancel, WithoutVotes
    <3>3. DOMAIN cancelledBy' \subseteq DOMAIN requests
      <4>1. DOMAIN cancelledBy' = DOMAIN cancelledBy \cup {r}
        BY <2>3 DEF Cancel, With
      <4> QED
        BY <2>1, <4>1 DEF HistoryType
    <3>4. RequestsType' /\ VotesType'
      BY <3>1, <3>2 DEF RequestsType, VotesType
    <3>5. HistoryType'
      BY <2>2, <3>1, <3>3 DEF HistoryType
    <3> QED
      BY <2>2, <3>1, <3>4, <3>5, <1>c, <1>f, <1>e
  <2>4. CASE CountVote(r, approvals)
    <3>1. UNCHANGED <<requests, cancelledBy>>
      BY <2>4 DEF CountVote
    <3>2. /\ DOMAIN votes' = DOMAIN votes \cup {r}
          /\ votes'[r] = approvals
          /\ \A q \in DOMAIN votes : q # r => votes'[q] = votes[q]
      BY <2>4 DEF CountVote, With
    <3>3. \A q \in DOMAIN votes' : votes'[q] \in SUBSET Addresses
      <4> HIDE DEF approvals
      <4> QED
        BY <2>1, <3>2 DEF VotesType
    <3>4. VotesType'
      BY <2>1, <3>1, <3>2, <3>3 DEF VotesType
    <3> QED
      BY <2>2, <3>1, <3>4, <1>c, <1>r, <1>f, <1>h, <1>e
  <2> QED
    BY <1>4, <2>3, <2>4 DEF VoteCancel
<1>5. ASSUME NEW r \in Ids, ExecuteWithdrawal(r)
      PROVE  TypeParts'
  <2>1. /\ r \in DOMAIN requests /\ requests[r].amount \in Nat
        /\ UNCHANGED <<config, governance, now, deposited, spent, cancelledBy>>
    BY <1>5 DEF ExecuteWithdrawal, Pending, Request, RequestsType
  <2>2. /\ DOMAIN requests' = DOMAIN requests
        /\ \A q \in DOMAIN requests : requests'[q] \in Request
    BY <1>5, <2>1, ResolvedFact DEF ExecuteWithdrawal, RequestsType
  <2>3. /\ DOMAIN votes' \subseteq DOMAIN votes
        /\ \A q \in DOMAIN votes' : votes'[q] = votes[q]
    BY <1>5 DEF ExecuteWithdrawal, WithoutVotes
  <2>4. /\ DOMAIN executedAt' = DOMAIN executedAt \cup {r}
        /\ \A q \in DOMAIN executedAt' : executedAt'[q] \in 0 .. MaxTime
    <3>1. /\ DOMAIN executedAt' = DOMAIN executedAt \cup {r}
          /\ executedAt'[r] = now
          /\ \A q \in DOMAIN executedAt : q # r => executedAt'[q] = executedAt[q]
      BY <1>5 DEF ExecuteWithdrawal, With
    <3> QED
      BY <3>1 DEF HistoryType
  <2>5. FundsType'
    BY <1>5, <2>1 DEF ExecuteWithdrawal, FundsType, Covered
  <2>6. RequestsType' /\ VotesType'
    BY <2>2, <2>3 DEF RequestsType, VotesType
  <2>7. HistoryType'
    BY <2>1, <2>2, <2>4 DEF HistoryType
  <2> QED
    BY <2>1, <2>2, <2>5, <2>6, <2>7, <1>c, <1>e
<1>6. ASSUME NEW amount \in Amounts, WithdrawImmediate(amount)
      PROVE  TypeParts'
  <2>1. FundsType'
    BY <1>6 DEF WithdrawImmediate, FundsType, Covered
  <2> QED
    BY <1>6, <2>1, <1>c, <1>r, <1>v, <1>h, <1>e DEF WithdrawImmediate
<1>7. ASSUME NEW amount \in Amounts, Deposit(amount)
      PROVE  TypeParts'
  <2>1. FundsType'
    BY <1>7 DEF Deposit, FundsType, Covered
  <2> QED
    BY <1>7, <2>1, <1>c, <1>r, <1>v, <1>h, <1>e DEF Deposit
<1>8. CASE Tick
  BY <1>8, <1>c, <1>r, <1>v, <1>f, <1>h, <1>e DEF Tick, history
<1>9. CASE UNCHANGED vars
  BY <1>9, <1>c, <1>r, <1>v, <1>f, <1>h, <1>e DEF vars
<1> QED
  BY <1>1, <1>2, <1>3, <1>4, <1>5, <1>6, <1>7, <1>8, <1>9 DEF Next

\* Every stored value keeps its declared type; the balance is never negative
\* and never more than what was paid in.
THEOREM TypeCorrect == Spec => [](TypeOK /\ Covered)
<1>1. TypeParts => TypeOK /\ Covered
  BY TypePartsDef
<1> QED
  BY <1>1, TypeInit, TypeStep, PTL DEF Spec

----------------------------------------------------------------------------
(* Cancellation *)

\* Why a cancellation takes exactly the threshold: the threshold can be reached
\* by the admins, and the votes counted so far are admins' and too few.
QuorumInv ==
    /\ IsFiniteSet(governance.admins)
    /\ Initialized => governance.threshold \in 1 .. Cardinality(governance.admins)
    /\ \A r \in DOMAIN votes :
          /\ votes[r] \subseteq governance.admins
          /\ Cardinality(votes[r]) < governance.threshold
    /\ CancelledByQuorum

\* The votes of a request are admins' and fewer than the threshold, also when
\* nobody has voted.
LEMMA VotesBelowThreshold ==
    ASSUME QuorumInv, Initialized, NEW r
    PROVE  /\ VotesFor(r) \subseteq governance.admins
           /\ IsFiniteSet(VotesFor(r))
           /\ Cardinality(VotesFor(r)) \in Nat
           /\ Cardinality(VotesFor(r)) < governance.threshold
           /\ governance.threshold \in Nat
<1>1. Cardinality(governance.admins) \in Nat
  BY FS_CardinalityType DEF QuorumInv
<1>2. governance.threshold \in Nat /\ 0 < governance.threshold
  BY <1>1 DEF QuorumInv
<1>3. CASE r \in DOMAIN votes
  BY <1>2, <1>3, FS_Subset, FS_CardinalityType DEF QuorumInv, VotesFor
<1>4. CASE r \notin DOMAIN votes
  BY <1>2, <1>4, FS_EmptySet DEF VotesFor
<1> QED
  BY <1>3, <1>4

LEMMA QuorumInit == Init => QuorumInv
<1> SUFFICES ASSUME Init PROVE QuorumInv
  OBVIOUS
<1>1. DOMAIN votes = {} /\ DOMAIN requests = {} /\ governance.admins = {} /\ ~Initialized
  BY DEF Init, Initialized
<1> QED
  BY <1>1, FS_EmptySet DEF QuorumInv, CancelledByQuorum

LEMMA QuorumStep == TypeParts /\ QuorumInv /\ [Next]_vars => QuorumInv'
<1> SUFFICES ASSUME TypeParts, QuorumInv, [Next]_vars PROVE QuorumInv'
  OBVIOUS
<1> USE TimelockAssumption
<1>u. ASSUME UNCHANGED <<config, governance, votes, requests, cancelledBy>>
      PROVE  QuorumInv'
  BY <1>u DEF QuorumInv, CancelledByQuorum, Initialized
<1>1. ASSUME NEW a \in Addresses, NEW m \in Minimums, Initialize(a, m)
      PROVE  QuorumInv'
  <2>1. /\ DOMAIN requests' = {} /\ DOMAIN votes' = {}
        /\ governance'.admins = {a} /\ governance'.threshold = 1
    BY <1>1 DEF Initialize
  <2>2. IsFiniteSet({a}) /\ Cardinality({a}) = 1
    BY FS_Singleton
  <2> QED
    BY <2>1, <2>2 DEF QuorumInv, CancelledByQuorum
<1>2. ASSUME NEW to \in Recipients, NEW amount \in Amounts,
             InitiateWithdrawal(to, amount)
      PROVE  QuorumInv'
  <2>1. UNCHANGED <<config, governance, votes, cancelledBy>>
    BY <1>2 DEF InitiateWithdrawal, history
  <2>2. CancelledByQuorum'
    BY <1>2, <2>1 DEF InitiateWithdrawal, With, QuorumInv, CancelledByQuorum
  <2> QED
    BY <2>1, <2>2 DEF QuorumInv, Initialized
<1>3. ASSUME NEW list \in AdminLists, NEW k, ConfigureGovernance(list, k)
      PROVE  QuorumInv'
  <2>1. list \in Seq(Addresses) /\ IsInjective(list) /\ k \in 1 .. Len(list)
    BY <1>3 DEF ConfigureGovernance
  <2>2. /\ governance'.admins = ToSet(list) /\ governance'.threshold = k
        /\ DOMAIN votes' = {}
        /\ UNCHANGED <<requests, cancelledBy>>
    BY <1>3 DEF ConfigureGovernance, history
  <2>3. IsFiniteSet(ToSet(list)) /\ Cardinality(ToSet(list)) = Len(list)
    BY <2>1, InjectiveListCount
  <2> QED
    BY <2>1, <2>2, <2>3 DEF QuorumInv, CancelledByQuorum
<1>4. ASSUME NEW r \in Ids, NEW a \in Addresses, VoteCancel(r, a)
      PROVE  QuorumInv'
  <2> DEFINE approvals == VotesFor(r) \cup {a}
  <2>1. /\ Initialized /\ a \in governance.admins /\ r \in DOMAIN requests
        /\ a \notin VotesFor(r)
        /\ UNCHANGED <<config, governance>>
    BY <1>4 DEF VoteCancel, Pending
  <2>2. /\ approvals \subseteq governance.admins
        /\ Cardinality(approvals) = Cardinality(VotesFor(r)) + 1
        /\ Cardinality(VotesFor(r)) \in Nat
        /\ Cardinality(VotesFor(r)) < governance.threshold
        /\ governance.threshold \in Nat
    BY <2>1, VotesBelowThreshold, FS_AddElement
  <2>3. CASE Cancel(r, approvals) /\ Cardinality(approvals) >= governance.threshold
    <3>1. Cardinality(approvals) = governance.threshold
      BY <2>2, <2>3
    <3>2. approvals \cap governance.admins = approvals
      BY <2>2
    <3> HIDE DEF approvals
    <3>3. /\ DOMAIN votes' \subseteq DOMAIN votes
          /\ \A q \in DOMAIN votes' : votes'[q] = votes[q]
      BY <2>3 DEF Cancel, WithoutVotes
    <3>4. /\ DOMAIN requests' = DOMAIN requests
          /\ \A q \in DOMAIN requests : q # r => requests'[q] = requests[q]
      BY <2>3 DEF Cancel, Resolved
    <3>5. /\ DOMAIN cancelledBy' = DOMAIN cancelledBy \cup {r}
          /\ cancelledBy'[r] = [signers |-> approvals, needed |-> governance.threshold]
          /\ \A q \in DOMAIN cancelledBy : q # r => cancelledBy'[q] = cancelledBy[q]
      BY <2>3, <3>2 DEF Cancel, With
    <3>6. CancelledByQuorum'
      BY <3>1, <3>4, <3>5 DEF QuorumInv, CancelledByQuorum
    <3> QED
      BY <2>1, <3>3, <3>6 DEF QuorumInv, Initialized
  <2>4. CASE CountVote(r, approvals) /\ Cardinality(approvals) < governance.threshold
    <3>1. UNCHANGED <<requests, cancelledBy>>
      BY <2>4 DEF CountVote
    <3> HIDE DEF approvals
    <3>2. /\ DOMAIN votes' = DOMAIN votes \cup {r}
          /\ votes'[r] = approvals
          /\ \A q \in DOMAIN votes : q # r => votes'[q] = votes[q]
      BY <2>4 DEF CountVote, With
    <3>3. CancelledByQuorum'
      BY <3>1 DEF QuorumInv, CancelledByQuorum
    <3> QED
      BY <2>1, <2>2, <2>4, <3>2, <3>3 DEF QuorumInv, Initialized
  <2> HIDE DEF approvals
  <2>5. Cardinality(approvals) >= governance.threshold
           \/ Cardinality(approvals) < governance.threshold
    BY <2>2
  <2> QED
    BY <1>4, <2>3, <2>4, <2>5 DEF VoteCancel, approvals
<1>5. ASSUME NEW r \in Ids, ExecuteWithdrawal(r)
      PROVE  QuorumInv'
  <2>1. /\ r \in DOMAIN requests
        /\ UNCHANGED <<config, governance, cancelledBy>>
        /\ requests' = Resolved(r, "Executed")
    BY <1>5 DEF ExecuteWithdrawal, Pending
  <2>2. /\ DOMAIN votes' \subseteq DOMAIN votes
        /\ \A q \in DOMAIN votes' : votes'[q] = votes[q]
    BY <1>5 DEF ExecuteWithdrawal, WithoutVotes
  <2>3. CancelledByQuorum'
    <3>1. /\ DOMAIN requests' = DOMAIN requests
          /\ requests'[r].status = "Executed"
          /\ \A q \in DOMAIN requests : q # r => requests'[q] = requests[q]
      BY <2>1, ResolvedFact DEF TypeParts, RequestsType
    <3> QED
      BY <2>1, <3>1 DEF QuorumInv, CancelledByQuorum
  <2> QED
    BY <2>1, <2>2, <2>3 DEF QuorumInv, Initialized
<1>6. CASE \/ \E amount \in Amounts : WithdrawImmediate(amount) \/ Deposit(amount)
           \/ Tick \/ UNCHANGED vars
  BY <1>6, <1>u DEF WithdrawImmediate, Deposit, Tick, vars, history
<1> QED
  BY <1>1, <1>2, <1>3, <1>4, <1>5, <1>6 DEF Next

LEMMA QuorumAlways == Spec => [](TypeParts /\ QuorumInv)
BY TypeInit, TypeStep, QuorumInit, QuorumStep, PTL DEF Spec

\* A request is cancelled by exactly the threshold's number of distinct
\* governance admins, however the admins and the threshold were changed while
\* it was pending.
THEOREM CancelledOnlyByQuorum == Spec => []CancelledByQuorum
<1>1. QuorumInv => CancelledByQuorum
  BY DEF QuorumInv
<1> QED
  BY <1>1, QuorumAlways, PTL

\* No change of the governance leaves a pending request that nobody can cancel,
\* or one that is cancelled without a vote of a current admin.
THEOREM CancellationStaysPossible == Spec => []CancellationPossible
<1>1. TypeParts /\ QuorumInv => CancellationPossible
  <2> SUFFICES ASSUME TypeParts, QuorumInv, NEW r \in DOMAIN requests, Pending(r)
               PROVE  LET missing == governance.threshold - Cardinality(VotesFor(r)) IN
                      /\ VotesFor(r) \subseteq governance.admins
                      /\ missing > 0
                      /\ missing <= Cardinality(governance.admins \ VotesFor(r))
    BY DEF CancellationPossible
  <2>1. Initialized
    BY DEF TypeParts, EmptyAtFirst
  <2>2. /\ VotesFor(r) \subseteq governance.admins
        /\ Cardinality(VotesFor(r)) \in Nat
        /\ Cardinality(VotesFor(r)) < governance.threshold
    BY <2>1, VotesBelowThreshold
  <2>3. /\ Cardinality(governance.admins) \in Nat
        /\ governance.threshold \in 1 .. Cardinality(governance.admins)
    BY <2>1, FS_CardinalityType DEF QuorumInv
  <2>4. governance.admins \cap VotesFor(r) = VotesFor(r)
    BY <2>2
  <2>5. Cardinality(governance.admins \ VotesFor(r))
          = Cardinality(governance.admins) - Cardinality(VotesFor(r))
    BY <2>4, FS_Difference DEF QuorumInv
  <2> QED
    BY <2>2, <2>3, <2>5
<1> QED
  BY <1>1, QuorumAlways, PTL

----------------------------------------------------------------------------
(* The delay, and the life of a request *)

\* The term of a request is its delay, cut off at the last timestamp, and it
\* was over when the request was executed.
DelayInv ==
    \A r \in DOMAIN requests :
        /\ requests[r].executableAt = SaturatingAdd(requests[r].requestedAt, Delay)
        /\ requests[r].status = "Executed" =>
              r \in DOMAIN executedAt /\ executedAt[r] >= requests[r].executableAt

LEMMA DelayStep == TypeParts /\ DelayInv /\ [Next]_vars => DelayInv'
<1> SUFFICES ASSUME TypeParts, DelayInv, [Next]_vars PROVE DelayInv'
  OBVIOUS
<1>u. ASSUME UNCHANGED <<requests, executedAt>> PROVE DelayInv'
  BY <1>u DEF DelayInv
<1>1. ASSUME NEW a \in Addresses, NEW m \in Minimums, Initialize(a, m)
      PROVE  DelayInv'
  <2>1. DOMAIN requests' = {}
    BY <1>1 DEF Initialize
  <2> QED
    BY <2>1 DEF DelayInv
<1>2. ASSUME NEW to \in Recipients, NEW amount \in Amounts,
             InitiateWithdrawal(to, amount)
      PROVE  DelayInv'
  BY <1>2 DEF InitiateWithdrawal, history, With, DelayInv
<1>3. ASSUME NEW list \in AdminLists, NEW k, ConfigureGovernance(list, k)
      PROVE  DelayInv'
  BY <1>3, <1>u DEF ConfigureGovernance, history
<1>4. ASSUME NEW r \in Ids, NEW a \in Addresses, VoteCancel(r, a)
      PROVE  DelayInv'
  <2>1. UNCHANGED executedAt /\ r \in DOMAIN requests
    BY <1>4 DEF VoteCancel, Pending
  <2>2. CASE requests' = Resolved(r, "Cancelled")
    <3>1. /\ DOMAIN requests' = DOMAIN requests
          /\ requests'[r] = [requests[r] EXCEPT !.status = "Cancelled"]
          /\ requests[r] \in Request
          /\ \A q \in DOMAIN requests : q # r => requests'[q] = requests[q]
      BY <2>1, <2>2, ResolvedFact DEF TypeParts, RequestsType
    <3>2. /\ requests'[r].status = "Cancelled"
          /\ requests'[r].executableAt = requests[r].executableAt
          /\ requests'[r].requestedAt = requests[r].requestedAt
      BY <3>1 DEF Request
    <3> QED
      BY <2>1, <3>1, <3>2 DEF DelayInv
  <2> QED
    BY <1>4, <1>u, <2>1, <2>2 DEF VoteCancel, Cancel, CountVote
<1>5. ASSUME NEW r \in Ids, ExecuteWithdrawal(r)
      PROVE  DelayInv'
  <2>1. /\ r \in DOMAIN requests /\ requests' = Resolved(r, "Executed")
        /\ now >= requests[r].executableAt
    BY <1>5 DEF ExecuteWithdrawal, Pending
  <2>2. /\ DOMAIN requests' = DOMAIN requests
        /\ requests'[r] = [requests[r] EXCEPT !.status = "Executed"]
        /\ requests[r] \in Request
        /\ \A q \in DOMAIN requests : q # r => requests'[q] = requests[q]
    BY <2>1, ResolvedFact DEF TypeParts, RequestsType
  <2>3. /\ requests'[r].executableAt = requests[r].executableAt
        /\ requests'[r].requestedAt = requests[r].requestedAt
    BY <2>2 DEF Request
  <2>4. /\ DOMAIN executedAt' = DOMAIN executedAt \cup {r}
        /\ executedAt'[r] = now
        /\ \A q \in DOMAIN executedAt : q # r => executedAt'[q] = executedAt[q]
    BY <1>5 DEF ExecuteWithdrawal, With
  <2> QED
    BY <2>1, <2>2, <2>3, <2>4 DEF DelayInv
<1>6. CASE \/ \E amount \in Amounts : WithdrawImmediate(amount) \/ Deposit(amount)
           \/ Tick \/ UNCHANGED vars
  BY <1>6, <1>u DEF WithdrawImmediate, Deposit, Tick, vars, history
<1> QED
  BY <1>1, <1>2, <1>3, <1>4, <1>5, <1>6 DEF Next

\* Funds that left by a request left after the whole delay, in which it could
\* be cancelled, unless the sum ran into the last timestamp.
THEOREM DelayKept == Spec => []WaitedTheDelay
<1>1. Init => DelayInv
  <2> SUFFICES ASSUME Init PROVE DelayInv
    OBVIOUS
  <2>1. DOMAIN requests = {}
    BY DEF Init
  <2> QED
    BY <2>1 DEF DelayInv
<1>2. TypeParts /\ DelayInv => WaitedTheDelay
  <2> SUFFICES ASSUME TypeParts, DelayInv, NEW r \in DOMAIN requests,
                      requests[r].status = "Executed"
               PROVE  /\ r \in DOMAIN executedAt
                      /\ \/ executedAt[r] >= requests[r].requestedAt + Delay
                         \/ executedAt[r] = MaxTime
    BY DEF WaitedTheDelay
  <2>1. /\ r \in DOMAIN executedAt
        /\ executedAt[r] >= SaturatingAdd(requests[r].requestedAt, Delay)
    BY DEF DelayInv
  <2>2. executedAt[r] \in 0 .. MaxTime /\ requests[r].requestedAt \in 0 .. MaxTime
    BY <2>1 DEF TypeParts, HistoryType, RequestsType, Request
  <2> QED
    BY <2>1, <2>2, TimelockAssumption DEF SaturatingAdd
<1> QED
  BY <1>1, <1>2, TypeInit, TypeStep, DelayStep, PTL DEF Spec

\* What one step may do to a request: the action of ResolvedOnce.
RequestKept(r) ==
    /\ r \in DOMAIN requests'
    /\ requests'[r] = [requests[r] EXCEPT !.status = requests'[r].status]
    /\ Pending(r) \/ requests'[r] = requests[r]

LEMMA RequestsKept ==
    ASSUME TypeParts, [Next]_vars, NEW r \in DOMAIN requests
    PROVE  RequestKept(r)
<1>t. requests[r] \in Request
  BY DEF TypeParts, RequestsType
<1>s. [requests[r] EXCEPT !.status = requests[r].status] = requests[r]
  BY <1>t DEF Request
<1>u. ASSUME r \in DOMAIN requests', requests'[r] = requests[r]
      PROVE  RequestKept(r)
  BY <1>u, <1>s DEF RequestKept
<1>v. ASSUME NEW q, NEW s \in {"Executed", "Cancelled"}, Pending(q),
             requests' = Resolved(q, s)
      PROVE  RequestKept(r)
  <2>0. q \in DOMAIN requests /\ \A p \in DOMAIN requests : requests[p] \in Request
    BY <1>v DEF Pending, TypeParts, RequestsType
  <2>1. /\ DOMAIN requests' = DOMAIN requests
        /\ r = q => requests'[r] = [requests[r] EXCEPT !.status = s]
        /\ r # q => requests'[r] = requests[r]
    BY <1>v, <2>0 DEF Resolved
  <2>2. r = q => requests'[r].status = s
    BY <1>t, <2>1 DEF Request
  <2> QED
    BY <1>u, <1>v, <2>1, <2>2 DEF RequestKept
<1>1. ASSUME NEW a \in Addresses, NEW m \in Minimums, Initialize(a, m)
      PROVE  RequestKept(r)
  BY <1>1 DEF Initialize, TypeParts, EmptyAtFirst
<1>2. ASSUME NEW to \in Recipients, NEW amount \in Amounts,
             InitiateWithdrawal(to, amount)
      PROVE  RequestKept(r)
  <2>n. PICK n \in 0 .. MaxRequests : DOMAIN requests = 0 .. n - 1
    BY DEF TypeParts, RequestsType
  <2>1. r # NextId
    BY <2>n, NextIdFact, TimelockAssumption
  <2> QED
    BY <1>2, <1>u, <2>1 DEF InitiateWithdrawal, With
<1>3. ASSUME NEW list \in AdminLists, NEW k, ConfigureGovernance(list, k)
      PROVE  RequestKept(r)
  BY <1>3, <1>u DEF ConfigureGovernance
<1>4. ASSUME NEW q \in Ids, NEW a \in Addresses, VoteCancel(q, a)
      PROVE  RequestKept(r)
  BY <1>4, <1>u, <1>v DEF VoteCancel, Cancel, CountVote
<1>5. ASSUME NEW q \in Ids, ExecuteWithdrawal(q)
      PROVE  RequestKept(r)
  BY <1>5, <1>v DEF ExecuteWithdrawal
<1>6. CASE \/ \E amount \in Amounts : WithdrawImmediate(amount) \/ Deposit(amount)
           \/ Tick \/ UNCHANGED vars
  BY <1>6, <1>u DEF WithdrawImmediate, Deposit, Tick, vars
<1> QED
  BY <1>1, <1>2, <1>3, <1>4, <1>5, <1>6 DEF Next

\* Once executed or cancelled a request stays as it is: a late vote finds it
\* executed, a late execution finds it cancelled, and nothing rewrites its terms.
THEOREM ResolvedForGood == Spec => ResolvedOnce
<1>1. TypeParts /\ [Next]_vars =>
        [\A r \in DOMAIN requests :
            /\ r \in DOMAIN requests'
            /\ requests'[r] = [requests[r] EXCEPT !.status = requests'[r].status]
            /\ Pending(r) \/ requests'[r] = requests[r]]_vars
  BY RequestsKept DEF RequestKept
<1> QED
  BY <1>1, TypeInit, TypeStep, PTL DEF Spec, ResolvedOnce

----------------------------------------------------------------------------
(* Sums over finite sets.  The library's induction theorems cannot be used   *)
(* by the provers, but a minimal counterexample can: among the subsets of a  *)
(* finite set that violate a claim there is one all of whose proper subsets  *)
(* satisfy it.                                                               *)

LEMMA MinimalSubset ==
    ASSUME NEW S, IsFiniteSet(S), NEW B \in SUBSET (SUBSET S), B # {}
    PROVE  \E T \in B : \A U \in B : U \subseteq T => U = T
<1> DEFINE R == StrictSubsetOrdering(S)
<1>1. IsWellFoundedOn(R, SUBSET S)
  BY FS_StrictSubsetOrderingWellFounded, FS_FiniteSubsetsOfFinite
<1> HIDE DEF R
<1>2. PICK T \in B : \A U \in B : ~ (<<U, T>> \in R)
  BY <1>1, WFMin
<1>3. \A U \in B : U \subseteq T => U = T
  BY <1>2 DEF R, StrictSubsetOrdering
<1> QED
  BY <1>3

Some(s) == CHOOSE x \in s : TRUE

\* g sums f over the subsets of S, taking the elements in CHOOSE's order.
IsSum(g, f, S) ==
    g = [s \in SUBSET S |-> IF s = {} THEN 0 ELSE f[Some(s)] + g[s \ {Some(s)}]]

LEMMA SomeIn == ASSUME NEW s, s # {} PROVE Some(s) \in s
BY DEF Some

LEMMA SumStep ==
    ASSUME NEW g, NEW f, NEW S, IsSum(g, f, S), NEW T \in SUBSET S
    PROVE  g[T] = IF T = {} THEN 0 ELSE f[Some(T)] + g[T \ {Some(T)}]
BY DEF IsSum

\* Two sums of f agree where both are defined.
LEMMA SumUnique ==
    ASSUME NEW g, NEW h, NEW f, NEW S, NEW T, IsSum(g, f, S), IsSum(h, f, T),
           IsFiniteSet(S)
    PROVE  \A U \in (SUBSET S) \cap (SUBSET T) : g[U] = h[U]
<1> DEFINE B == {U \in SUBSET S : U \subseteq T /\ g[U] # h[U]}
<1> SUFFICES ASSUME B # {} PROVE FALSE
  OBVIOUS
<1>0. \E U \in B : \A V \in B : V \subseteq U => V = U
  <2>1. B \in SUBSET (SUBSET S)
    OBVIOUS
  <2> HIDE DEF B
  <2> QED
    BY <2>1, MinimalSubset
<1>1. PICK U \in B : \A V \in B : V \subseteq U => V = U
  BY <1>0
<1>2. /\ g[U] = IF U = {} THEN 0 ELSE f[Some(U)] + g[U \ {Some(U)}]
      /\ h[U] = IF U = {} THEN 0 ELSE f[Some(U)] + h[U \ {Some(U)}]
  BY SumStep
<1>3. U # {}
  BY <1>2
<1>4. Some(U) \in U
  BY <1>3, SomeIn
<1>5. U \ {Some(U)} \notin B
  BY <1>1, <1>4
<1>6. g[U \ {Some(U)}] = h[U \ {Some(U)}]
  BY <1>5
<1> QED
  BY <1>2, <1>3, <1>6

LEMMA SumExists ==
    ASSUME NEW S, IsFiniteSet(S), NEW f
    PROVE  \E g : IsSum(g, f, S)
<1> DEFINE B == {T \in SUBSET S : ~ \E g : IsSum(g, f, T)}
<1> SUFFICES ASSUME B # {} PROVE FALSE
  OBVIOUS
<1>0. \E U \in B : \A V \in B : V \subseteq U => V = U
  <2>1. B \in SUBSET (SUBSET S)
    OBVIOUS
  <2> HIDE DEF B
  <2> QED
    BY <2>1, MinimalSubset
<1>1. PICK T \in B : \A V \in B : V \subseteq T => V = T
  BY <1>0
<1> DEFINE sum(s) == CHOOSE h : IsSum(h, f, s)
           x == Some(T)
           g == [s \in SUBSET T |-> IF s = {} THEN 0
                                    ELSE IF s = T THEN f[x] + sum(T \ {x})[T \ {x}]
                                    ELSE sum(s)[s]]
<1>2. ASSUME NEW s \in SUBSET T, s # T
      PROVE  IsSum(sum(s), f, s)
  <2>1. s \in SUBSET S /\ s \notin B
    BY <1>1, <1>2
  <2>2. \E h : IsSum(h, f, s)
    BY <2>1
  <2> QED
    BY <2>2
<1>3. ASSUME NEW s \in SUBSET T, s # {}
      PROVE  g[s] = f[Some(s)] + g[s \ {Some(s)}]
  <2> DEFINE y == Some(s)
             u == s \ {y}
  <2>1. y \in s /\ u \in SUBSET T /\ u # T /\ u # s /\ u \in SUBSET s
    BY <1>3, SomeIn
  <2>2. IsSum(sum(u), f, u)
    BY <1>2, <2>1
  <2>3. g[u] = sum(u)[u]
    <3>1. sum(u)[u] = 0 \/ u # {}
      BY <2>2, SumStep
    <3> HIDE DEF u, sum
    <3> QED
      BY <2>1, <3>1
  <2>4. CASE s = T
    BY <1>3, <2>3, <2>4
  <2>5. CASE s # T
    <3>1. IsSum(sum(s), f, s)
      BY <1>2, <2>5
    <3>2. sum(s)[s] = f[y] + sum(s)[u]
      BY <1>3, <3>1, SumStep
    <3>3. IsFiniteSet(s)
      BY <1>1, FS_Subset
    <3>4. sum(s)[u] = sum(u)[u]
      <4> HIDE DEF sum
      <4> QED
        BY <2>1, <2>2, <3>1, <3>3, SumUnique
    <3> QED
      BY <1>3, <2>3, <2>5, <3>2, <3>4
  <2> QED
    BY <2>4, <2>5
<1>4. g[{}] = 0
  OBVIOUS
<1>5. g = [s \in SUBSET T |-> g[s]]
  OBVIOUS
<1> HIDE DEF g
<1>6. IsSum(g, f, T)
  BY <1>3, <1>4, <1>5 DEF IsSum
<1> QED
  BY <1>1, <1>6

\* The order in which a sum takes the elements does not matter.
LEMMA SumAdd ==
    ASSUME NEW S, IsFiniteSet(S), NEW f, \A y \in S : f[y] \in Nat,
           NEW g, IsSum(g, f, S)
    PROVE  \A T \in SUBSET S :
              g[T] \in Nat /\ \A y \in S \ T : g[T \cup {y}] = f[y] + g[T]
<1> DEFINE B == {T \in SUBSET S :
                   ~ (g[T] \in Nat /\ \A y \in S \ T : g[T \cup {y}] = f[y] + g[T])}
<1> SUFFICES ASSUME B # {} PROVE FALSE
  OBVIOUS
<1>0. \E U \in B : \A V \in B : V \subseteq U => V = U
  <2>1. B \in SUBSET (SUBSET S)
    OBVIOUS
  <2> HIDE DEF B
  <2> QED
    BY <2>1, MinimalSubset
<1>1. PICK T \in B : \A V \in B : V \subseteq T => V = T
  BY <1>0
<1>2. ASSUME NEW u \in T
      PROVE  /\ g[T \ {u}] \in Nat
             /\ \A y \in S \ (T \ {u}) : g[(T \ {u}) \cup {y}] = f[y] + g[T \ {u}]
  <2>1. T \ {u} \in SUBSET S /\ T \ {u} \notin B
    BY <1>1
  <2> QED
    BY <2>1
<1>3. g[T] \in Nat
  <2>1. g[T] = IF T = {} THEN 0 ELSE f[Some(T)] + g[T \ {Some(T)}]
    BY SumStep
  <2>2. CASE T = {}
    BY <2>1, <2>2
  <2>3. CASE T # {}
    <3>1. Some(T) \in T
      BY <2>3, SomeIn
    <3>2. g[T \ {Some(T)}] \in Nat /\ f[Some(T)] \in Nat
      BY <1>2, <3>1
    <3> QED
      BY <2>1, <2>3, <3>2
  <2> QED
    BY <2>2, <2>3
<1>4. ASSUME NEW y \in S \ T
      PROVE  g[T \cup {y}] = f[y] + g[T]
  <2> DEFINE U == T \cup {y}
             z == Some(U)
  <2>1. z \in U
    BY SomeIn
  <2>2. g[U] = f[z] + g[U \ {z}]
    <3>1. U \in SUBSET S /\ U # {}
      OBVIOUS
    <3> QED
      BY <3>1, SumStep
  <2>3. CASE z = y
    <3>1. U \ {z} = T
      BY <2>3
    <3>2. g[U] = f[y] + g[T]
      <4> HIDE DEF U, z
      <4> QED
        BY <2>2, <2>3, <3>1
    <3> QED
      BY <3>2
  <2>4. CASE z # y
    <3>1. z \in T /\ z \in S \ (T \ {z}) /\ y \in S \ (T \ {z})
      BY <2>1, <2>4
    <3>2. U \ {z} = (T \ {z}) \cup {y} /\ (T \ {z}) \cup {z} = T
      BY <3>1, <2>4
    <3> HIDE DEF z
    <3>3. g[(T \ {z}) \cup {y}] = f[y] + g[T \ {z}]
      BY <1>2, <3>1
    <3>4. g[T] = f[z] + g[T \ {z}]
      BY <1>2, <3>1, <3>2
    <3>5. f[y] \in Nat /\ f[z] \in Nat /\ g[T \ {z}] \in Nat
      BY <1>2, <3>1
    <3>6. g[U] = f[z] + (f[y] + g[T \ {z}])
      <4> HIDE DEF U
      <4> QED
        BY <2>2, <3>2, <3>3
    <3>7. f[z] + (f[y] + g[T \ {z}]) = f[y] + (f[z] + g[T \ {z}])
      BY <3>5
    <3> QED
      BY <3>4, <3>6, <3>7, Zenon
  <2> QED
    BY <2>3, <2>4
<1> QED
  BY <1>1, <1>3, <1>4

\* What the requests E of the table q paid, in the words of FundsAccounted.
Paid(q, E) == MapThenSumSet(LAMBDA r : q[r].amount, E)

LEMMA PaidIsSum ==
    ASSUME NEW S, IsFiniteSet(S), NEW f, NEW g, IsSum(g, f, S),
           NEW E \in SUBSET S, NEW q, \A r \in E : f[r] = q[r].amount
    PROVE  Paid(q, E) = g[E]
<1> DEFINE Eq(h) == h = [s \in SUBSET E |->
                           IF s = {} THEN 0
                           ELSE q[CHOOSE x \in s : TRUE].amount
                                  + h[s \ {CHOOSE x \in s : TRUE}]]
           c == CHOOSE h : Eq(h)
<1>1. Paid(q, E) = c[E]
  BY DEF Paid, MapThenSumSet, MapThenFoldSet
<1>2. ASSUME NEW h PROVE Eq(h) <=> IsSum(h, f, E)
  <2>1. \A s \in SUBSET E : s # {} => f[Some(s)] = q[CHOOSE x \in s : TRUE].amount
    BY SomeIn DEF Some
  <2> QED
    BY <2>1 DEF IsSum, Some
<1>3. \E h : Eq(h)
  <2>1. \E h : IsSum(h, f, E)
    BY SumExists, FS_Subset
  <2> HIDE DEF Eq
  <2> QED
    BY <1>2, <2>1
<1>4. Eq(c)
  <2> HIDE DEF Eq
  <2> QED
    BY <1>3
<1>5. IsSum(c, f, E) /\ IsFiniteSet(E)
  <2> HIDE DEF Eq, c
  <2> QED
    BY <1>2, <1>4, FS_Subset
<1> HIDE DEF c
<1> QED
  BY <1>1, <1>5, SumUnique

\* What is paid depends on the marked requests and their amounts only.
LEMMA PaidSame ==
    ASSUME NEW q, NEW p, NEW E, IsFiniteSet(E),
           \A r \in E : p[r].amount = q[r].amount
    PROVE  Paid(p, E) = Paid(q, E)
<1> DEFINE f == [r \in E |-> q[r].amount]
<1>1. PICK g : IsSum(g, f, E)
  BY SumExists
<1>2. \A r \in E : f[r] = q[r].amount /\ f[r] = p[r].amount
  OBVIOUS
<1> HIDE DEF f
<1>3. Paid(p, E) = g[E]
  BY <1>1, <1>2, PaidIsSum
<1>4. Paid(q, E) = g[E]
  BY <1>1, <1>2, PaidIsSum
<1> QED
  BY <1>3, <1>4

\* Marking one more request adds its amount.
LEMMA PaidOneMore ==
    ASSUME NEW q, NEW E, NEW r, r \notin E, IsFiniteSet(E),
           \A x \in E \cup {r} : q[x].amount \in Nat
    PROVE  Paid(q, E \cup {r}) = q[r].amount + Paid(q, E)
<1> DEFINE S == E \cup {r}
           f == [x \in S |-> q[x].amount]
<1>1. IsFiniteSet(S)
  BY FS_AddElement
<1>2. PICK g : IsSum(g, f, S)
  BY <1>1, SumExists
<1>3. \A x \in S : f[x] \in Nat /\ f[x] = q[x].amount
  OBVIOUS
<1>4. r \in S \ E /\ E \in SUBSET S /\ S \in SUBSET S /\ E \cup {r} = S
  OBVIOUS
<1> HIDE DEF f, S
<1>5. Paid(q, E) = g[E] /\ Paid(q, S) = g[S]
  BY <1>1, <1>2, <1>3, <1>4, PaidIsSum
<1>6. g[E] \in Nat /\ g[S] = f[r] + g[E]
  BY <1>1, <1>2, <1>3, <1>4, SumAdd
<1> QED
  BY <1>3, <1>4, <1>5, <1>6

LEMMA PaidNat ==
    ASSUME NEW q, NEW E, IsFiniteSet(E), \A x \in E : q[x].amount \in Nat
    PROVE  Paid(q, E) \in Nat
<1> DEFINE f == [x \in E |-> q[x].amount]
<1>1. PICK g : IsSum(g, f, E)
  BY SumExists
<1>2. (\A x \in E : f[x] \in Nat /\ f[x] = q[x].amount) /\ E \in SUBSET E
  OBVIOUS
<1> HIDE DEF f
<1> QED
  BY <1>1, <1>2, PaidIsSum, SumAdd

LEMMA NothingPaid == ASSUME NEW q PROVE Paid(q, {}) = 0
<1> DEFINE f == [x \in {} |-> 0]
<1>1. IsFiniteSet({})
  BY FS_EmptySet
<1>2. PICK g : IsSum(g, f, {})
  BY <1>1, SumExists
<1>3. g[{}] = 0
  BY <1>2, SumStep
<1> HIDE DEF f
<1> QED
  BY <1>1, <1>2, <1>3, PaidIsSum

----------------------------------------------------------------------------
(* Where the funds are *)

LEMMA ExecutedFinite == TypeParts => IsFiniteSet(Executed)
<1> SUFFICES ASSUME TypeParts PROVE IsFiniteSet(Executed)
  OBVIOUS
<1>1. PICK n \in 0 .. MaxRequests : DOMAIN requests = 0 .. n - 1
  BY DEF TypeParts, RequestsType
<1>2. IsFiniteSet(0 .. n - 1)
  BY <1>1, TimelockAssumption, FS_Interval
<1>3. Executed \in SUBSET (0 .. n - 1)
  BY <1>1 DEF Executed
<1> QED
  BY <1>2, <1>3, FS_Subset

LEMMA PaidByRequestsIs == PaidByRequests = Paid(requests, Executed)
BY DEF PaidByRequests, Paid

LEMMA FundsInit == Init => FundsAccounted
<1> SUFFICES ASSUME Init PROVE FundsAccounted
  OBVIOUS
<1>1. Executed = {}
  BY DEF Init, Executed
<1> QED
  BY <1>1, PaidByRequestsIs, NothingPaid DEF Init, FundsAccounted

LEMMA FundsStep == TypeParts /\ FundsAccounted /\ [Next]_vars => FundsAccounted'
<1> SUFFICES ASSUME TypeParts, FundsAccounted, [Next]_vars PROVE FundsAccounted'
  OBVIOUS
<1> DEFINE paid == Paid(requests, Executed)
<1>f. IsFiniteSet(Executed)
  BY ExecutedFinite
<1>t. /\ reserve \in Nat /\ deposited \in Nat /\ spent \in Nat
      /\ \A r \in DOMAIN requests : requests[r] \in Request
  BY TimelockAssumption DEF TypeParts, FundsType, RequestsType
<1>a. \A r \in DOMAIN requests : requests[r].amount \in Nat
  BY <1>t DEF Request
<1>d. deposited = reserve + spent + paid
  BY PaidByRequestsIs DEF FundsAccounted
<1>p. paid \in Nat
  BY <1>f, <1>a, PaidNat DEF Executed
<1>g. ASSUME deposited' = reserve' + spent' + Paid(requests', Executed')
      PROVE  FundsAccounted'
  <2>1. PaidByRequests' = Paid(requests', Executed')
    BY DEF PaidByRequests, Paid, MapThenSumSet, MapThenFoldSet
  <2> QED
    BY <1>g, <2>1 DEF FundsAccounted
\* A step that marks no request as executed and keeps the amounts.
<1>s. ASSUME Executed' = Executed,
             \A r \in Executed : requests'[r].amount = requests[r].amount
      PROVE  Paid(requests', Executed') = paid
  BY <1>s, <1>f, PaidSame
<1>1. ASSUME NEW a \in Addresses, NEW m \in Minimums, Initialize(a, m)
      PROVE  FundsAccounted'
  <2>1. Executed = {} /\ Executed' = {}
    BY <1>1 DEF Initialize, TypeParts, EmptyAtFirst, Executed
  <2>2. Paid(requests', Executed') = paid
    BY <1>s, <2>1
  <2> HIDE DEF paid
  <2> QED
    BY <1>1, <1>d, <1>g, <2>2 DEF Initialize, history
<1>2. ASSUME NEW to \in Recipients, NEW amount \in Amounts,
             InitiateWithdrawal(to, amount)
      PROVE  FundsAccounted'
  <2>n. PICK n \in 0 .. MaxRequests : DOMAIN requests = 0 .. n - 1
    BY DEF TypeParts, RequestsType
  <2>1. NextId \notin DOMAIN requests
    BY <2>n, NextIdFact, TimelockAssumption
  <2>2. /\ DOMAIN requests' = DOMAIN requests \cup {NextId}
        /\ \A r \in DOMAIN requests : requests'[r] = requests[r]
        /\ requests'[NextId].status = "Pending"
    BY <1>2, <2>1 DEF InitiateWithdrawal, With
  <2>3. Executed' = Executed
    BY <2>1, <2>2 DEF Executed
  <2>4. Paid(requests', Executed') = paid
    BY <1>s, <2>2, <2>3 DEF Executed
  <2> HIDE DEF paid
  <2> QED
    BY <1>2, <1>d, <1>g, <2>4 DEF InitiateWithdrawal, history
<1>3. CASE \E list \in AdminLists, k \in 0 .. Cardinality(Addresses) + 1 :
             ConfigureGovernance(list, k)
  <2>1. /\ UNCHANGED <<requests, reserve, deposited, spent>>
    BY <1>3 DEF ConfigureGovernance, history
  <2>2. Paid(requests', Executed') = paid
    BY <1>s, <2>1 DEF Executed
  <2> HIDE DEF paid
  <2> QED
    BY <1>d, <1>g, <2>1, <2>2
<1>4. ASSUME NEW r \in Ids, NEW a \in Addresses, VoteCancel(r, a)
      PROVE  FundsAccounted'
  <2>1. r \in DOMAIN requests /\ requests[r].status = "Pending"
    BY <1>4 DEF VoteCancel, Pending
  <2>2. requests' = requests \/ requests' = Resolved(r, "Cancelled")
    BY <1>4 DEF VoteCancel, Cancel, CountVote
  <2>3. /\ Executed' = Executed
        /\ \A x \in DOMAIN requests : requests'[x].amount = requests[x].amount
    BY <1>t, <2>1, <2>2 DEF Executed, Resolved, Request
  <2>4. Paid(requests', Executed') = paid
    BY <1>s, <2>3 DEF Executed
  <2> HIDE DEF paid
  <2> QED
    BY <1>4, <1>d, <1>g, <2>4 DEF VoteCancel
<1>5. ASSUME NEW r \in Ids, ExecuteWithdrawal(r)
      PROVE  FundsAccounted'
  <2>1. /\ r \in DOMAIN requests /\ requests[r].status = "Pending"
        /\ requests' = Resolved(r, "Executed")
        /\ reserve' = reserve - requests[r].amount
        /\ UNCHANGED <<deposited, spent>>
    BY <1>5 DEF ExecuteWithdrawal, Pending
  <2>2. /\ Executed' = Executed \cup {r} /\ r \notin Executed
        /\ \A x \in DOMAIN requests : requests'[x].amount = requests[x].amount
    BY <1>t, <2>1 DEF Executed, Resolved, Request
  <2>3. Executed \cup {r} \in SUBSET DOMAIN requests /\ IsFiniteSet(Executed \cup {r})
    BY <1>f, <2>1, FS_AddElement DEF Executed
  <2>4. Paid(requests', Executed') = Paid(requests, Executed \cup {r})
    BY <2>2, <2>3, PaidSame
  <2>5. Paid(requests, Executed \cup {r}) = requests[r].amount + paid
    BY <1>a, <1>f, <2>2, <2>3, PaidOneMore
  <2> HIDE DEF paid
  <2> QED
    BY <1>a, <1>d, <1>g, <1>p, <1>t, <2>1, <2>4, <2>5
<1>6. ASSUME NEW amount \in Amounts, WithdrawImmediate(amount) \/ Deposit(amount)
      PROVE  FundsAccounted'
  <2>1. UNCHANGED requests
    BY <1>6 DEF WithdrawImmediate, Deposit
  <2>2. Paid(requests', Executed') = paid
    BY <1>s, <2>1 DEF Executed
  <2>3. amount \in Nat
    BY TimelockAssumption
  <2> HIDE DEF paid
  <2> QED
    BY <1>6, <1>d, <1>g, <1>p, <1>t, <2>2, <2>3 DEF WithdrawImmediate, Deposit
<1>7. CASE Tick \/ UNCHANGED vars
  <2>1. /\ UNCHANGED <<requests, reserve, deposited, spent>>
    BY <1>7 DEF Tick, vars, history
  <2>2. Paid(requests', Executed') = paid
    BY <1>s, <2>1 DEF Executed
  <2> HIDE DEF paid
  <2> QED
    BY <1>d, <1>g, <2>1, <2>2
<1> QED
  BY <1>1, <1>2, <1>3, <1>4, <1>5, <1>6, <1>7 DEF Next

\* Every token ever paid into the contract is in its balance, left by a request
\* marked Executed, counted once, or left by withdraw_immediate.
THEOREM FundsAlwaysAccounted == Spec => []FundsAccounted
BY TypeInit, TypeStep, FundsInit, FundsStep, PTL DEF Spec
=============================================================================
