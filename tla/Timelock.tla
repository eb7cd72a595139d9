------------------------------ MODULE Timelock ------------------------------
(***************************************************************************)
(* The Soroban contract contracts/timelock: an anchor's treasury reserve.  *)
(* A withdrawal the admin requests is executed by anyone once its delay is *)
(* over, unless enough governance admins have voted to cancel it; small    *)
(* amounts leave at once.  The admin may replace the governance admins and *)
(* the number of votes while requests are pending.                         *)
(*                                                                         *)
(* A contract call is one step: the host runs calls one after the other    *)
(* and undoes every write of a call that fails, so a refused call changes  *)
(* nothing and has no action.  A call the code guards by require_auth is   *)
(* one the named address has signed.                                       *)
(***************************************************************************)
EXTENDS Integers, FiniteSets, FiniteSetsExt, Sequences, SequencesExt

CONSTANTS
    Addresses,      \* the accounts that can be admins
    Recipients,     \* the accounts withdrawals go to
    AdminLists,     \* the lists configure_governance is called with
    Amounts,        \* the amounts calls are made with, zero among them
    Minimums,       \* the min_timelock_amount the contract is set up with
    Delay,          \* TIMELOCK_DURATION_SECONDS
    MaxTime,        \* the largest ledger timestamp, u64::MAX
    MaxRequests,    \* bound: how many withdrawals are requested
    MaxReserve      \* bound: how much is ever paid into the contract

ASSUME TimelockAssumption ==
    /\ AdminLists \subseteq Seq(Addresses)
    /\ Amounts \subseteq Nat
    /\ Minimums \subseteq Nat
    /\ Delay \in Nat \ {0}
    /\ MaxTime \in Nat
    /\ MaxRequests \in Nat
    /\ MaxReserve \in Nat

VARIABLES
    config,         \* CONFIG: <<>> before initialize, then <<admin and minimum>>
    governance,     \* GOVERNANCE: the admins and the votes a cancellation takes
    requests,       \* REQUESTS: the withdrawals asked for, by id
    votes,          \* CANCEL_VOTES: who voted against each request
    reserve,        \* the contract's balance of the token
    now,            \* the ledger's timestamp
    deposited,      \* history: all that was paid in
    spent,          \* history: what withdraw_immediate paid
    cancelledBy,    \* history: who cancelled a request, and how many it took
    executedAt      \* history: when a request was executed

vars == <<config, governance, requests, votes, reserve, now,
          deposited, spent, cancelledBy, executedAt>>

history == <<deposited, spent, cancelledBy, executedAt>>

Ids == 0 .. MaxRequests - 1

\* The ids next_id has given out are the first ones: no request is ever removed.
NextId == Cardinality(DOMAIN requests)

Init ==
    /\ config = <<>>
    /\ governance = [admins |-> {}, threshold |-> 0]
    /\ requests = <<>>
    /\ votes = <<>>
    /\ reserve = 0
    /\ now = 0
    /\ deposited = 0
    /\ spent = 0
    /\ cancelledBy = <<>>
    /\ executedAt = <<>>

----------------------------------------------------------------------------
Initialized == config # <<>>

Minimum == config[1].minimum

\* f with a value for r: a Map's set.
With(f, r, value) ==
    [q \in DOMAIN f \cup {r} |-> IF q = r THEN value ELSE f[q]]

\* Mutant: the sum is stored unbounded.
PlainAdd(t, d) == t + d

\* Mutant: wrapping_add.
WrappingAdd(t, d) == (t + d) % (MaxTime + 1)

\* saturating_add on the u64 timestamp.
SaturatingAdd(t, d) == IF t + d > MaxTime THEN MaxTime ELSE t + d

Pending(r) == r \in DOMAIN requests /\ requests[r].status = "Pending"

\* initialize: once, with a positive minimum; the admin is the only governance
\* admin and its vote is enough.
Initialize(a, m) ==
    /\ ~Initialized
    /\ m > 0
    /\ config' = << [admin |-> a, minimum |-> m] >>
    /\ governance' = [admins |-> {a}, threshold |-> 1]
    /\ requests' = <<>>
    /\ votes' = <<>>
    /\ UNCHANGED <<reserve, now, history>>

\* initiate_withdrawal, signed by the admin: no funds move.
InitiateWithdrawal(to, amount) ==
    /\ Initialized
    /\ NextId < MaxRequests
    /\ amount > 0
    /\ requests' = With(requests, NextId,
                         [recipient |-> to, amount |-> amount,
                          requestedAt |-> now,
                          executableAt |-> SaturatingAdd(now, Delay),
                          status |-> "Pending"])
    /\ UNCHANGED <<config, governance, votes, reserve, now, history>>

\* Mutant: the new admins are stored and the votes of the old ones kept.
ConfigureKeepingVotes(list, threshold) ==
    /\ Initialized
    /\ threshold \in 1 .. Len(list)
    /\ IsInjective(list)
    /\ governance' = [admins |-> ToSet(list), threshold |-> threshold]
    /\ UNCHANGED <<config, requests, votes, reserve, now, history>>

\* Mutant: the loop that looks for an admin listed twice is missing.
ConfigureWithDuplicates(list, threshold) ==
    /\ Initialized
    /\ threshold \in 1 .. Len(list)
    /\ governance' = [admins |-> ToSet(list), threshold |-> threshold]
    /\ votes' = <<>>
    /\ UNCHANGED <<config, requests, reserve, now, history>>

\* configure_governance, signed by the admin: an empty list, a threshold out of
\* range and an admin listed twice are refused, and every vote is dropped.
ConfigureGovernance(list, threshold) ==
    /\ Initialized
    /\ threshold \in 1 .. Len(list)
    /\ IsInjective(list)
    /\ governance' = [admins |-> ToSet(list), threshold |-> threshold]
    /\ votes' = <<>>
    /\ UNCHANGED <<config, requests, reserve, now, history>>

----------------------------------------------------------------------------
\* The votes against a request: none when CANCEL_VOTES has no entry.
VotesFor(r) == IF r \in DOMAIN votes THEN votes[r] ELSE {}

WithoutVotes(r) == [q \in DOMAIN votes \ {r} |-> votes[q]]

Resolved(r, status) == [requests EXCEPT ![r].status = status]

\* The vote that reaches the threshold cancels the request and drops the votes.
Cancel(r, approvals) ==
    /\ requests' = Resolved(r, "Cancelled")
    /\ votes' = WithoutVotes(r)
    /\ cancelledBy' = With(cancelledBy, r,
                            [signers |-> approvals \cap governance.admins,
                             needed |-> governance.threshold])

CountVote(r, approvals) ==
    /\ votes' = With(votes, r, approvals)
    /\ UNCHANGED <<requests, cancelledBy>>

\* Mutant: an admin that has voted is counted again.
VoteCancelTwice(r, a) ==
    /\ Initialized
    /\ a \in governance.admins
    /\ Pending(r)
    /\ LET approvals == VotesFor(r) \cup {a}
           count == Cardinality(VotesFor(r)) + 1 IN
       IF count >= governance.threshold
       THEN Cancel(r, approvals)
       ELSE CountVote(r, approvals)
    /\ UNCHANGED <<config, governance, reserve, now, deposited, spent, executedAt>>

\* vote_cancel, signed by a; also cancel_operation, which is the same call, and
\* cancel_withdrawal, which is the call with config.admin for a.
VoteCancel(r, a) ==
    /\ Initialized
    /\ a \in governance.admins
    /\ Pending(r)
    /\ a \notin VotesFor(r)
    /\ LET approvals == VotesFor(r) \cup {a} IN
       IF Cardinality(approvals) >= governance.threshold
       THEN Cancel(r, approvals)
       ELSE CountVote(r, approvals)
    /\ UNCHANGED <<config, governance, reserve, now, deposited, spent, executedAt>>

\* Mutant: a request is executed whatever became of it before.
ExecuteResolved(r) ==
    /\ Initialized
    /\ r \in DOMAIN requests
    /\ now >= requests[r].executableAt
    /\ reserve >= requests[r].amount
    /\ reserve' = reserve - requests[r].amount
    /\ requests' = Resolved(r, "Executed")
    /\ votes' = WithoutVotes(r)
    /\ executedAt' = With(executedAt, r, now)
    /\ UNCHANGED <<config, governance, now, deposited, spent, cancelledBy>>

\* Mutant: the transfer is made and the request left pending.
ExecuteUnmarked(r) ==
    /\ Initialized
    /\ Pending(r)
    /\ now >= requests[r].executableAt
    /\ reserve >= requests[r].amount
    /\ reserve' = reserve - requests[r].amount
    /\ votes' = WithoutVotes(r)
    /\ executedAt' = With(executedAt, r, now)
    /\ UNCHANGED <<config, governance, requests, now, deposited, spent, cancelledBy>>

\* execute_withdrawal, by anyone.  The token refuses a transfer the balance does
\* not cover, which undoes the call: the request stays pending.
ExecuteWithdrawal(r) ==
    /\ Initialized
    /\ Pending(r)
    /\ now >= requests[r].executableAt
    /\ reserve >= requests[r].amount
    /\ reserve' = reserve - requests[r].amount
    /\ requests' = Resolved(r, "Executed")
    /\ votes' = WithoutVotes(r)
    /\ executedAt' = With(executedAt, r, now)
    /\ UNCHANGED <<config, governance, now, deposited, spent, cancelledBy>>

\* withdraw_immediate, signed by the admin.
WithdrawImmediate(amount) ==
    /\ Initialized
    /\ amount > 0
    /\ amount < Minimum
    /\ reserve >= amount
    /\ reserve' = reserve - amount
    /\ spent' = spent + amount
    /\ UNCHANGED <<config, governance, requests, votes, now, deposited,
                   cancelledBy, executedAt>>

----------------------------------------------------------------------------
\* Somebody transfers tokens to the contract's address.
Deposit(amount) ==
    /\ amount > 0
    /\ deposited + amount <= MaxReserve
    /\ reserve' = reserve + amount
    /\ deposited' = deposited + amount
    /\ UNCHANGED <<config, governance, requests, votes, now, spent,
                   cancelledBy, executedAt>>

\* A ledger closes at a later timestamp.
Tick ==
    /\ now < MaxTime
    /\ now' = now + 1
    /\ UNCHANGED <<config, governance, requests, votes, reserve, history>>

Next ==
    \/ \E a \in Addresses, m \in Minimums : Initialize(a, m)
    \/ \E to \in Recipients, amount \in Amounts : InitiateWithdrawal(to, amount)
    \/ \E list \in AdminLists, n \in 0 .. Cardinality(Addresses) + 1 :
         ConfigureGovernance(list, n)
    \/ \E r \in Ids, a \in Addresses : VoteCancel(r, a)
    \/ \E r \in Ids : ExecuteWithdrawal(r)
    \/ \E amount \in Amounts : WithdrawImmediate(amount)
    \/ \E amount \in Amounts : Deposit(amount)
    \/ Tick

Spec == Init /\ [][Next]_vars

----------------------------------------------------------------------------
Request ==
    [recipient : Recipients, amount : Nat \ {0}, requestedAt : 0 .. MaxTime,
     executableAt : 0 .. MaxTime,
     status : {"Pending", "Executed", "Cancelled"}]

Governance == [admins : SUBSET Addresses, threshold : Nat]

\* Type correctness: what is stored under the five keys has its declared type,
\* the balance is never negative, and votes are kept for stored requests only.
TypeOK ==
    /\ config = <<>> \/ \E a \in Addresses, m \in Minimums :
                           config = << [admin |-> a, minimum |-> m] >>
    /\ governance \in Governance
    /\ \E n \in 0 .. MaxRequests : DOMAIN requests = 0 .. n - 1
    /\ \A r \in DOMAIN requests : requests[r] \in Request
    /\ DOMAIN votes \subseteq DOMAIN requests
    /\ \A r \in DOMAIN votes : votes[r] \in SUBSET Addresses
    /\ reserve \in 0 .. MaxReserve
    /\ now \in 0 .. MaxTime
    /\ deposited \in 0 .. MaxReserve
    /\ spent \in 0 .. MaxReserve
    /\ DOMAIN cancelledBy \subseteq DOMAIN requests
    /\ DOMAIN executedAt \subseteq DOMAIN requests
    /\ \A r \in DOMAIN executedAt : executedAt[r] \in 0 .. MaxTime

\* A pending request can always still be cancelled by the governance admins of
\* the moment: the votes counted against it are theirs, fewer than the
\* threshold, and those who have not voted are enough to reach it.  A change of
\* the admins with votes outstanding, or an admin listed twice, would break it.
CancellationPossible ==
    \A r \in DOMAIN requests : Pending(r) =>
        LET missing == governance.threshold - Cardinality(VotesFor(r)) IN
        /\ VotesFor(r) \subseteq governance.admins
        /\ missing > 0
        /\ missing <= Cardinality(governance.admins \ VotesFor(r))

\* A request is cancelled by exactly the threshold's number of distinct admins,
\* all of them governance admins at the vote that cancelled it.
CancelledByQuorum ==
    \A r \in DOMAIN requests : requests[r].status = "Cancelled" =>
        /\ r \in DOMAIN cancelledBy
        /\ Cardinality(cancelledBy[r].signers) = cancelledBy[r].needed

\* A request whose funds left was open to cancellation for the whole delay; only
\* at the last representable timestamp may saturating_add have shortened it.
WaitedTheDelay ==
    \A r \in DOMAIN requests : requests[r].status = "Executed" =>
        /\ r \in DOMAIN executedAt
        /\ \/ executedAt[r] >= requests[r].requestedAt + Delay
           \/ executedAt[r] = MaxTime

Executed == {r \in DOMAIN requests : requests[r].status = "Executed"}

PaidByRequests == MapThenSumSet(LAMBDA r : requests[r].amount, Executed)

\* Every token paid in is still held, or left by a request now marked Executed,
\* or by withdraw_immediate: no request pays twice and none pays unmarked.
FundsAccounted == deposited = reserve + spent + PaidByRequests

\* A request never changes its terms, is never dropped, and once executed or
\* cancelled stays so: a vote that arrives after the execution, or an execution
\* after the last vote, finds it resolved.
ResolvedOnce ==
    [][\A r \in DOMAIN requests :
         /\ r \in DOMAIN requests'
         /\ requests'[r] = [requests[r] EXCEPT !.status = requests'[r].status]
         /\ Pending(r) \/ requests'[r] = requests[r]]_vars
=============================================================================
