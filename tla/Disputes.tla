------------------------------ MODULE Disputes ------------------------------
(***************************************************************************)
(* Disputes about finished transactions: services/dispute.ts behind        *)
(* routes/disputes.ts and graphql, and the SLA engine of                   *)
(* services/disputeStateMachine.ts, which resolves an overdue dispute in   *)
(* favour of the user and pays the user out.                               *)
(*                                                                         *)
(* Every request reads, checks and then writes with separate statements    *)
(* and no lock, so each statement is a step.  A write names the row only:  *)
(* it does not repeat the check.  What protects the tables is the unique   *)
(* index on active disputes and the transition table of transactions.      *)
(*                                                                         *)
(* Left out, because no status depends on them: notes, evidence, priority, *)
(* category, assignee, notifications and reports.                          *)
(*                                                                         *)
(* All reads are queryRead and may come from a lagging replica.  What a    *)
(* request reads first, it may as well have read earlier.  A pass of the   *)
(* engine has a past: a lagging replica may list to it the dispute that    *)
(* the same engine has just resolved, which is PassSelectsStale.           *)
(***************************************************************************)
EXTENDS Naturals, FiniteSets, Sequences

CONSTANTS
    Transactions,   \* the transactions disputes are about
    Requests,       \* the requests of users, agents and admins, one call each
    Engines,        \* passes of the SLA engine that can overlap: one for every
                    \* process, and for a pass that starts before the last ends
    MaxDisputes,    \* bound: how many disputes are opened
    MaxReached,     \* how many providers one payout can reach: the provider and
                    \* its failover chain
    MaxFaults       \* bound: how many statements fail, processes stop and
                    \* replicas lag

ASSUME DisputesAssumption ==
    /\ IsFiniteSet(Engines)
    /\ MaxDisputes \in Nat
    /\ MaxReached \in Nat
    /\ MaxFaults \in Nat

VARIABLES
    txStatus,       \* transactions.status
    disputes,       \* the disputes table: its rows, by id
    overdue,        \* the deadline of each: "none", "set" or "over"
    request,        \* where each request is
    engine,         \* where each pass is
    payouts,        \* how often each dispute was paid out
    reopened,       \* history: how often a closed dispute became active again
    extra,          \* history: how often a replica listed it to a pass when it
                    \* was closed, and how often a failover paid it once more
    faults

vars == <<txStatus, disputes, overdue, request, engine, payouts, reopened, extra,
          faults>>

tables == <<txStatus, disputes, overdue>>

effects == <<payouts, reopened, extra>>

Ids == DOMAIN disputes

ActiveStatuses == {"open", "investigating"}

TerminalStatuses == {"resolved", "rejected", "reversed", "upheld"}

\* TRANSITIONS, which DISPUTE_TRANSITIONS repeats.
Transitions ==
    [s \in ActiveStatuses \cup TerminalStatuses |->
       CASE s = "open" -> {"investigating"} \cup TerminalStatuses
         [] s = "investigating" -> TerminalStatuses
         [] OTHER -> {}]

\* ALLOWED_STATUS_TRANSITIONS for the statuses disputes meet.
AllowedTx ==
    [completed |-> {"completed", "dispute", "reversed"},
     failed    |-> {"failed"},
     dispute   |-> {"dispute", "completed", "reversed", "failed"},
     reversed  |-> {"reversed"}]

Active(d) == disputes[d].status \in ActiveStatuses

ActiveOn(t) == {d \in Ids : disputes[d].tx = t /\ Active(d)}

Idle == [op |-> "idle"]

Done == [op |-> "done"]

Goto(r, state) == request' = [request EXCEPT ![r] = state]

\* A transaction may have a dispute of an earlier day.
Init ==
    /\ disputes \in {<<>>}
                     \cup {<<[tx |-> t, status |-> "open"]>> : t \in Transactions}
    /\ Len(disputes) <= MaxDisputes
    /\ txStatus \in [Transactions -> {"completed", "failed", "dispute"}]
    /\ \A t \in Transactions : txStatus[t] = "dispute" <=> ActiveOn(t) # {}
    /\ overdue = [d \in Ids |-> "none"]
    /\ request = [r \in Requests |-> Idle]
    /\ engine = [e \in Engines |-> [at |-> "idle", todo |-> {}]]
    /\ payouts = [d \in Ids |-> 0]
    /\ reopened = [d \in Ids |-> 0]
    /\ extra = [d \in Ids |-> 0]
    /\ faults = 0

----------------------------------------------------------------------------
\* TransactionModel.updateStatus: refused, silently, unless the table allows it.
UpdateTx(t, s) ==
    IF s \in AllowedTx[txStatus[t]] THEN [txStatus EXCEPT ![t] = s] ELSE txStatus

\* Mutant: without the partial unique index.
IndexMissing(d, s) == TRUE

\* idx_disputes_open_transaction: one active dispute for a transaction.
IndexAllows(d, s) ==
    s \in ActiveStatuses => ActiveOn(disputes[d].tx) \subseteq {d}

\* DisputeModel.update with a status: refused by the index, or written whatever
\* the status is by now.
Write(d, s) ==
    IF IndexAllows(d, s)
    THEN /\ disputes' = [disputes EXCEPT ![d].status = s]
         /\ reopened' = IF ~Active(d) /\ s \in ActiveStatuses
                        THEN [reopened EXCEPT ![d] = @ + 1]
                        ELSE reopened
    ELSE UNCHANGED <<disputes, reopened>>

----------------------------------------------------------------------------
(* openDispute *)

\* findById of the transaction, which must be completed or failed.
OpenReads(r, t) ==
    /\ request[r] = Idle
    /\ txStatus[t] \in {"completed", "failed"}
    /\ Goto(r, [op |-> "check", tx |-> t])
    /\ UNCHANGED <<tables, engine, effects, faults>>

\* findActiveByTransactionId: a second dispute is refused.
OpenChecks(r) ==
    /\ request[r].op = "check"
    /\ Goto(r, IF ActiveOn(request[r].tx) = {}
               THEN [op |-> "create", tx |-> request[r].tx]
               ELSE Done)
    /\ UNCHANGED <<tables, engine, effects, faults>>

\* Mutant: the insert relies on the check made before it.
OpenCreatesUnindexed(r) ==
    /\ request[r].op = "create"
    /\ Len(disputes) < MaxDisputes
    /\ disputes' = Append(disputes, [tx |-> request[r].tx, status |-> "open"])
    /\ overdue' = Append(overdue, "none")
    /\ payouts' = Append(payouts, 0)
    /\ reopened' = Append(reopened, 0)
    /\ extra' = Append(extra, 0)
    /\ Goto(r, [op |-> "flag", tx |-> request[r].tx])
    /\ UNCHANGED <<txStatus, engine, faults>>

\* DisputeModel.create; the index makes a concurrent second insert fail.
OpenCreates(r) ==
    /\ request[r].op = "create"
    /\ Len(disputes) < MaxDisputes
    /\ IF ActiveOn(request[r].tx) = {}
       THEN /\ disputes' = Append(disputes, [tx |-> request[r].tx, status |-> "open"])
            /\ overdue' = Append(overdue, "none")
            /\ payouts' = Append(payouts, 0)
            /\ reopened' = Append(reopened, 0)
            /\ extra' = Append(extra, 0)
            /\ Goto(r, [op |-> "flag", tx |-> request[r].tx])
       ELSE /\ Goto(r, Done)
            /\ UNCHANGED <<disputes, overdue, effects>>
    /\ UNCHANGED <<txStatus, engine, faults>>

\* The transaction becomes disputed.
OpenFlags(r) ==
    /\ request[r].op = "flag"
    /\ txStatus' = UpdateTx(request[r].tx, "dispute")
    /\ Goto(r, Done)
    /\ UNCHANGED <<disputes, overdue, engine, effects, faults>>

----------------------------------------------------------------------------
(* resolvePayment *)

\* findById of the dispute, which must not be closed.
DecideReads(r, d, verdict) ==
    /\ request[r] = Idle
    /\ d \in Ids
    /\ Active(d)
    /\ Goto(r, [op |-> "decide", on |-> d, verdict |-> verdict])
    /\ UNCHANGED <<tables, engine, effects, faults>>

DecideWrites(r) ==
    /\ request[r].op = "decide"
    /\ Write(request[r].on, request[r].verdict)
    /\ Goto(r, [request[r] EXCEPT !.op = "settle"])
    /\ UNCHANGED <<txStatus, overdue, engine, payouts, extra, faults>>

\* Mutant: both verdicts restore the payment.
OutcomeOfUphold(verdict) == "completed"

\* nextTransactionStatus.
OutcomeOf(verdict) == IF verdict = "reversed" THEN "reversed" ELSE "completed"

DecideSettles(r) ==
    /\ request[r].op = "settle"
    /\ txStatus' = UpdateTx(disputes[request[r].on].tx, OutcomeOf(request[r].verdict))
    /\ Goto(r, Done)
    /\ UNCHANGED <<disputes, overdue, engine, effects, faults>>

----------------------------------------------------------------------------
(* updateStatus of a dispute, and assignToAgent *)

UpdateReads(r, d, s) ==
    /\ request[r] = Idle
    /\ d \in Ids
    /\ s \in Transitions[disputes[d].status]
    /\ Goto(r, [op |-> "write", on |-> d, verdict |-> s])
    /\ UNCHANGED <<tables, engine, effects, faults>>

UpdateWrites(r) ==
    /\ request[r].op = "write"
    /\ Write(request[r].on, request[r].verdict)
    /\ Goto(r, Done)
    /\ UNCHANGED <<txStatus, overdue, engine, payouts, extra, faults>>

AssignReads(r, d) ==
    /\ request[r] = Idle
    /\ d \in Ids
    /\ Active(d)
    /\ Goto(r, [op |-> "assign", on |-> d])
    /\ UNCHANGED <<tables, engine, effects, faults>>

\* assign returns the row it has updated: an open one is advanced by the next
\* statement.
AssignWrites(r) ==
    /\ request[r].op = "assign"
    /\ Goto(r, IF disputes[request[r].on].status = "open"
               THEN [op |-> "write", on |-> request[r].on, verdict |-> "investigating"]
               ELSE Done)
    /\ UNCHANGED <<tables, engine, effects, faults>>

\* A statement fails, the request times out or the process stops.
RequestFails(r) ==
    /\ request[r] \notin {Idle, Done}
    /\ faults < MaxFaults
    /\ faults' = faults + 1
    /\ Goto(r, Done)
    /\ UNCHANGED <<tables, engine, effects>>

----------------------------------------------------------------------------
(* checkSlaDeadlines *)

\* A pass begins: the disputes without a deadline are read.
PassBegins(e) ==
    /\ engine[e].at = "idle"
    /\ engine' = [engine EXCEPT ![e].at = "select"]
    /\ UNCHANGED <<tables, request, effects, faults>>

\* One of those that the replica has shown, closed ones included, is given its
\* deadline.
PassDates(e, d) ==
    /\ engine[e].at = "select"
    /\ d \in Ids
    /\ overdue[d] = "none"
    /\ overdue' = [overdue EXCEPT ![d] = "set"]
    /\ UNCHANGED <<txStatus, disputes, request, engine, effects, faults>>

Due(d) == Active(d) /\ overdue[d] = "over"

\* Mutant: the query forgets disputes under investigation.
PassSelectsOpen(e) ==
    /\ engine[e].at = "select"
    /\ LET list == {d \in Ids : Due(d) /\ disputes[d].status = "open"} IN
       engine' = [engine EXCEPT ![e] =
                    [at |-> IF list = {} THEN "idle" ELSE "mark", todo |-> list]]
    /\ UNCHANGED <<tables, request, effects, faults>>

\* Mutant: the query asks for the deadline only.
PassSelectsClosed(e) ==
    /\ engine[e].at = "select"
    /\ LET list == {d \in Ids : overdue[d] = "over"} IN
       engine' = [engine EXCEPT ![e] =
                    [at |-> IF list = {} THEN "idle" ELSE "mark", todo |-> list]]
    /\ UNCHANGED <<tables, request, effects, faults>>

\* The overdue active disputes are read, once for the pass.
PassSelects(e) ==
    /\ engine[e].at = "select"
    /\ LET list == {d \in Ids : Due(d)} IN
       engine' = [engine EXCEPT ![e] =
                    [at |-> IF list = {} THEN "idle" ELSE "mark", todo |-> list]]
    /\ UNCHANGED <<tables, request, effects, faults>>

\* They are read from a replica that lags: it may show a dispute as active that
\* this engine or somebody else has closed, and may not show a deadline yet.
PassSelectsStale(e, list) ==
    /\ engine[e].at = "select"
    /\ \A d \in list : d \in Ids /\ overdue[d] = "over"
    /\ faults < MaxFaults
    /\ faults' = faults + 1
    /\ engine' = [engine EXCEPT ![e] =
                    [at |-> IF list = {} THEN "idle" ELSE "mark", todo |-> list]]
    /\ extra' = [d \in Ids |-> IF d \in list /\ ~Active(d) THEN extra[d] + 1 ELSE extra[d]]
    /\ UNCHANGED <<tables, request, payouts, reopened>>

\* The next of the list is resolved, whatever became of it since.
PassResolves(e, d) ==
    /\ engine[e].at = "mark"
    /\ d \in engine[e].todo
    /\ Write(d, "resolved")
    /\ engine' = [engine EXCEPT ![e] =
                    [at |-> "pay", todo |-> engine[e].todo \ {d}, on |-> d]]
    /\ UNCHANGED <<txStatus, overdue, request, payouts, extra, faults>>

\* sendPayout: each of the providers it reaches may pay whether or not it says so,
\* since a call that timed out is failed over to the next of the chain.  The pass
\* goes on with the next dispute either way.
PassPays(e, paid) ==
    /\ engine[e].at = "pay"
    /\ payouts' = [payouts EXCEPT ![engine[e].on] = @ + paid]
    /\ extra' = [extra EXCEPT ![engine[e].on] = IF paid > 1 THEN @ + (paid - 1) ELSE @]
    /\ engine' = [engine EXCEPT ![e] =
                    [at |-> IF engine[e].todo = {} THEN "idle" ELSE "mark",
                     todo |-> engine[e].todo]]
    /\ UNCHANGED <<tables, request, reopened, faults>>

\* A statement fails, which ends the pass, or the process stops; the next
\* interval or the restarted process begins a new one.
PassEnds(e) ==
    /\ engine[e].at # "idle"
    /\ faults < MaxFaults
    /\ faults' = faults + 1
    /\ engine' = [engine EXCEPT ![e] = [at |-> "idle", todo |-> {}]]
    /\ UNCHANGED <<tables, request, effects>>

\* The deadline of a dispute passes.
DeadlinePasses(d) ==
    /\ d \in Ids
    /\ overdue[d] = "set"
    /\ overdue' = [overdue EXCEPT ![d] = "over"]
    /\ UNCHANGED <<txStatus, disputes, request, engine, effects, faults>>

----------------------------------------------------------------------------
RequestStep(r) ==
    \/ OpenChecks(r)
    \/ OpenCreates(r)
    \/ OpenFlags(r)
    \/ DecideWrites(r)
    \/ DecideSettles(r)
    \/ UpdateWrites(r)
    \/ AssignWrites(r)

PassStep(e) ==
    \/ PassBegins(e)
    \/ \E d \in 1 .. MaxDisputes : PassDates(e, d)
    \/ PassSelects(e)
    \/ \E d \in 1 .. MaxDisputes : PassResolves(e, d)
    \/ \E paid \in 0 .. MaxReached : PassPays(e, paid)

Next ==
    \/ \E r \in Requests, t \in Transactions : OpenReads(r, t)
    \/ \E r \in Requests, d \in 1 .. MaxDisputes, v \in {"reversed", "upheld"} :
         DecideReads(r, d, v)
    \/ \E r \in Requests, d \in 1 .. MaxDisputes,
          s \in ActiveStatuses \cup TerminalStatuses : UpdateReads(r, d, s)
    \/ \E r \in Requests, d \in 1 .. MaxDisputes : AssignReads(r, d)
    \/ \E r \in Requests : RequestStep(r) \/ RequestFails(r)
    \/ \E e \in Engines : PassStep(e) \/ PassEnds(e)
    \/ \E e \in Engines, list \in SUBSET (1 .. MaxDisputes) : PassSelectsStale(e, list)
    \/ \E d \in 1 .. MaxDisputes : DeadlinePasses(d)

Spec == Init /\ [][Next]_vars

\* The interval of the engine keeps firing and its statements settle.
FairSpec == Spec /\ \A e \in Engines : WF_vars(PassStep(e))

----------------------------------------------------------------------------
RequestStates ==
    {Idle, Done}
    \cup [op : {"check", "create", "flag"}, tx : Transactions]
    \cup [op : {"decide", "settle", "write"}, on : Ids,
          verdict : ActiveStatuses \cup TerminalStatuses]
    \cup [op : {"assign"}, on : Ids]

\* Type correctness; every request and every pass works on stored disputes.
TypeOK ==
    /\ txStatus \in [Transactions -> {"completed", "failed", "dispute", "reversed"}]
    /\ Len(disputes) <= MaxDisputes
    /\ \A d \in Ids :
         /\ disputes[d].tx \in Transactions
         /\ disputes[d].status \in ActiveStatuses \cup TerminalStatuses
         /\ overdue[d] \in {"none", "set", "over"}
         /\ payouts[d] \in Nat
         /\ reopened[d] \in Nat
         /\ extra[d] \in Nat
    /\ DOMAIN overdue = Ids /\ DOMAIN payouts = Ids /\ DOMAIN reopened = Ids
    /\ DOMAIN extra = Ids
    /\ \A r \in Requests : request[r] \in RequestStates
    /\ \A e \in Engines :
         /\ engine[e].at \in {"idle", "select", "mark", "pay"}
         /\ engine[e].todo \subseteq Ids
         /\ engine[e].at = "pay" => engine[e].on \in Ids \ engine[e].todo
    /\ faults \in 0 .. MaxFaults

\* A transaction has at most one active dispute, although requests check before
\* they insert, and a stale request may make a closed dispute active again.
OneActiveDispute == \A t \in Transactions : Cardinality(ActiveOn(t)) <= 1

\* The payouts of a dispute that are made or about to be made.
PaidOrPaying(d) ==
    payouts[d] + Cardinality({e \in Engines : engine[e].at = "pay" /\ engine[e].on = d})

\* For each time a dispute is active, opened or reopened by a stale request,
\* each engine pays it at most once, whatever fails in between: a pass resolves
\* it before it pays, so that a pass that reads the table after a crash does not
\* list it.  Each further payout has one of two causes: a pass whose list a
\* lagging replica gave had the dispute on it when it was closed, or the failover
\* paid it with a second provider.
PaidOncePerOpening ==
    \A d \in Ids : PaidOrPaying(d) <= Cardinality(Engines) * (1 + reopened[d]) + extra[d]

\* A payment leaves the disputed state, or is reversed, only by a verdict of an
\* admin about one of its disputes: reversed by a reversal, restored by the
\* other.  Resolving, rejecting and the SLA engine leave it as it is, and a
\* reversal stands: neither the late write of the request that opened the
\* dispute nor a second verdict takes it back.
MovedByVerdict ==
    [][\A t \in Transactions : txStatus'[t] # txStatus[t] =>
         /\ txStatus[t] # "reversed"
         /\ txStatus'[t] # "dispute" =>
              \E r \in Requests :
                /\ request[r].op = "settle"
                /\ request'[r] = Done
                /\ disputes[request[r].on].tx = t
                /\ request[r].verdict = "reversed" <=> txStatus'[t] = "reversed"]_vars

\* A dispute past its deadline does not stay active: the engine closes it unless
\* somebody else does.
OverdueIsClosed ==
    \A d \in 1 .. MaxDisputes :
        (d \in Ids /\ Due(d)) ~> (d \in Ids /\ ~Active(d))
=============================================================================
