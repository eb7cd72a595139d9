--------------------------- MODULE DisputesProofs ---------------------------
(***************************************************************************)
(* Proofs about Disputes, for any number of transactions, requests,        *)
(* passes of the SLA engine, disputes and faults.                          *)
(***************************************************************************)
EXTENDS Disputes, FiniteSetTheorems, SequenceTheorems, TLAPS

----------------------------------------------------------------------------
(* The inductive invariant *)

Statuses == ActiveStatuses \cup TerminalStatuses

Rows == [tx : Transactions, status : Statuses]

Deadlines == {"none", "set", "over"}

TablesType ==
    /\ txStatus \in [Transactions -> {"completed", "failed", "dispute", "reversed"}]
    /\ disputes \in Seq(Rows)
    /\ Len(disputes) <= MaxDisputes
    /\ overdue \in [1 .. Len(disputes) -> Deadlines]

EffectsType ==
    /\ payouts \in [1 .. Len(disputes) -> Nat]
    /\ reopened \in [1 .. Len(disputes) -> Nat]
    /\ extra \in [1 .. Len(disputes) -> Nat]

RequestsType == request \in [Requests -> RequestStates]

EngineStates ==
    [at : {"idle", "select", "mark"}, todo : SUBSET Ids]
    \cup [at : {"pay"}, todo : SUBSET Ids, on : Ids]

\* A pass has its list from the query to its end, and has taken off it the
\* dispute that it is about to pay.
EnginesType ==
    /\ engine \in [Engines -> EngineStates]
    /\ \A e \in Engines :
         /\ engine[e].at \in {"idle", "select"} => engine[e].todo = {}
         /\ engine[e].at = "pay" => engine[e].on \notin engine[e].todo

FaultsType == faults \in 0 .. MaxFaults

TypeInv == TablesType /\ EffectsType /\ RequestsType /\ EnginesType /\ FaultsType

\* OneActiveDispute without cardinalities.
ActiveInv ==
    \A c, d \in Ids : Active(c) /\ Active(d) /\ disputes[c].tx = disputes[d].tx => c = d

Paying(d) == {e \in Engines : engine[e].at = "pay" /\ engine[e].on = d}

\* The passes that have read a dispute as overdue and will pay it, whatever
\* becomes of it.
Pending(d) == {e \in Engines : d \in engine[e].todo}

\* What is paid and what is certain to be paid.  While a dispute is active it
\* was paid for its earlier openings only; once it is closed, the passes that
\* have read it may add one payout each, and only a lagging replica shows it to
\* another pass, which extra counts as it counts what a failover adds.
PayoutBound(d) ==
    IF Active(d)
    THEN payouts[d] + Cardinality(Paying(d)) <= Cardinality(Engines) * reopened[d] + extra[d]
    ELSE payouts[d] + Cardinality(Paying(d)) + Cardinality(Pending(d))
           <= Cardinality(Engines) * (1 + reopened[d]) + extra[d]

PayoutsInv == \A d \in Ids : PayoutBound(d)

IInv == TypeInv /\ ActiveInv /\ PayoutsInv

----------------------------------------------------------------------------
(* The tables *)

LEMMA AppendRow ==
    ASSUME NEW S, NEW n \in Nat, NEW f \in [1 .. n -> S], NEW x \in S
    PROVE  /\ Append(f, x) \in [1 .. n + 1 -> S]
           /\ \A i \in 1 .. n : Append(f, x)[i] = f[i]
           /\ Append(f, x)[n + 1] = x
<1>1. f \in Seq(S) /\ Len(f) = n
  BY SeqDef
<1>2. /\ Append(f, x) \in Seq(S) /\ Len(Append(f, x)) = n + 1
      /\ \A i \in 1 .. n : Append(f, x)[i] = f[i]
      /\ Append(f, x)[n + 1] = x
  BY <1>1, AppendProperties
<1>3. Append(f, x) \in [1 .. Len(Append(f, x)) -> S]
  BY <1>2, LenProperties
<1> QED
  BY <1>2, <1>3

LEMMA CounterAdded ==
    ASSUME NEW n \in Nat, NEW f \in [1 .. n -> Nat]
    PROVE  /\ Append(f, 0) \in [1 .. n + 1 -> Nat]
           /\ \A i \in 1 .. n : Append(f, 0)[i] = f[i]
           /\ Append(f, 0)[n + 1] = 0
<1>1. Append(f, 0) \in [1 .. n + 1 -> Nat]
  BY AppendRow, Zenon
<1>2. \A i \in 1 .. n : Append(f, 0)[i] = f[i]
  BY AppendRow, SMT
<1>3. Append(f, 0)[n + 1] = 0
  BY AppendRow, SMT
<1> QED
  BY <1>1, <1>2, <1>3

LEMMA RowsAre ==
    ASSUME TypeInv
    PROVE  /\ Len(disputes) \in Nat /\ Ids = 1 .. Len(disputes)
           /\ disputes \in [1 .. Len(disputes) -> Rows]
           /\ \A d \in Ids : /\ disputes[d] \in Rows
                             /\ disputes[d].tx \in Transactions
                             /\ disputes[d].status \in Statuses
                             /\ overdue[d] \in Deadlines
                             /\ payouts[d] \in Nat /\ reopened[d] \in Nat /\ extra[d] \in Nat
<1>1. /\ Len(disputes) \in Nat /\ Ids = 1 .. Len(disputes)
      /\ disputes \in [1 .. Len(disputes) -> Rows]
  BY LenProperties DEF TypeInv, TablesType, Ids
<1>2. \A d \in Ids : disputes[d] \in Rows
  BY <1>1
<1>3. \A d \in Ids : disputes[d].tx \in Transactions /\ disputes[d].status \in Statuses
  BY <1>2 DEF Rows
<1> QED
  BY <1>1, <1>2, <1>3 DEF TypeInv, TablesType, EffectsType

\* A write of a dispute's status: the index refuses it or it is done, and it is
\* counted when it makes a closed dispute active.
LEMMA WriteEffect ==
    ASSUME TypeInv, NEW d \in Ids, NEW s \in Statuses, Write(d, s)
    PROVE  /\ disputes' \in Seq(Rows) /\ Len(disputes') = Len(disputes) /\ Ids' = Ids
           /\ reopened' \in [1 .. Len(disputes) -> Nat]
           /\ \A c \in Ids : disputes'[c].tx = disputes[c].tx
           /\ \A c \in Ids : c # d => /\ disputes'[c].status = disputes[c].status
                                      /\ reopened'[c] = reopened[c]
           /\ \/ /\ s \in ActiveStatuses
                 /\ UNCHANGED <<disputes, reopened>>
              \/ /\ IndexAllows(d, s) /\ disputes'[d].status = s
                 /\ reopened'[d] = IF ~Active(d) /\ s \in ActiveStatuses
                                   THEN reopened[d] + 1 ELSE reopened[d]
<1>1. /\ Len(disputes) \in Nat /\ Ids = 1 .. Len(disputes)
      /\ disputes \in Seq(Rows) /\ disputes[d] \in Rows
      /\ reopened \in [1 .. Len(disputes) -> Nat]
  BY RowsAre DEF TypeInv, TablesType, EffectsType
<1>2. CASE ~IndexAllows(d, s)
  <2>1. UNCHANGED <<disputes, reopened>> /\ s \in ActiveStatuses
    BY <1>2 DEF Write, IndexAllows
  <2> QED
    BY <1>1, <2>1 DEF Ids
<1>3. CASE IndexAllows(d, s)
  <2> DEFINE row == [disputes[d] EXCEPT !.status = s]
  <2>1. row \in Rows /\ row.tx = disputes[d].tx /\ row.status = s
    BY <1>1 DEF Rows
  <2>2. disputes' = [disputes EXCEPT ![d] = row]
    BY <1>3 DEF Write
  <2>3. reopened' = IF ~Active(d) /\ s \in ActiveStatuses
                    THEN [reopened EXCEPT ![d] = @ + 1] ELSE reopened
    BY <1>3 DEF Write
  <2> HIDE DEF row
  <2>4. /\ disputes' \in Seq(Rows) /\ Len(disputes') = Len(disputes)
        /\ \A c \in 1 .. Len(disputes) : disputes'[c] = IF c = d THEN row ELSE disputes[c]
    BY <1>1, <2>1, <2>2, ExceptSeq
  <2>5. Ids' = Ids
    BY <1>1, <2>4, LenProperties DEF Ids
  <2>6. /\ reopened' \in [1 .. Len(disputes) -> Nat]
        /\ \A c \in Ids : c # d => reopened'[c] = reopened[c]
        /\ reopened'[d] = IF ~Active(d) /\ s \in ActiveStatuses
                          THEN reopened[d] + 1 ELSE reopened[d]
    BY <1>1, <2>3
  <2> QED
    BY <1>1, <1>3, <2>1, <2>4, <2>5, <2>6
<1> QED
  BY <1>2, <1>3

\* What the insert of a dispute does to the four tables.
LEMMA CreateEffect ==
    ASSUME TypeInv, NEW r \in Requests, OpenCreates(r), request[r].tx \in Transactions,
           ActiveOn(request[r].tx) = {}
    PROVE  /\ disputes' \in Seq(Rows) /\ Len(disputes') = Len(disputes) + 1
           /\ Len(disputes') <= MaxDisputes
           /\ Ids' = Ids \cup {Len(disputes) + 1}
           /\ \A d \in Ids : /\ disputes'[d] = disputes[d]
                             /\ payouts'[d] = payouts[d] /\ reopened'[d] = reopened[d]
                             /\ extra'[d] = extra[d]
           /\ disputes'[Len(disputes) + 1].tx = request[r].tx
           /\ disputes'[Len(disputes) + 1].status = "open"
           /\ payouts'[Len(disputes) + 1] = 0 /\ reopened'[Len(disputes) + 1] = 0
           /\ extra'[Len(disputes) + 1] = 0
           /\ overdue' \in [1 .. Len(disputes') -> Deadlines]
           /\ payouts' \in [1 .. Len(disputes') -> Nat]
           /\ reopened' \in [1 .. Len(disputes') -> Nat]
           /\ extra' \in [1 .. Len(disputes') -> Nat]
<1> DEFINE row == [tx |-> request[r].tx, status |-> "open"]
           n == Len(disputes)
<1>1. /\ n \in Nat /\ Ids = 1 .. n /\ n <= MaxDisputes /\ disputes \in Seq(Rows)
      /\ overdue \in [1 .. n -> Deadlines]
      /\ payouts \in [1 .. n -> Nat] /\ reopened \in [1 .. n -> Nat] /\ extra \in [1 .. n -> Nat]
  BY RowsAre DEF TypeInv, TablesType, EffectsType
<1>2. row \in Rows /\ row.tx = request[r].tx /\ row.status = "open"
  BY DEF Rows, Statuses, ActiveStatuses
<1>3. /\ disputes' = Append(disputes, row) /\ overdue' = Append(overdue, "none")
      /\ payouts' = Append(payouts, 0) /\ reopened' = Append(reopened, 0)
      /\ extra' = Append(extra, 0)
      /\ n < MaxDisputes
  BY DEF OpenCreates
<1> HIDE DEF row
<1>4. /\ disputes' \in Seq(Rows) /\ Len(disputes') = n + 1
      /\ \A d \in 1 .. n : disputes'[d] = disputes[d]
      /\ disputes'[n + 1] = row
  BY <1>1, <1>2, <1>3, AppendProperties
<1>5. overdue' \in [1 .. n + 1 -> Deadlines]
  BY <1>1, <1>3, AppendRow DEF Deadlines
<1>6. ASSUME NEW f \in [1 .. n -> Nat]
      PROVE  /\ Append(f, 0) \in [1 .. n + 1 -> Nat] /\ Append(f, 0)[n + 1] = 0
             /\ \A d \in 1 .. n : Append(f, 0)[d] = f[d]
  BY <1>1, CounterAdded
<1>7. /\ payouts' \in [1 .. n + 1 -> Nat] /\ payouts'[n + 1] = 0
      /\ reopened' \in [1 .. n + 1 -> Nat] /\ reopened'[n + 1] = 0
      /\ extra' \in [1 .. n + 1 -> Nat] /\ extra'[n + 1] = 0
      /\ \A d \in 1 .. n : /\ payouts'[d] = payouts[d] /\ reopened'[d] = reopened[d]
                           /\ extra'[d] = extra[d]
  BY <1>1, <1>3, <1>6
<1>8. Ids' = 1 .. n + 1
  BY <1>4, LenProperties DEF Ids
<1>9. Ids' = Ids \cup {n + 1} /\ n + 1 <= MaxDisputes
  BY <1>1, <1>3, <1>8, DisputesAssumption
<1> QED
  BY <1>1, <1>2, <1>4, <1>5, <1>7, <1>9

\* What a request remembers.
LEMMA RequestFields ==
    ASSUME TypeInv, NEW r \in Requests
    PROVE  /\ request[r].op \in {"check", "create", "flag"} => request[r].tx \in Transactions
           /\ request[r].op \in {"decide", "settle", "write"} =>
                 /\ request[r] \in [op : {"decide", "settle", "write"}, on : Ids,
                                    verdict : Statuses]
                 /\ request[r].on \in Ids /\ request[r].verdict \in Statuses
           /\ request[r].op = "assign" => request[r].on \in Ids
<1>1. request[r] \in RequestStates
  BY DEF TypeInv, RequestsType
<1>2. \/ request[r].op \in {"idle", "done"}
      \/ request[r] \in [op : {"check", "create", "flag"}, tx : Transactions]
      \/ request[r] \in [op : {"decide", "settle", "write"}, on : Ids, verdict : Statuses]
      \/ request[r] \in [op : {"assign"}, on : Ids]
  BY <1>1 DEF RequestStates, Idle, Done, Statuses
<1> QED
  BY <1>2

\* What a pass remembers.
LEMMA PassFields ==
    ASSUME TypeInv, NEW e \in Engines
    PROVE  /\ engine[e] \in EngineStates /\ engine[e].todo \subseteq Ids
           /\ engine[e].at = "pay" => engine[e].on \in Ids
BY DEF TypeInv, EnginesType, EngineStates

\* What one payout writes: the payments of all providers it reaches, of which
\* those beyond the first are extra.
LEMMA PayEffect ==
    ASSUME TypeInv, NEW e \in Engines, NEW paid \in 0 .. MaxReached, PassPays(e, paid)
    PROVE  /\ paid \in Nat /\ engine[e].on \in Ids
           /\ payouts' \in [1 .. Len(disputes) -> Nat]
           /\ extra' \in [1 .. Len(disputes) -> Nat]
           /\ \A d \in Ids : IF d = engine[e].on
                             THEN payouts'[d] - extra'[d] <= payouts[d] - extra[d] + 1
                             ELSE payouts'[d] = payouts[d] /\ extra'[d] = extra[d]
<1>1. /\ paid \in Nat /\ engine[e].on \in Ids /\ Ids = 1 .. Len(disputes)
      /\ payouts \in [1 .. Len(disputes) -> Nat]
      /\ extra \in [1 .. Len(disputes) -> Nat]
  BY DisputesAssumption, PassFields, RowsAre DEF PassPays, TypeInv, EffectsType
<1>2. PICK o \in Ids : o = engine[e].on
  BY <1>1
<1>3. PICK n \in Nat : n = IF paid > 1 THEN extra[o] + (paid - 1) ELSE extra[o]
  BY <1>1, <1>2
<1>4. payouts' = [payouts EXCEPT ![o] = @ + paid] /\ extra' = [extra EXCEPT ![o] = n]
  BY <1>2, <1>3 DEF PassPays
<1>5. /\ payouts' \in [1 .. Len(disputes) -> Nat]
      /\ extra' \in [1 .. Len(disputes) -> Nat]
      /\ \A d \in Ids : /\ payouts'[d] = IF d = o THEN payouts[o] + paid ELSE payouts[d]
                        /\ extra'[d] = IF d = o THEN n ELSE extra[d]
  BY <1>1, <1>2, <1>3, <1>4
<1>6. payouts[o] + paid - n <= payouts[o] - extra[o] + 1
  BY <1>1, <1>2, <1>3
<1>7. payouts'[o] - extra'[o] <= payouts[o] - extra[o] + 1
  <2>1. payouts'[o] = payouts[o] + paid
    BY <1>5
  <2>2. extra'[o] = n
    BY <1>5
  <2> QED
    BY <1>1, <1>2, <1>3, <1>6, <2>1, <2>2
<1> QED
  BY <1>1, <1>2, <1>5, <1>7

----------------------------------------------------------------------------
(* Types *)

LEMMA TypeInit == Init => TypeInv
<1> SUFFICES ASSUME Init PROVE TypeInv
  OBVIOUS
<1>1. disputes \in Seq(Rows)
  <2>1. CASE disputes = <<>>
    BY <2>1, EmptySeq
  <2>2. ASSUME NEW t \in Transactions, disputes = <<[tx |-> t, status |-> "open"]>>
        PROVE  disputes \in Seq(Rows)
    <3>1. [tx |-> t, status |-> "open"] \in Rows
      BY DEF Rows, Statuses, ActiveStatuses
    <3> QED
      BY <2>2, <3>1
  <2> QED
    BY <2>1, <2>2 DEF Init
<1>2. Ids = 1 .. Len(disputes)
  BY <1>1 DEF Ids
<1>3. TablesType /\ EffectsType
  BY <1>1, <1>2 DEF Init, TablesType, EffectsType, Deadlines
<1>4. RequestsType
  BY DEF Init, RequestsType, RequestStates
<1>5. EnginesType
  <2> DEFINE s == [at |-> "idle", todo |-> {}]
  <2>1. s \in EngineStates /\ s.at = "idle" /\ s.todo = {}
    BY DEF EngineStates
  <2> HIDE DEF s
  <2>2. engine = [e \in Engines |-> s]
    BY DEF Init, s
  <2> QED
    BY <2>1, <2>2 DEF EnginesType
<1>6. FaultsType
  BY DisputesAssumption DEF Init, FaultsType
<1> QED
  BY <1>3, <1>4, <1>5, <1>6 DEF TypeInv

\* The steps that write the tables.
LEMMA TablesKept ==
    ASSUME Next,
           \A r \in Requests : /\ ~OpenCreates(r) /\ ~OpenFlags(r) /\ ~DecideWrites(r)
                               /\ ~DecideSettles(r) /\ ~UpdateWrites(r),
           \A e \in Engines : ~PassStep(e),
           \A e \in Engines, list \in SUBSET (1 .. MaxDisputes) : ~PassSelectsStale(e, list),
           \A d \in 1 .. MaxDisputes : ~DeadlinePasses(d)
    PROVE  UNCHANGED <<tables, effects>>
BY DEF Next, RequestStep, OpenReads, DecideReads, UpdateReads, AssignReads, OpenChecks,
       AssignWrites, RequestFails, PassEnds

\* No dispute is deleted or moved to another transaction.
TablesGrow == Ids \subseteq Ids' /\ \A d \in Ids : disputes'[d].tx = disputes[d].tx

LEMMA UpdateTxType ==
    ASSUME TypeInv, NEW t \in Transactions, NEW s \in {"completed", "dispute", "reversed"}
    PROVE  UpdateTx(t, s) \in
              [Transactions -> {"completed", "failed", "dispute", "reversed"}]
BY DEF TypeInv, TablesType, UpdateTx

LEMMA TablesStep ==
    TypeInv /\ [Next]_vars => TablesType' /\ EffectsType' /\ TablesGrow
<1> DEFINE Goal == TablesType' /\ EffectsType' /\ TablesGrow
<1> SUFFICES ASSUME TypeInv, [Next]_vars
             PROVE  Goal
  OBVIOUS
<1>t. /\ TablesType /\ EffectsType
      /\ Len(disputes) \in Nat /\ Ids = 1 .. Len(disputes)
  BY RowsAre DEF TypeInv
<1>k. ASSUME UNCHANGED disputes
      PROVE  TablesGrow
  BY <1>k DEF TablesGrow, Ids
<1>1. ASSUME NEW r \in Requests, OpenCreates(r)
      PROVE  Goal
  <2>1. request[r].tx \in Transactions
    BY <1>1, RequestFields DEF OpenCreates
  <2>2. CASE ActiveOn(request[r].tx) = {}
    BY <1>1, <1>t, <2>1, <2>2, CreateEffect
    DEF OpenCreates, TablesType, EffectsType, TablesGrow
  <2>3. CASE ActiveOn(request[r].tx) # {}
    BY <1>1, <1>t, <1>k, <2>3 DEF OpenCreates, effects, TablesType, EffectsType
  <2> QED
    BY <2>2, <2>3
<1>2. ASSUME NEW r \in Requests, OpenFlags(r)
      PROVE  Goal
  BY <1>2, <1>t, <1>k, RequestFields, UpdateTxType
  DEF OpenFlags, effects, TablesType, EffectsType
<1>3. ASSUME NEW r \in Requests, DecideSettles(r)
      PROVE  Goal
  <2>1. /\ disputes[request[r].on].tx \in Transactions
        /\ OutcomeOf(request[r].verdict) \in {"completed", "dispute", "reversed"}
    BY <1>3, RequestFields, RowsAre DEF DecideSettles, OutcomeOf
  <2> QED
    BY <1>3, <1>t, <1>k, <2>1, UpdateTxType
    DEF DecideSettles, effects, TablesType, EffectsType
<1>4. ASSUME NEW d \in Ids, NEW s \in Statuses, Write(d, s),
             UNCHANGED <<txStatus, overdue, payouts, extra>>
      PROVE  Goal
  BY <1>4, <1>t, WriteEffect DEF TablesType, EffectsType, TablesGrow
<1>5. ASSUME NEW r \in Requests, DecideWrites(r) \/ UpdateWrites(r)
      PROVE  Goal
  BY <1>5, <1>4, RequestFields DEF DecideWrites, UpdateWrites
<1>6. ASSUME NEW e \in Engines, NEW d \in 1 .. MaxDisputes, PassDates(e, d)
      PROVE  Goal
  <2>1. overdue' \in [1 .. Len(disputes) -> Deadlines]
    BY <1>6, <1>t DEF PassDates, TablesType, Deadlines
  <2> QED
    BY <1>6, <1>t, <1>k, <2>1 DEF PassDates, effects, TablesType, EffectsType
<1>7. ASSUME NEW e \in Engines, PassBegins(e) \/ PassSelects(e)
      PROVE  Goal
  BY <1>7, <1>t, <1>k DEF PassBegins, PassSelects, tables, effects, TablesType, EffectsType
<1>7s. ASSUME NEW e \in Engines, NEW list \in SUBSET (1 .. MaxDisputes),
              PassSelectsStale(e, list)
       PROVE  Goal
  <2>1. extra' \in [1 .. Len(disputes) -> Nat]
    BY <1>7s, <1>t DEF PassSelectsStale, EffectsType
  <2> QED
    BY <1>7s, <1>t, <1>k, <2>1 DEF PassSelectsStale, tables, TablesType, EffectsType
<1>8. ASSUME NEW e \in Engines, NEW d \in 1 .. MaxDisputes, PassResolves(e, d)
      PROVE  Goal
  <2>1. d \in Ids /\ "resolved" \in Statuses
    BY <1>8, PassFields DEF PassResolves, Statuses, TerminalStatuses
  <2> QED
    BY <1>8, <1>4, <2>1 DEF PassResolves
<1>9. ASSUME NEW e \in Engines, NEW paid \in 0 .. MaxReached, PassPays(e, paid)
      PROVE  Goal
  <2>1. /\ payouts' \in [1 .. Len(disputes) -> Nat]
        /\ extra' \in [1 .. Len(disputes) -> Nat]
    BY <1>9, <1>t, PayEffect DEF EffectsType
  <2> QED
    BY <1>9, <1>t, <1>k, <2>1 DEF PassPays, tables, TablesType, EffectsType
<1>10. ASSUME NEW d \in 1 .. MaxDisputes, DeadlinePasses(d)
       PROVE  Goal
  <2>1. overdue' \in [1 .. Len(disputes) -> Deadlines]
    BY <1>10, <1>t DEF DeadlinePasses, TablesType, Deadlines
  <2> QED
    BY <1>10, <1>t, <1>k, <2>1 DEF DeadlinePasses, effects, TablesType, EffectsType
<1>11. ASSUME UNCHANGED <<tables, effects>>
       PROVE  Goal
  BY <1>11, <1>t, <1>k DEF tables, effects, TablesType, EffectsType
<1> QED
  BY <1>1, <1>2, <1>3, <1>5, <1>6, <1>7, <1>7s, <1>8, <1>9, <1>10, <1>11, TablesKept
  DEF PassStep, vars, tables, effects

LEMMA RequestsStep ==
    TypeInv /\ [Next]_vars => RequestsType'
<1> SUFFICES ASSUME TypeInv, [Next]_vars
             PROVE  RequestsType'
  OBVIOUS
<1>t. request \in [Requests -> RequestStates]
  BY DEF TypeInv, RequestsType
<1>g. Ids \subseteq Ids'
  BY TablesStep DEF TablesGrow
<1>s. RequestStates \subseteq RequestStates'
  BY <1>g DEF RequestStates
<1>k. ASSUME NEW r \in Requests, NEW state \in RequestStates', Goto(r, state)
      PROVE  RequestsType'
  BY <1>k, <1>t, <1>s DEF Goto, RequestsType
<1>i. Done \in RequestStates'
  BY DEF RequestStates
<1>d. ASSUME NEW o \in {"check", "create", "flag"}, NEW t \in Transactions
      PROVE  [op |-> o, tx |-> t] \in RequestStates'
  BY DEF RequestStates
<1>v. ASSUME NEW o \in {"decide", "settle", "write"}, NEW d \in Ids, NEW s \in Statuses
      PROVE  [op |-> o, on |-> d, verdict |-> s] \in RequestStates'
  BY <1>g DEF RequestStates, Statuses
<1>1. ASSUME NEW r \in Requests, NEW t \in Transactions, OpenReads(r, t)
      PROVE  RequestsType'
  BY <1>1, <1>k, <1>d DEF OpenReads
<1>2. ASSUME NEW r \in Requests, NEW d \in 1 .. MaxDisputes, NEW v \in {"reversed", "upheld"},
             DecideReads(r, d, v)
      PROVE  RequestsType'
  BY <1>2, <1>k, <1>v DEF DecideReads, Statuses, TerminalStatuses
<1>3. ASSUME NEW r \in Requests, NEW d \in 1 .. MaxDisputes, NEW s \in Statuses,
             UpdateReads(r, d, s)
      PROVE  RequestsType'
  BY <1>3, <1>k, <1>v DEF UpdateReads
<1>4. ASSUME NEW r \in Requests, NEW d \in 1 .. MaxDisputes, AssignReads(r, d)
      PROVE  RequestsType'
  <2>1. [op |-> "assign", on |-> d] \in RequestStates'
    BY <1>4, <1>g DEF AssignReads, RequestStates
  <2> QED
    BY <1>4, <1>k, <2>1 DEF AssignReads
<1>5. ASSUME NEW r \in Requests, OpenChecks(r) \/ OpenCreates(r)
      PROVE  RequestsType'
  <2>1. request[r].tx \in Transactions
    BY <1>5, RequestFields DEF OpenChecks, OpenCreates
  <2>2. \/ Goto(r, Done)
        \/ Goto(r, [op |-> "create", tx |-> request[r].tx])
        \/ Goto(r, [op |-> "flag", tx |-> request[r].tx])
    BY <1>5 DEF OpenChecks, OpenCreates
  <2> QED
    BY <1>k, <1>i, <1>d, <2>1, <2>2
<1>6. ASSUME NEW r \in Requests,
             \/ OpenFlags(r) \/ DecideSettles(r) \/ UpdateWrites(r) \/ RequestFails(r)
      PROVE  RequestsType'
  BY <1>6, <1>k, <1>i DEF OpenFlags, DecideSettles, UpdateWrites, RequestFails
<1>7. ASSUME NEW r \in Requests, DecideWrites(r)
      PROVE  RequestsType'
  <2> DEFINE x == request[r]
             y == [x EXCEPT !.op = "settle"]
  <2>1. x \in [op : {"decide", "settle", "write"}, on : Ids, verdict : Statuses]
    BY <1>7, RequestFields DEF DecideWrites
  <2>2. Goto(r, y)
    BY <1>7 DEF DecideWrites
  <2> HIDE DEF x
  <2>3. y \in [op : {"decide", "settle", "write"}, on : Ids, verdict : Statuses]
    BY <2>1
  <2> HIDE DEF y
  <2>4. y \in RequestStates'
    BY <1>s, <2>3 DEF RequestStates, Statuses
  <2> QED
    BY <1>k, <2>2, <2>4
<1>8. ASSUME NEW r \in Requests, AssignWrites(r)
      PROVE  RequestsType'
  <2>1. request[r].on \in Ids /\ "investigating" \in Statuses
    BY <1>8, RequestFields DEF AssignWrites, Statuses, ActiveStatuses
  <2>2. \/ Goto(r, Done)
        \/ Goto(r, [op |-> "write", on |-> request[r].on, verdict |-> "investigating"])
    BY <1>8 DEF AssignWrites
  <2> QED
    BY <1>k, <1>i, <1>v, <2>1, <2>2
<1>9. ASSUME UNCHANGED request
      PROVE  RequestsType'
  BY <1>9, <1>t, <1>s DEF RequestsType
<1>10. ASSUME NEW e \in Engines,
              \/ PassStep(e) \/ PassEnds(e)
              \/ \E list \in SUBSET (1 .. MaxDisputes) : PassSelectsStale(e, list)
       PROVE  UNCHANGED request
  BY <1>10 DEF PassStep, PassBegins, PassDates, PassSelects, PassSelectsStale, PassResolves,
               PassPays, PassEnds
<1> QED
  BY <1>1, <1>2, <1>3, <1>4, <1>5, <1>6, <1>7, <1>8, <1>9, <1>10
  DEF Next, RequestStep, DeadlinePasses, vars, Statuses

\* A step of a request leaves the passes alone.
LEMMA EnginesKept ==
    ASSUME [Next]_vars,
           \A e \in Engines :
              /\ ~PassStep(e) /\ ~PassEnds(e)
              /\ \A list \in SUBSET (1 .. MaxDisputes) : ~PassSelectsStale(e, list)
    PROVE  UNCHANGED engine
BY DEF Next, RequestStep, OpenReads, DecideReads, UpdateReads, AssignReads, OpenChecks,
       OpenCreates, OpenFlags, DecideWrites, DecideSettles, UpdateWrites, AssignWrites,
       RequestFails, DeadlinePasses, vars

LEMMA PassSet ==
    ASSUME TypeInv, Ids \subseteq Ids', NEW e \in Engines, NEW x \in EngineStates,
           x.at \in {"idle", "select"} => x.todo = {},
           x.at = "pay" => x.on \notin x.todo,
           engine' = [engine EXCEPT ![e] = x]
    PROVE  EnginesType'
<1>1. EngineStates \subseteq EngineStates'
  BY DEF EngineStates
<1>2. engine' \in [Engines -> EngineStates']
  BY <1>1 DEF TypeInv, EnginesType
<1>3. \A f \in Engines : engine'[f] = IF f = e THEN x ELSE engine[f]
  BY DEF TypeInv, EnginesType
<1> QED
  BY <1>2, <1>3 DEF TypeInv, EnginesType

\* What each step of a pass writes in its state.
LEMMA PassEffect ==
    ASSUME TypeInv, NEW e \in Engines,
           \/ PassStep(e) \/ PassEnds(e)
           \/ \E list \in SUBSET (1 .. MaxDisputes) : PassSelectsStale(e, list)
    PROVE  \E x \in EngineStates :
             /\ engine' = [engine EXCEPT ![e] = x]
             /\ x.at \in {"idle", "select"} => x.todo = {}
             /\ x.at = "pay" => x.on \notin x.todo
<1>t. /\ engine[e] \in EngineStates /\ engine[e].todo \subseteq Ids
      /\ engine[e].at \in {"idle", "select"} => engine[e].todo = {}
      /\ engine[e].at = "pay" => engine[e].on \in Ids
  BY PassFields DEF TypeInv, EnginesType
<1> DEFINE Goal(x) == /\ x \in EngineStates
                      /\ engine' = [engine EXCEPT ![e] = x]
                      /\ x.at \in {"idle", "select"} => x.todo = {}
                      /\ x.at = "pay" => x.on \notin x.todo
<1>s. ASSUME NEW a \in {"idle", "select", "mark"}, NEW L \in SUBSET Ids,
             a \in {"idle", "select"} => L = {},
             engine' = [engine EXCEPT ![e] = [at |-> a, todo |-> L]]
      PROVE  Goal([at |-> a, todo |-> L])
  BY <1>s DEF EngineStates
<1>1. ASSUME PassBegins(e)
      PROVE  \E x : Goal(x)
  <2> DEFINE y == engine[e]
             x == [y EXCEPT !.at = "select"]
  <2>1. y \in [at : {"idle", "select", "mark"}, todo : SUBSET Ids] /\ y.todo = {}
    BY <1>1, <1>t DEF PassBegins, EngineStates
  <2>2. engine' = [engine EXCEPT ![e] = x]
    BY <1>1 DEF PassBegins
  <2> HIDE DEF y
  <2>3. x \in EngineStates /\ x.at = "select" /\ x.todo = {}
    BY <2>1 DEF EngineStates
  <2> HIDE DEF x
  <2> QED
    BY <2>2, <2>3
<1>2. ASSUME PassSelects(e)
      PROVE  \E x : Goal(x)
  <2> DEFINE L == {d \in Ids : Due(d)}
             a == IF L = {} THEN "idle" ELSE "mark"
  <2>1. engine' = [engine EXCEPT ![e] = [at |-> a, todo |-> L]]
    BY <1>2 DEF PassSelects
  <2>2. a \in {"idle", "select", "mark"} /\ L \in SUBSET Ids
        /\ (a \in {"idle", "select"} => L = {})
    OBVIOUS
  <2> HIDE DEF L, a
  <2> QED
    BY <1>s, <2>1, <2>2
<1>2s. ASSUME NEW list \in SUBSET (1 .. MaxDisputes), PassSelectsStale(e, list)
       PROVE  \E x : Goal(x)
  <2> DEFINE a == IF list = {} THEN "idle" ELSE "mark"
  <2>1. engine' = [engine EXCEPT ![e] = [at |-> a, todo |-> list]]
    BY <1>2s DEF PassSelectsStale
  <2>2. a \in {"idle", "select", "mark"} /\ list \in SUBSET Ids
        /\ (a \in {"idle", "select"} => list = {})
    BY <1>2s DEF PassSelectsStale
  <2> HIDE DEF a
  <2> QED
    BY <1>s, <2>1, <2>2
<1>2d. ASSUME NEW d \in 1 .. MaxDisputes, PassDates(e, d)
       PROVE  \E x : Goal(x)
  <2>1. engine' = [engine EXCEPT ![e] = engine[e]]
    BY <1>2d DEF PassDates, TypeInv, EnginesType
  <2>2. engine[e].at # "pay"
    BY <1>2d DEF PassDates
  <2> QED
    BY <1>t, <2>1, <2>2
<1>3. ASSUME NEW d \in 1 .. MaxDisputes, PassResolves(e, d)
      PROVE  \E x : Goal(x)
  <2> DEFINE x == [at |-> "pay", todo |-> engine[e].todo \ {d}, on |-> d]
  <2>1. d \in Ids /\ engine' = [engine EXCEPT ![e] = x]
    BY <1>3, <1>t DEF PassResolves
  <2>2. x \in EngineStates /\ x.at = "pay" /\ x.on \notin x.todo
    BY <1>t, <2>1 DEF EngineStates
  <2> HIDE DEF x
  <2> QED
    BY <2>1, <2>2
<1>4. ASSUME NEW paid \in 0 .. MaxReached, PassPays(e, paid)
      PROVE  \E x : Goal(x)
  <2> DEFINE L == engine[e].todo
             a == IF L = {} THEN "idle" ELSE "mark"
  <2>1. engine' = [engine EXCEPT ![e] = [at |-> a, todo |-> L]]
    BY <1>4 DEF PassPays
  <2>2. a \in {"idle", "select", "mark"} /\ L \in SUBSET Ids
        /\ (a \in {"idle", "select"} => L = {})
    BY <1>t
  <2> HIDE DEF L, a
  <2> QED
    BY <1>s, <2>1, <2>2
<1>5. ASSUME PassEnds(e)
      PROVE  \E x : Goal(x)
  BY <1>5, <1>s DEF PassEnds
<1> QED
  BY <1>1, <1>2, <1>2s, <1>2d, <1>3, <1>4, <1>5 DEF PassStep

LEMMA TypeStep == TypeInv /\ [Next]_vars => TypeInv'
<1> SUFFICES ASSUME TypeInv, [Next]_vars
             PROVE  TypeInv'
  OBVIOUS
<1>1. TablesType' /\ EffectsType' /\ RequestsType' /\ Ids \subseteq Ids'
  BY TablesStep, RequestsStep DEF TablesGrow
<1>2. EnginesType'
  <2>1. ASSUME NEW e \in Engines,
               \/ PassStep(e) \/ PassEnds(e)
               \/ \E list \in SUBSET (1 .. MaxDisputes) : PassSelectsStale(e, list)
        PROVE  EnginesType'
    BY <1>1, <2>1, PassEffect, PassSet
  <2>2. ASSUME UNCHANGED engine
        PROVE  EnginesType'
    <3>1. EngineStates \subseteq EngineStates'
      BY <1>1 DEF EngineStates
    <3> QED
      BY <2>2, <3>1 DEF TypeInv, EnginesType
  <2> QED
    BY <2>1, <2>2, EnginesKept
<1>3. FaultsType'
  <2>1. UNCHANGED faults \/ (faults < MaxFaults /\ faults' = faults + 1)
    BY DEF Next, RequestStep, OpenReads, DecideReads, UpdateReads, AssignReads, OpenChecks,
           OpenCreates, OpenFlags, DecideWrites, DecideSettles, UpdateWrites, AssignWrites,
           RequestFails, DeadlinePasses, PassStep, PassBegins, PassDates, PassSelects,
           PassSelectsStale, PassResolves, PassPays, PassEnds, vars
  <2> QED
    BY <2>1, DisputesAssumption DEF TypeInv, FaultsType
<1> QED
  BY <1>1, <1>2, <1>3 DEF TypeInv

----------------------------------------------------------------------------
(* One active dispute *)

\* The steps that insert disputes or write their status.
LEMMA DisputesKept ==
    ASSUME [Next]_vars,
           \A r \in Requests : ~OpenCreates(r) /\ ~DecideWrites(r) /\ ~UpdateWrites(r),
           \A e \in Engines, d \in 1 .. MaxDisputes : ~PassResolves(e, d)
    PROVE  UNCHANGED <<disputes, reopened>>
BY DEF Next, RequestStep, OpenReads, DecideReads, UpdateReads, AssignReads, OpenChecks,
       OpenFlags, DecideSettles, AssignWrites, RequestFails, DeadlinePasses, PassStep,
       PassBegins, PassDates, PassSelects, PassSelectsStale, PassPays, PassEnds, vars, tables,
       effects

LEMMA ActiveStep == TypeInv /\ ActiveInv /\ [Next]_vars => ActiveInv'
<1> SUFFICES ASSUME TypeInv, ActiveInv, [Next]_vars
             PROVE  ActiveInv'
  OBVIOUS
<1>k. ASSUME UNCHANGED disputes
      PROVE  ActiveInv'
  BY <1>k DEF ActiveInv, Active, Ids
<1>1. ASSUME NEW d \in Ids, NEW s \in Statuses, Write(d, s)
      PROVE  ActiveInv'
  <2>1. CASE UNCHANGED disputes
    BY <1>k, <2>1
  <2>2. CASE IndexAllows(d, s) /\ disputes'[d].status = s
    <3>1. s \in ActiveStatuses => \A c \in Ids : disputes[c].tx = disputes[d].tx /\ Active(c) => c = d
      BY <2>2 DEF IndexAllows, ActiveOn
    <3> QED
      BY <1>1, <2>2, <3>1, WriteEffect DEF ActiveInv, Active
  <2> QED
    BY <1>1, <2>1, <2>2, WriteEffect
<1>2. ASSUME NEW r \in Requests, OpenCreates(r)
      PROVE  ActiveInv'
  <2>1. request[r].tx \in Transactions
    BY <1>2, RequestFields DEF OpenCreates
  <2>2. CASE ActiveOn(request[r].tx) = {}
    <3>1. \A c \in Ids : disputes[c].tx = request[r].tx => ~Active(c)
      BY <2>2 DEF ActiveOn
    <3>2. /\ Ids' = Ids \cup {Len(disputes) + 1}
          /\ \A d \in Ids : disputes'[d] = disputes[d]
          /\ disputes'[Len(disputes) + 1].tx = request[r].tx
      BY <1>2, <2>1, <2>2, CreateEffect
    <3> QED
      BY <3>1, <3>2 DEF ActiveInv, Active
  <2>3. CASE ActiveOn(request[r].tx) # {}
    BY <1>2, <1>k, <2>3 DEF OpenCreates
  <2> QED
    BY <2>2, <2>3
<1>3. ASSUME NEW r \in Requests, DecideWrites(r) \/ UpdateWrites(r)
      PROVE  ActiveInv'
  BY <1>1, <1>3, RequestFields DEF DecideWrites, UpdateWrites
<1>4. ASSUME NEW e \in Engines, NEW d \in 1 .. MaxDisputes, PassResolves(e, d)
      PROVE  ActiveInv'
  <2>1. d \in Ids /\ "resolved" \in Statuses
    BY <1>4, PassFields DEF PassResolves, Statuses, TerminalStatuses
  <2> QED
    BY <1>1, <1>4, <2>1 DEF PassResolves
<1> QED
  BY <1>k, <1>2, <1>3, <1>4, DisputesKept

----------------------------------------------------------------------------
(* The payouts *)

LEMMA PassesCounted ==
    ASSUME NEW d
    PROVE  /\ IsFiniteSet(Paying(d)) /\ Cardinality(Paying(d)) \in Nat
           /\ IsFiniteSet(Pending(d)) /\ Cardinality(Pending(d)) \in Nat
           /\ Cardinality(Pending(d)) <= Cardinality(Engines)
           /\ Cardinality(Engines) \in Nat
<1>1. IsFiniteSet(Engines) /\ Paying(d) \subseteq Engines /\ Pending(d) \subseteq Engines
  BY DisputesAssumption DEF Paying, Pending
<1> QED
  BY <1>1, FS_Subset, FS_CardinalityType

LEMMA OneMoreOpening ==
    ASSUME NEW n \in Nat, NEW r \in Nat
    PROVE  n * (1 + r) = n * r + n /\ n * r \in Nat
OBVIOUS

\* A dispute keeps its bound while it keeps its status and no pass that will
\* pay it is added, unless it is active.
LEMMA BoundKept ==
    ASSUME TypeInv, NEW d \in Ids, PayoutBound(d),
           disputes'[d].status = disputes[d].status,
           payouts'[d] = payouts[d], reopened'[d] = reopened[d], extra'[d] = extra[d],
           Paying(d)' \subseteq Paying(d),
           ~Active(d) => Pending(d)' \subseteq Pending(d)
    PROVE  PayoutBound(d)'
<1>1. payouts[d] \in Nat /\ reopened[d] \in Nat /\ extra[d] \in Nat
  BY RowsAre
<1>2. /\ IsFiniteSet(Paying(d)) /\ Cardinality(Paying(d)) \in Nat
      /\ IsFiniteSet(Pending(d)) /\ Cardinality(Pending(d)) \in Nat
      /\ Cardinality(Engines) \in Nat
  BY PassesCounted
<1>3. /\ Cardinality(Paying(d)') \in Nat /\ Cardinality(Paying(d)') <= Cardinality(Paying(d))
      /\ ~Active(d) => /\ Cardinality(Pending(d)') \in Nat
                       /\ Cardinality(Pending(d)') <= Cardinality(Pending(d))
  BY <1>2, FS_Subset, FS_CardinalityType
<1>4. Active(d)' <=> Active(d)
  BY DEF Active
<1>5. CASE Active(d)
  <2>1. payouts[d] + Cardinality(Paying(d)) <= Cardinality(Engines) * reopened[d] + extra[d]
    BY <1>5 DEF PayoutBound
  <2>2. payouts'[d] + Cardinality(Paying(d)') <= Cardinality(Engines) * reopened'[d] + extra'[d]
    BY <1>1, <1>2, <1>3, <2>1, OneMoreOpening
  <2> QED
    BY <1>4, <1>5, <2>2 DEF PayoutBound
<1>6. CASE ~Active(d)
  <2>1. payouts[d] + Cardinality(Paying(d)) + Cardinality(Pending(d))
          <= Cardinality(Engines) * (1 + reopened[d]) + extra[d]
    BY <1>6 DEF PayoutBound
  <2>2. payouts'[d] + Cardinality(Paying(d)') + Cardinality(Pending(d)')
          <= Cardinality(Engines) * (1 + reopened'[d]) + extra'[d]
    BY <1>1, <1>2, <1>3, <1>6, <2>1, OneMoreOpening
  <2> QED
    BY <1>4, <1>6, <2>2 DEF PayoutBound
<1> QED
  BY <1>5, <1>6

\* Closing a dispute, or opening it again, without a payout.
LEMMA BoundAfterWrite ==
    ASSUME TypeInv, NEW d \in Ids, PayoutBound(d), NEW s \in Statuses, Write(d, s),
           UNCHANGED <<engine, payouts, extra>>
    PROVE  PayoutBound(d)'
<1>1. payouts[d] \in Nat /\ reopened[d] \in Nat /\ extra[d] \in Nat
  BY RowsAre
<1>2. /\ Cardinality(Paying(d)) \in Nat /\ Cardinality(Pending(d)) \in Nat
      /\ Cardinality(Pending(d)) <= Cardinality(Engines)
      /\ Cardinality(Engines) \in Nat
  BY PassesCounted
<1>3. Paying(d)' = Paying(d) /\ Pending(d)' = Pending(d)
  BY DEF Paying, Pending
<1>4. CASE UNCHANGED <<disputes, reopened>>
  BY <1>3, <1>4, BoundKept
<1>5. CASE /\ disputes'[d].status = s
           /\ reopened'[d] = IF ~Active(d) /\ s \in ActiveStatuses
                             THEN reopened[d] + 1 ELSE reopened[d]
  <2>1. Active(d)' <=> s \in ActiveStatuses
    BY <1>5 DEF Active
  <2>2. CASE Active(d) <=> Active(d)'
    <3>1. reopened'[d] = reopened[d]
      BY <1>5, <2>1, <2>2
    <3> QED
      BY <1>3, <2>2, <3>1 DEF PayoutBound
  <2>3. CASE Active(d) /\ ~Active(d)'
    <3>1. payouts[d] + Cardinality(Paying(d)) <= Cardinality(Engines) * reopened[d] + extra[d]
      BY <2>3 DEF PayoutBound
    <3>2. payouts[d] + Cardinality(Paying(d)) + Cardinality(Pending(d))
            <= Cardinality(Engines) * (1 + reopened[d]) + extra[d]
      BY <1>1, <1>2, <3>1, OneMoreOpening
    <3>3. reopened'[d] = reopened[d]
      BY <1>5, <2>3
    <3> QED
      BY <1>3, <2>3, <3>2, <3>3 DEF PayoutBound
  <2>4. CASE ~Active(d) /\ Active(d)'
    <3>1. payouts[d] + Cardinality(Paying(d)) + Cardinality(Pending(d))
            <= Cardinality(Engines) * (1 + reopened[d]) + extra[d]
      BY <2>4 DEF PayoutBound
    <3>2. reopened'[d] = 1 + reopened[d]
      BY <1>1, <1>5, <2>1, <2>4
    <3>3. payouts[d] + Cardinality(Paying(d)) <= Cardinality(Engines) * reopened'[d] + extra'[d]
      BY <1>1, <1>2, <3>1, <3>2, OneMoreOpening
    <3> QED
      BY <1>3, <2>4, <3>3 DEF PayoutBound
  <2> QED
    BY <2>2, <2>3, <2>4
<1> QED
  BY <1>4, <1>5, WriteEffect

\* A pass takes the dispute off its list and is about to pay it.
LEMMA BoundAfterResolve ==
    ASSUME TypeInv, NEW d \in Ids, PayoutBound(d), NEW e \in Engines, PassResolves(e, d)
    PROVE  PayoutBound(d)'
<1>1. payouts[d] \in Nat /\ reopened[d] \in Nat /\ extra[d] \in Nat
  BY RowsAre
<1>2. /\ IsFiniteSet(Paying(d)) /\ Cardinality(Paying(d)) \in Nat
      /\ IsFiniteSet(Pending(d)) /\ Cardinality(Pending(d)) \in Nat
      /\ Cardinality(Pending(d)) <= Cardinality(Engines)
      /\ Cardinality(Engines) \in Nat
  BY PassesCounted
<1>3. /\ engine[e].at = "mark" /\ d \in engine[e].todo
      /\ \A f \in Engines : f # e => engine'[f] = engine[f]
      /\ engine'[e] = [at |-> "pay", todo |-> engine[e].todo \ {d}, on |-> d]
      /\ UNCHANGED <<payouts, extra>>
  BY DEF PassResolves, TypeInv, EnginesType
<1>4. /\ Paying(d)' = Paying(d) \cup {e} /\ e \notin Paying(d)
      /\ Pending(d)' = Pending(d) \ {e} /\ e \in Pending(d)
  <2>1. engine'[e].at = "pay" /\ engine'[e].on = d /\ d \notin engine'[e].todo
    BY <1>3
  <2> QED
    BY <1>3, <2>1 DEF Paying, Pending
<1>5. /\ Cardinality(Paying(d)') = Cardinality(Paying(d)) + 1
      /\ Cardinality(Pending(d)') = Cardinality(Pending(d)) - 1
  <2>1. Cardinality(Paying(d) \cup {e}) = Cardinality(Paying(d)) + 1
    BY <1>2, <1>4, FS_AddElement
  <2>2. Cardinality(Pending(d) \ {e}) = Cardinality(Pending(d)) - 1
    BY <1>2, <1>4, FS_RemoveElement
  <2> QED
    BY <1>4, <2>1, <2>2
<1>6. ~Active(d)' /\ reopened'[d] = reopened[d]
  <2>1. Write(d, "resolved") /\ "resolved" \in Statuses /\ "resolved" \notin ActiveStatuses
    BY DEF PassResolves, Statuses, ActiveStatuses, TerminalStatuses
  <2> QED
    BY <2>1, WriteEffect DEF Active
<1>7. payouts[d] + Cardinality(Paying(d)) + Cardinality(Pending(d))
        <= Cardinality(Engines) * (1 + reopened[d]) + extra[d]
  <2>1. CASE Active(d)
    <3>1. payouts[d] + Cardinality(Paying(d)) <= Cardinality(Engines) * reopened[d] + extra[d]
      BY <2>1 DEF PayoutBound
    <3> QED
      BY <1>1, <1>2, <3>1, OneMoreOpening
  <2>2. CASE ~Active(d)
    BY <2>2 DEF PayoutBound
  <2> QED
    BY <2>1, <2>2
<1>8. payouts'[d] + Cardinality(Paying(d)') + Cardinality(Pending(d)')
        <= Cardinality(Engines) * (1 + reopened'[d]) + extra'[d]
  BY <1>1, <1>2, <1>3, <1>5, <1>6, <1>7, OneMoreOpening
<1> QED
  BY <1>6, <1>8 DEF PayoutBound

\* A pass is given its list by a replica that lags.
LEMMA BoundAfterStale ==
    ASSUME TypeInv, NEW d \in Ids, PayoutBound(d), NEW e \in Engines,
           NEW list \in SUBSET (1 .. MaxDisputes), PassSelectsStale(e, list)
    PROVE  PayoutBound(d)'
<1>1. payouts[d] \in Nat /\ reopened[d] \in Nat /\ extra[d] \in Nat
  BY RowsAre
<1>2. /\ IsFiniteSet(Paying(d)) /\ Cardinality(Paying(d)) \in Nat
      /\ IsFiniteSet(Pending(d)) /\ Cardinality(Pending(d)) \in Nat
      /\ Cardinality(Engines) \in Nat
  BY PassesCounted
<1>3. /\ engine[e].at = "select" /\ engine[e].todo = {}
      /\ \A f \in Engines : f # e => engine'[f] = engine[f]
      /\ engine'[e].at # "pay" /\ engine'[e].todo = list
      /\ UNCHANGED <<disputes, payouts, reopened>>
      /\ extra'[d] = IF d \in list /\ ~Active(d) THEN extra[d] + 1 ELSE extra[d]
  BY DEF PassSelectsStale, TypeInv, EnginesType, tables
<1>4. Paying(d)' = Paying(d) /\ e \notin Pending(d)
  BY <1>3 DEF Paying, Pending
<1>5. Active(d)' <=> Active(d)
  BY <1>3 DEF Active
<1>6. CASE Active(d)
  <2>1. extra'[d] = extra[d]
    BY <1>3, <1>6
  <2> QED
    BY <1>3, <1>4, <1>5, <1>6, <2>1 DEF PayoutBound
<1>7. CASE ~Active(d) /\ d \notin list
  <2>1. Pending(d)' = Pending(d) /\ extra'[d] = extra[d]
    BY <1>3, <1>7 DEF Pending
  <2> QED
    BY <1>3, <1>4, <1>5, <1>7, <2>1 DEF PayoutBound
<1>8. CASE ~Active(d) /\ d \in list
  <2>1. Pending(d)' = Pending(d) \cup {e} /\ extra'[d] = extra[d] + 1
    BY <1>3, <1>8 DEF Pending
  <2>2. Cardinality(Pending(d) \cup {e}) = Cardinality(Pending(d)) + 1
    BY <1>2, <1>4, FS_AddElement
  <2>3. payouts[d] + Cardinality(Paying(d)) + Cardinality(Pending(d))
          <= Cardinality(Engines) * (1 + reopened[d]) + extra[d]
    BY <1>8 DEF PayoutBound
  <2>4. /\ payouts'[d] = payouts[d] /\ reopened'[d] = reopened[d]
        /\ Cardinality(Pending(d)') = Cardinality(Pending(d)) + 1
    BY <1>3, <2>1, <2>2
  <2>5. payouts'[d] + Cardinality(Paying(d)') + Cardinality(Pending(d)')
          <= Cardinality(Engines) * (1 + reopened'[d]) + extra'[d]
    BY <1>1, <1>2, <1>4, <2>1, <2>3, <2>4, OneMoreOpening
  <2> QED
    BY <1>5, <1>8, <2>5 DEF PayoutBound
<1> QED
  BY <1>6, <1>7, <1>8

LEMMA BoundAfterPay ==
    ASSUME TypeInv, NEW d \in Ids, PayoutBound(d), NEW e \in Engines,
           NEW paid \in 0 .. MaxReached, PassPays(e, paid)
    PROVE  PayoutBound(d)'
<1>1. /\ payouts[d] \in Nat /\ reopened[d] \in Nat /\ extra[d] \in Nat
      /\ engine[e].on \in Ids
  BY RowsAre, PassFields DEF PassPays
<1>2. /\ IsFiniteSet(Paying(d)) /\ Cardinality(Paying(d)) \in Nat
      /\ Cardinality(Pending(d)) \in Nat /\ Cardinality(Engines) \in Nat
  BY PassesCounted
<1>3. /\ engine[e].at = "pay"
      /\ \A f \in Engines : f # e => engine'[f] = engine[f]
      /\ engine'[e].at # "pay" /\ engine'[e].todo = engine[e].todo
      /\ UNCHANGED <<disputes, reopened>>
  BY DEF PassPays, TypeInv, EnginesType, tables
<1>4. /\ Pending(d)' = Pending(d)
      /\ Paying(d)' = Paying(d) \ {e}
  BY <1>3 DEF Paying, Pending
<1>5. CASE engine[e].on # d
  <2>1. payouts'[d] = payouts[d] /\ extra'[d] = extra[d]
    BY <1>5, PayEffect
  <2> QED
    BY <1>3, <1>4, <2>1, BoundKept
<1>6. CASE engine[e].on = d
  <2>1. /\ payouts'[d] \in Nat /\ extra'[d] \in Nat
        /\ payouts'[d] - extra'[d] <= payouts[d] - extra[d] + 1
    <3>1. /\ payouts'[d] \in Nat /\ extra'[d] \in Nat
      BY PayEffect, RowsAre
    <3> QED
      BY <1>6, <3>1, PayEffect
  <2>2. Cardinality(Paying(d)') = Cardinality(Paying(d)) - 1
    <3>1. e \in Paying(d)
      BY <1>3, <1>6 DEF Paying
    <3> QED
      BY <1>2, <1>4, <3>1, FS_RemoveElement
  <2>3. Active(d)' <=> Active(d)
    BY <1>3 DEF Active
  <2>4. CASE Active(d)
    <3>1. payouts[d] + Cardinality(Paying(d)) <= Cardinality(Engines) * reopened[d] + extra[d]
      BY <2>4 DEF PayoutBound
    <3>2. reopened'[d] = reopened[d]
      BY <1>3
    <3>3. payouts'[d] + Cardinality(Paying(d)') <= Cardinality(Engines) * reopened'[d] + extra'[d]
      BY <1>1, <1>2, <2>1, <2>2, <3>1, <3>2, OneMoreOpening
    <3> QED
      BY <2>3, <2>4, <3>3 DEF PayoutBound
  <2>5. CASE ~Active(d)
    <3>1. payouts[d] + Cardinality(Paying(d)) + Cardinality(Pending(d))
            <= Cardinality(Engines) * (1 + reopened[d]) + extra[d]
      BY <2>5 DEF PayoutBound
    <3>2. /\ Cardinality(Pending(d)') = Cardinality(Pending(d))
          /\ reopened'[d] = reopened[d]
      BY <1>3, <1>4
    <3>3. payouts'[d] + Cardinality(Paying(d)') + Cardinality(Pending(d)')
            <= Cardinality(Engines) * (1 + reopened'[d]) + extra'[d]
      BY <1>1, <1>2, <2>1, <2>2, <3>1, <3>2, OneMoreOpening
    <3> QED
      BY <2>3, <2>5, <3>3 DEF PayoutBound
  <2> QED
    BY <2>4, <2>5
<1> QED
  BY <1>5, <1>6

LEMMA PayoutsStep == TypeInv /\ PayoutsInv /\ [Next]_vars => PayoutsInv'
<1> SUFFICES ASSUME TypeInv, PayoutsInv, [Next]_vars, NEW d \in Ids'
             PROVE  PayoutBound(d)'
  BY DEF PayoutsInv
<1>k. ASSUME UNCHANGED <<disputes, payouts, reopened, extra>>,
             Paying(d)' \subseteq Paying(d),
             d \in Ids /\ ~Active(d) => Pending(d)' \subseteq Pending(d)
      PROVE  PayoutBound(d)'
  <2>1. d \in Ids /\ PayoutBound(d)
    BY <1>k DEF Ids, PayoutsInv
  <2> QED
    BY <1>k, <2>1, BoundKept
<1>s. ASSUME UNCHANGED <<disputes, payouts, reopened, extra, engine>>
      PROVE  PayoutBound(d)'
  BY <1>k, <1>s DEF Paying, Pending
<1>w. ASSUME NEW x \in Ids, NEW s \in Statuses, Write(x, s), UNCHANGED <<engine, payouts, extra>>
      PROVE  PayoutBound(d)'
  <2>1. d \in Ids /\ PayoutBound(d)
    BY <1>w, WriteEffect DEF PayoutsInv
  <2>2. CASE d = x
    BY <1>w, <2>1, <2>2, BoundAfterWrite
  <2>3. CASE d # x
    <3>1. disputes'[d].status = disputes[d].status /\ reopened'[d] = reopened[d]
      BY <1>w, <2>1, <2>3, WriteEffect
    <3>2. Paying(d)' = Paying(d) /\ Pending(d)' = Pending(d)
          /\ payouts'[d] = payouts[d] /\ extra'[d] = extra[d]
      BY <1>w DEF Paying, Pending
    <3> QED
      BY <2>1, <3>1, <3>2, BoundKept
  <2> QED
    BY <2>2, <2>3
<1>1. ASSUME NEW r \in Requests, OpenCreates(r)
      PROVE  PayoutBound(d)'
  <2>1. request[r].tx \in Transactions /\ UNCHANGED engine
    BY <1>1, RequestFields DEF OpenCreates
  <2>2. CASE ActiveOn(request[r].tx) # {}
    BY <1>1, <1>s, <2>1, <2>2 DEF OpenCreates, effects
  <2>3. CASE ActiveOn(request[r].tx) = {} /\ d \in Ids
    <3>1. /\ disputes'[d] = disputes[d]
          /\ payouts'[d] = payouts[d] /\ reopened'[d] = reopened[d]
          /\ extra'[d] = extra[d]
      BY <1>1, <2>1, <2>3, CreateEffect
    <3>2. Paying(d)' = Paying(d) /\ Pending(d)' = Pending(d)
      BY <2>1 DEF Paying, Pending
    <3> QED
      BY <2>3, <3>1, <3>2, BoundKept DEF PayoutsInv
  <2>4. CASE ActiveOn(request[r].tx) = {} /\ d \notin Ids
    <3>1. /\ disputes'[d].status = "open" /\ payouts'[d] = 0 /\ reopened'[d] = 0 /\ extra'[d] = 0
      BY <1>1, <2>1, <2>4, CreateEffect
    <3>2. Paying(d)' = {}
      <4>1. \A e \in Engines : ~(engine[e].at = "pay" /\ engine[e].on = d)
        BY <2>4, PassFields
      <4> QED
        BY <2>1, <4>1 DEF Paying
    <3>3. Cardinality(Paying(d)') = 0 /\ Active(d)' /\ Cardinality(Engines) \in Nat
      BY <3>1, <3>2, FS_EmptySet, PassesCounted DEF Active, ActiveStatuses
    <3>4. payouts'[d] + Cardinality(Paying(d)')
            <= Cardinality(Engines) * reopened'[d] + extra'[d]
      BY <3>1, <3>3
    <3> QED
      BY <3>3, <3>4 DEF PayoutBound
  <2> QED
    BY <2>2, <2>3, <2>4
<1>2. ASSUME NEW r \in Requests, DecideWrites(r) \/ UpdateWrites(r)
      PROVE  PayoutBound(d)'
  BY <1>2, <1>w, RequestFields DEF DecideWrites, UpdateWrites
<1>3. ASSUME NEW e \in Engines, PassBegins(e)
      PROVE  PayoutBound(d)'
  <2>1. /\ \A f \in Engines : f # e => engine'[f] = engine[f]
        /\ engine'[e].at = "select" /\ engine'[e].todo = engine[e].todo
    <3> DEFINE y == engine[e]
               x == [y EXCEPT !.at = "select"]
    <3>1. y \in [at : {"idle", "select", "mark"}, todo : SUBSET Ids]
      BY <1>3, PassFields DEF PassBegins, EngineStates
    <3>2. engine' = [engine EXCEPT ![e] = x]
      BY <1>3 DEF PassBegins
    <3> HIDE DEF y
    <3>3. x.at = "select" /\ x.todo = y.todo
      BY <3>1
    <3> HIDE DEF x
    <3> QED
      BY <3>2, <3>3 DEF y, TypeInv, EnginesType
  <2>2. Paying(d)' \subseteq Paying(d) /\ Pending(d)' \subseteq Pending(d)
    BY <2>1 DEF Paying, Pending
  <2> QED
    BY <1>3, <1>k, <2>2 DEF PassBegins, tables, effects
<1>4. ASSUME NEW e \in Engines, PassSelects(e)
      PROVE  PayoutBound(d)'
  <2> DEFINE L == {x \in Ids : Due(x)}
  <2>1. /\ \A f \in Engines : f # e => engine'[f] = engine[f]
        /\ engine'[e].at # "pay" /\ engine'[e].todo = L
        /\ UNCHANGED <<disputes, payouts, reopened, extra>>
    BY <1>4 DEF PassSelects, tables, effects, TypeInv, EnginesType
  <2>2. d \in Ids /\ ~Active(d) => d \notin L
    BY DEF Due
  <2> HIDE DEF L
  <2>3. Paying(d)' \subseteq Paying(d)
    BY <2>1 DEF Paying
  <2>4. d \in Ids /\ ~Active(d) => Pending(d)' \subseteq Pending(d)
    BY <2>1, <2>2 DEF Pending
  <2> QED
    BY <1>k, <2>1, <2>3, <2>4
<1>4s. ASSUME NEW e \in Engines, NEW list \in SUBSET (1 .. MaxDisputes),
              PassSelectsStale(e, list)
       PROVE  PayoutBound(d)'
  <2>1. d \in Ids /\ PayoutBound(d)
    BY <1>4s DEF PassSelectsStale, tables, Ids, PayoutsInv
  <2> QED
    BY <1>4s, <2>1, BoundAfterStale
<1>4d. ASSUME NEW e \in Engines, NEW x \in 1 .. MaxDisputes, PassDates(e, x)
       PROVE  PayoutBound(d)'
  BY <1>4d, <1>s DEF PassDates, effects
<1>5. ASSUME NEW e \in Engines, NEW x \in 1 .. MaxDisputes, PassResolves(e, x)
      PROVE  PayoutBound(d)'
  <2>1. x \in Ids /\ Write(x, "resolved") /\ "resolved" \in Statuses
    BY <1>5, PassFields DEF PassResolves, Statuses, TerminalStatuses
  <2>2. d \in Ids /\ PayoutBound(d)
    BY <2>1, WriteEffect DEF PayoutsInv
  <2>3. CASE d = x
    BY <1>5, <2>2, <2>3, BoundAfterResolve
  <2>4. CASE d # x
    <3>1. disputes'[d].status = disputes[d].status /\ reopened'[d] = reopened[d]
      BY <2>1, <2>2, <2>4, WriteEffect
    <3>2. /\ \A f \in Engines : f # e => engine'[f] = engine[f]
          /\ engine'[e] = [at |-> "pay", todo |-> engine[e].todo \ {x}, on |-> x]
          /\ UNCHANGED <<payouts, extra>>
      BY <1>5 DEF PassResolves, TypeInv, EnginesType
    <3>3. Paying(d)' \subseteq Paying(d) /\ Pending(d)' \subseteq Pending(d)
      BY <2>4, <3>2 DEF Paying, Pending
    <3> QED
      BY <2>2, <3>1, <3>2, <3>3, BoundKept
  <2> QED
    BY <2>3, <2>4
<1>6. ASSUME NEW e \in Engines, NEW paid \in 0 .. MaxReached, PassPays(e, paid)
      PROVE  PayoutBound(d)'
  <2>1. d \in Ids /\ PayoutBound(d)
    BY <1>6 DEF PassPays, tables, Ids, PayoutsInv
  <2> QED
    BY <1>6, <2>1, BoundAfterPay
<1>7. ASSUME NEW e \in Engines, PassEnds(e)
      PROVE  PayoutBound(d)'
  <2>1. /\ \A f \in Engines : f # e => engine'[f] = engine[f]
        /\ engine'[e].at = "idle" /\ engine'[e].todo = {}
        /\ UNCHANGED <<disputes, payouts, reopened, extra>>
    BY <1>7 DEF PassEnds, tables, effects, TypeInv, EnginesType
  <2>2. Paying(d)' \subseteq Paying(d) /\ Pending(d)' \subseteq Pending(d)
    BY <2>1 DEF Paying, Pending
  <2> QED
    BY <1>k, <2>1, <2>2
<1>8. ASSUME NEW r \in Requests,
             \/ OpenChecks(r) \/ OpenFlags(r) \/ DecideSettles(r) \/ AssignWrites(r)
             \/ RequestFails(r)
      PROVE  UNCHANGED <<disputes, payouts, reopened, extra, engine>>
  BY <1>8 DEF OpenChecks, OpenFlags, DecideSettles, AssignWrites, RequestFails, tables,
              effects
<1> QED
  BY <1>s, <1>1, <1>2, <1>3, <1>4, <1>4s, <1>4d, <1>5, <1>6, <1>7, <1>8
  DEF Next, RequestStep, PassStep, OpenReads, DecideReads, UpdateReads, AssignReads,
      DeadlinePasses, vars, tables, effects

\* The dispute of an earlier day is the only one, and nobody works on it.
LEMMA FirstDisputes == Init => ActiveInv /\ PayoutsInv
<1> SUFFICES ASSUME Init PROVE ActiveInv /\ PayoutsInv
  OBVIOUS
<1>0. TypeInv
  BY TypeInit
<1>1. \A c, d \in Ids : c = d
  BY DEF Init, Ids
<1>2. ASSUME NEW d \in Ids PROVE PayoutBound(d)
  <2>1. payouts[d] = 0 /\ reopened[d] = 0 /\ extra[d] = 0
    BY <1>2 DEF Init
  <2>2. Paying(d) = {} /\ Pending(d) = {}
    BY DEF Init, Paying, Pending
  <2>3. Cardinality({}) = 0 /\ Cardinality(Engines) \in Nat
    BY FS_EmptySet, FS_CardinalityType, DisputesAssumption
  <2> QED
    BY <2>1, <2>2, <2>3 DEF PayoutBound
<1> QED
  BY <1>1, <1>2 DEF ActiveInv, PayoutsInv

----------------------------------------------------------------------------
(* The theorems *)

LEMMA Invariance == Spec => []IInv
<1>1. Init => IInv
  BY TypeInit, FirstDisputes DEF IInv
<1>2. IInv /\ [Next]_vars => IInv'
  BY TypeStep, ActiveStep, PayoutsStep DEF IInv
<1> QED
  BY <1>1, <1>2, PTL DEF Spec

\* Every request and every pass works on stored disputes, and all tables have a
\* row for each dispute.
THEOREM TypeCorrect == Spec => []TypeOK
<1>1. IInv => TypeOK
  <2> SUFFICES ASSUME IInv PROVE TypeOK
    OBVIOUS
  <2>1. TypeInv
    BY DEF IInv
  <2>2. \A d \in Ids :
          /\ disputes[d].tx \in Transactions
          /\ disputes[d].status \in ActiveStatuses \cup TerminalStatuses
          /\ overdue[d] \in {"none", "set", "over"}
          /\ payouts[d] \in Nat /\ reopened[d] \in Nat /\ extra[d] \in Nat
    BY <2>1, RowsAre DEF Statuses, Deadlines
  <2>3. /\ DOMAIN overdue = Ids /\ DOMAIN payouts = Ids /\ DOMAIN reopened = Ids
        /\ DOMAIN extra = Ids
    BY <2>1, RowsAre DEF TypeInv, TablesType, EffectsType
  <2>4. \A e \in Engines :
          /\ engine[e].at \in {"idle", "select", "mark", "pay"}
          /\ engine[e].todo \subseteq Ids
          /\ engine[e].at = "pay" => engine[e].on \in Ids \ engine[e].todo
    BY <2>1, PassFields DEF TypeInv, EnginesType, EngineStates
  <2> QED
    BY <2>1, <2>2, <2>3, <2>4 DEF TypeOK, TypeInv, TablesType, RequestsType, FaultsType
<1> QED
  BY <1>1, Invariance, PTL

\* openDispute, updateStatus and the other writers of a dispute's status leave a
\* transaction with at most one active dispute, however their checks and writes
\* interleave.
THEOREM AtMostOneActive == Spec => []OneActiveDispute
<1>1. ASSUME IInv, NEW t \in Transactions
      PROVE  Cardinality(ActiveOn(t)) <= 1
  <2>1. \A c, d \in ActiveOn(t) : c = d
    BY <1>1 DEF IInv, ActiveInv, ActiveOn
  <2>2. CASE ActiveOn(t) = {}
    BY <2>2, FS_EmptySet
  <2>3. CASE ActiveOn(t) # {}
    <3>1. \E c : ActiveOn(t) = {c}
      BY <2>1, <2>3
    <3> QED
      BY <3>1, FS_Singleton
  <2> QED
    BY <2>2, <2>3
<1>2. IInv => OneActiveDispute
  BY <1>1 DEF OneActiveDispute
<1> QED
  BY <1>2, Invariance, PTL

\* checkSlaDeadlines pays a dispute at most once for each of its openings and
\* each overlapping pass, through crashes and stale requests that reopen it; each
\* payout beyond that is due to a lagging replica that listed it when it was
\* closed, or to a failover to a second provider.
THEOREM PaidPerOpening == Spec => []PaidOncePerOpening
<1>1. ASSUME IInv, NEW d \in Ids
      PROVE  PaidOrPaying(d) <= Cardinality(Engines) * (1 + reopened[d]) + extra[d]
  <2>1. PaidOrPaying(d) = payouts[d] + Cardinality(Paying(d)) /\ PayoutBound(d)
    BY <1>1 DEF IInv, PayoutsInv, PaidOrPaying, Paying
  <2>2. payouts[d] \in Nat /\ reopened[d] \in Nat /\ extra[d] \in Nat
    BY <1>1, RowsAre DEF IInv
  <2>3. /\ Cardinality(Paying(d)) \in Nat /\ Cardinality(Pending(d)) \in Nat
        /\ Cardinality(Engines) \in Nat
    BY PassesCounted
  <2>4. CASE Active(d)
    <3>1. payouts[d] + Cardinality(Paying(d)) <= Cardinality(Engines) * reopened[d] + extra[d]
      BY <2>1, <2>4 DEF PayoutBound
    <3> QED
      BY <2>1, <2>2, <2>3, <3>1, OneMoreOpening
  <2>5. CASE ~Active(d)
    <3>1. payouts[d] + Cardinality(Paying(d)) + Cardinality(Pending(d))
            <= Cardinality(Engines) * (1 + reopened[d]) + extra[d]
      BY <2>1, <2>5 DEF PayoutBound
    <3> QED
      BY <2>1, <2>2, <2>3, <3>1, OneMoreOpening
  <2> QED
    BY <2>4, <2>5
<1>2. IInv => PaidOncePerOpening
  BY <1>1 DEF PaidOncePerOpening
<1> QED
  BY <1>2, Invariance, PTL

\* Only resolvePayment moves a payment out of dispute or reverses it, as its
\* verdict says, and nothing takes a reversal back.
THEOREM MovedOnlyByVerdict == Spec => MovedByVerdict
<1> DEFINE Moved ==
      \A t \in Transactions : txStatus'[t] # txStatus[t] =>
         /\ txStatus[t] # "reversed"
         /\ txStatus'[t] # "dispute" =>
              \E r \in Requests :
                /\ request[r].op = "settle"
                /\ request'[r] = Done
                /\ disputes[request[r].on].tx = t
                /\ request[r].verdict = "reversed" <=> txStatus'[t] = "reversed"
<1>1. ASSUME TypeInv, [Next]_vars
      PROVE  Moved
  <2>t. txStatus \in [Transactions -> {"completed", "failed", "dispute", "reversed"}]
    BY <1>1 DEF TypeInv, TablesType
  <2>u. ASSUME NEW x \in Transactions, NEW s \in {"completed", "dispute", "reversed"},
               txStatus' = UpdateTx(x, s)
        PROVE  \A t \in Transactions : txStatus'[t] # txStatus[t] =>
                  t = x /\ txStatus'[t] = s /\ txStatus[t] # "reversed"
    <3>1. s \notin AllowedTx["reversed"] \/ s = "reversed"
      BY DEF AllowedTx
    <3> QED
      BY <2>t, <2>u, <3>1 DEF UpdateTx
  <2>1. ASSUME NEW r \in Requests, OpenFlags(r)
        PROVE  Moved
    <3>1. request[r].tx \in Transactions /\ txStatus' = UpdateTx(request[r].tx, "dispute")
      BY <1>1, <2>1, RequestFields DEF OpenFlags
    <3> QED
      BY <2>u, <3>1
  <2>2. ASSUME NEW r \in Requests, DecideSettles(r)
        PROVE  Moved
    <3> DEFINE x == disputes[request[r].on].tx
               s == OutcomeOf(request[r].verdict)
    <3>1. /\ x \in Transactions /\ s \in {"completed", "dispute", "reversed"}
          /\ txStatus' = UpdateTx(x, s)
          /\ request[r].op = "settle" /\ request'[r] = Done
          /\ request[r].verdict = "reversed" <=> s = "reversed"
      BY <1>1, <2>2, RequestFields, RowsAre
      DEF DecideSettles, OutcomeOf, Goto, TypeInv, RequestsType
    <3> HIDE DEF s
    <3>2. \A t \in Transactions : txStatus'[t] # txStatus[t] =>
             t = x /\ txStatus'[t] = s /\ txStatus[t] # "reversed"
      BY <2>u, <3>1
    <3> QED
      BY <3>1, <3>2
  <2>3. ASSUME UNCHANGED txStatus
        PROVE  Moved
    BY <2>3
  <2>4. ASSUME NEW e \in Engines,
               \/ PassStep(e) \/ PassEnds(e)
               \/ \E list \in SUBSET (1 .. MaxDisputes) : PassSelectsStale(e, list)
        PROVE  UNCHANGED txStatus
    BY <2>4 DEF PassStep, PassBegins, PassDates, PassSelects, PassSelectsStale, PassResolves,
                PassPays, PassEnds, tables
  <2>5. ASSUME NEW r \in Requests,
               \/ OpenChecks(r) \/ OpenCreates(r) \/ DecideWrites(r) \/ UpdateWrites(r)
               \/ AssignWrites(r) \/ RequestFails(r)
        PROVE  UNCHANGED txStatus
    BY <2>5 DEF OpenChecks, OpenCreates, DecideWrites, UpdateWrites, AssignWrites,
                RequestFails, tables
  <2> HIDE DEF Moved
  <2> QED
    BY <1>1, <2>1, <2>2, <2>3, <2>4, <2>5
    DEF Next, RequestStep, OpenReads, DecideReads, UpdateReads, AssignReads,
        DeadlinePasses, vars, tables
<1>2. IInv => TypeInv
  BY DEF IInv
<1> QED
  BY <1>1, <1>2, Invariance, PTL DEF Spec, MovedByVerdict
=============================================================================
