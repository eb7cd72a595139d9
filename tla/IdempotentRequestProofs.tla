----------------------- MODULE IdempotentRequestProofs -----------------------
(***************************************************************************)
(* Proofs about IdempotentRequest, for any number of requests, bodies,     *)
(* scopes and phone numbers and any number of faults.                      *)
(***************************************************************************)
EXTENDS IdempotentRequest, FiniteSetTheorems, SequenceTheorems, TLAPS

----------------------------------------------------------------------------
(* The inductive invariant *)

\* What there is to answer with: a row of the key, or a refusal.
Told == Rows \cup Refusals

\* Only what exists is handed on: rows that were inserted.
AnswersInv ==
    /\ result \in [Requests -> Rows \cup {"none", "error"}]
    /\ after \in [Requests -> Told \cup {"none", "release"}]
    /\ reply \in [Requests -> Told \cup {"none"}]
    /\ cache \in [Scopes -> {Nobody} \cup [payload : Payloads, answer : Told]]

\* Where a request is tells what it has done.
PlaceInv ==
    \A r \in Requests :
       /\ pc[r] \in {"lookup", "lock", "recheck"} => r \notin guarded
       /\ pc[r] = "done" /\ r \in guarded => r \in finished
       /\ pc[r] = "dead" => after[r] = "none"
       /\ after[r] # "none" => r \in finished
       /\ r \in finished => reply[r] # "none"
       /\ pc[r] \in {"unlockPhone", "unlockKey"} => result[r] # "none"
       /\ r \in Rows => pc[r] \in {"unlockPhone", "unlockKey", "done", "threw", "dead"}

\* While Redis never failed the handler runs behind the middleware's guard.
GuardInv ==
    "redis" \notin missed =>
       /\ Up
       /\ \A r \in Requests :
            \/ pc[r] \in {"checks", "find", "phoneLock", "findAgain", "create",
                          "unlockPhone", "unlockKey"}
            \/ r \in Rows
            => r \in guarded

\* Who is inside a section holds its lock, unless the lock ran out.
SectionInv ==
    \A r \in Requests :
       /\ InKeySection(r) /\ "key" \notin missed => keyLock = r
       /\ InPhoneSection(r) /\ "phone" \notin missed => phoneLock[Phone(r)] = r

\* Who is about to insert has seen that there is no row: none of the key while
\* the key's lock was kept, none of its phone number while the phone's was.
FreshInv ==
    \A r \in Requests : pc[r] = "create" /\ "stale" \notin missed =>
       /\ "key" \notin missed => rows = <<>>
       /\ "phone" \notin missed => \A x \in Rows : Phone(x) # Phone(r)

\* Who holds a lock is inside its section, unless its process died or Redis
\* failed to take the release.
HeldInv ==
    "redis" \notin missed =>
       \A r \in Requests : pc[r] # "dead" =>
          /\ keyLock = r => InKeySection(r)
          /\ \A p \in Phones : phoneLock[p] = r => InPhoneSection(r) /\ p = Phone(r)
          /\ MwLock(r) = r =>
                \/ pc[r] = "recheck"
                \/ r \in guarded /\ (r \notin finished \/ after[r] # "none")

\* Given up before the response was wrapped, and the handler threw.
Stranded(r) == pc[r] = "threw" /\ reply[r] # "none" /\ r \notin finished

\* The middleware's lock is kept from before the second look at the cache until
\* the answer is cached, and while it is kept nothing is cached.
MiddlewareInv ==
    "mw" \notin missed =>
       \A r \in Requests :
          /\ pc[r] = "recheck" => MwLock(r) = r
          /\ r \in guarded /\ pc[r] # "dead" =>
                MwLock(r) = r \/ (r \in finished /\ after[r] = "none") \/ Stranded(r)
          /\ r \in guarded /\ pc[r] # "dead" /\ MwLock(r) = r =>
                (r \in finished /\ after[r] \in {"none", "release"}) \/ Cached(r) = Nobody

\* An answered request has its answer in the cache or on the way to it.
CachedInv ==
    "redis" \notin missed =>
       \A r \in finished : \/ reply[r] = "gone" \/ pc[r] = "dead"
                           \/ after[r] \in Told \/ Cached(r) # Nobody

\* Why a body other than x's may be told of x.
Excused(x) ==
    \/ reply[x] = "gone" \/ pc[x] = "dead" \/ Stranded(x)
    \/ missed \cap {"mw", "redis"} # {}

\* No answer that names a row reaches another body of its scope, on any of its ways.
Reused(x, r) == payload[x] # payload[r] /\ Scope(x) = Scope(r)

ReuseInv ==
    \A r \in Requests, x \in Rows : Reused(x, r) /\ ~Excused(x) =>
       /\ reply[r] # x
       /\ after[r] # x
       /\ Cached(r) # Nobody /\ Cached(r).payload = payload[r] => Cached(r).answer # x

IInv ==
    /\ TypeOK /\ AnswersInv /\ PlaceInv /\ GuardInv /\ SectionInv /\ FreshInv
    /\ HeldInv /\ MiddlewareInv /\ CachedInv /\ ReuseInv /\ OneRowPerKey

----------------------------------------------------------------------------
(* Type correctness *)

LEMMA TypeInit == Init => TypeOK
BY MaxFaultsAssumption, CasesAssumption DEF Init, TypeOK, Pcs, Answers, Owners

\* A fault is counted within its bound.
LEMMA FaultCounted ==
    ASSUME faults \in 0 .. MaxFaults, Fault
    PROVE  faults' \in 0 .. MaxFaults
BY MaxFaultsAssumption DEF Fault

\* What is read of the rows is one of them.
LEMMA RowRead ==
    ASSUME rows \in Seq(Requests), NEW n \in 0 .. Len(rows), n > 0
    PROVE  rows[n] \in Requests /\ rows[n] \in Rows
<1>1. n \in 1 .. Len(rows) /\ DOMAIN rows = 1 .. Len(rows)
  BY LenProperties
<1> QED
  BY <1>1, ElementOfSeq DEF Rows

LEMMA RowAdded ==
    ASSUME rows \in Seq(Requests), NEW r \in Requests, rows' = Append(rows, r)
    PROVE  /\ rows' \in Seq(Requests)
           /\ Len(rows') = Len(rows) + 1
           /\ Rows' = Rows \cup {r}
<1>1. /\ rows' \in Seq(Requests)
      /\ Len(rows') = Len(rows) + 1
      /\ \A i \in 1 .. Len(rows) : rows'[i] = rows[i]
      /\ rows'[Len(rows) + 1] = r
  BY AppendProperties
<1>2. Len(rows) \in Nat /\ DOMAIN rows = 1 .. Len(rows) /\ DOMAIN rows' = 1 .. Len(rows')
  BY <1>1, LenProperties
<1>3. Rows' = {rows'[i] : i \in 1 .. Len(rows) + 1}
  BY <1>1, <1>2 DEF Rows
<1>4. Rows = {rows[i] : i \in 1 .. Len(rows)}
  BY <1>2 DEF Rows
<1>5. 1 .. Len(rows) + 1 = (1 .. Len(rows)) \cup {Len(rows) + 1}
  BY <1>2
<1>6. Rows' \subseteq Rows \cup {r}
  BY <1>1, <1>3, <1>4, <1>5
<1>7. Rows \subseteq Rows' /\ r \in Rows'
  BY <1>1, <1>3, <1>4, <1>5
<1> QED
  BY <1>1, <1>6, <1>7

\* What a request asks for never changes, and with it its scope.
LEMMA ScopesFixed ==
    ASSUME TypeOK, [Next]_vars
    PROVE  \A q \in Requests : Scope(q) \in Scopes /\ Scope(q)' = Scope(q)
<1>1. UNCHANGED payload
  BY DEF Next, Step, Expiry, vars, Lookup, Lock, Recheck, Save, Release, FailChecks,
    KeyLock, Find, PhoneLock, FindAgain, Create, UnlockPhone, UnlockKey, Timeout,
    Disconnect, Crash, ExpireMw, ExpireKey, ExpirePhone, RedisDown, RedisUp
<1> QED
  BY <1>1, ScopeAssumption DEF Scope, TypeOK

\* Sending an answer, and saving it, keeps the types.
LEMMA AnswerTyped ==
    ASSUME TypeOK, NEW r \in Requests, NEW a \in Answers
    PROVE  /\ Tell(r, a) => reply' \in [Requests -> Answers]
           /\ Persist(r, a) => /\ finished' \subseteq guarded
                               /\ after' \in [Requests -> Answers \cup {"release"}]
BY DEF Tell, Persist, TypeOK

LEMMA TypeStep == TypeOK /\ [Next]_vars => TypeOK'
<1> SUFFICES ASSUME TypeOK, [Next]_vars PROVE TypeOK'
  OBVIOUS
<1> USE PhoneAssumption, NamesAssumption, MaxFaultsAssumption
<1>s. \A q \in Requests : Scope(q) \in Scopes /\ Scope(q)' = Scope(q)
  BY ScopesFixed
<1>l. \A q \in Requests : Cached(q) # Nobody => CachedAnswer(q) \in Answers
  BY <1>s DEF CachedAnswer, Cached, TypeOK, Answers, Refusals
<1>1. ASSUME NEW r \in Requests, Lookup(r) PROVE TypeOK'
  <2>1. reply' \in [Requests -> Answers] /\ pc' \in [Requests -> Pcs]
    BY <1>1, <1>l DEF Lookup, Goto, Tell, TypeOK, Pcs
  <2> QED
    BY <1>1, <2>1 DEF Lookup, TypeOK, locks
<1>2. ASSUME NEW r \in Requests, Lock(r) PROVE TypeOK'
  <2>1. mwLock' \in [Scopes -> Owners]
    BY <1>2, <1>s DEF Lock, TypeOK, Owners
  <2> QED
    BY <1>2, <2>1 DEF Lock, Goto, Tell, TypeOK, Pcs, Answers, Refusals
<1>3. ASSUME NEW r \in Requests, Recheck(r) PROVE TypeOK'
  <2>1. mwLock' \in [Scopes -> Owners]
    BY <1>3, <1>s DEF Recheck, FreeMwLock, Freed, TypeOK, Owners
  <2>2. reply' \in [Requests -> Answers]
    BY <1>3, <1>l DEF Recheck, Tell, TypeOK
  <2> QED
    BY <1>3, <2>1, <2>2 DEF Recheck, Goto, TypeOK, Pcs
<1>4. ASSUME NEW r \in Requests, Save(r) PROVE TypeOK'
  <2>1. [payload |-> payload[r], answer |-> after[r]]
          \in [payload : Payloads, answer : Answers]
    BY <1>4 DEF Save, TypeOK
  <2>2. cache' \in [Scopes -> {Nobody} \cup [payload : Payloads, answer : Answers]]
    BY <1>4, <1>s, <2>1 DEF Save, TypeOK
  <2> QED
    BY <1>4, <2>2 DEF Save, TypeOK, Answers, locks
<1>5. ASSUME NEW r \in Requests, Release(r) PROVE TypeOK'
  <2>1. mwLock' \in [Scopes -> Owners]
    BY <1>5, <1>s DEF Release, FreeMwLock, Freed, TypeOK, Owners
  <2> QED
    BY <1>5, <2>1 DEF Release, TypeOK, Answers
<1>6. ASSUME NEW r \in Requests, FailChecks(r) PROVE TypeOK'
  <2>1. /\ reply' \in [Requests -> Answers]
        /\ finished' \subseteq guarded
        /\ after' \in [Requests -> Answers \cup {"release"}]
    BY <1>6, AnswerTyped DEF FailChecks, TypeOK, Answers, Refusals
  <2> QED
    BY <1>6, <2>1 DEF FailChecks, Goto, TypeOK, Pcs, locks
<1>7. ASSUME NEW r \in Requests, KeyLock(r) PROVE TypeOK'
  BY <1>7
  DEF KeyLock, Goto, Up, TypeOK, Pcs, Answers, Owners, Refusals, locks
<1>8. ASSUME NEW r \in Requests, Find(r) PROVE TypeOK'
  <2>1. PICK n \in 0 .. Len(rows) :
           /\ UNCHANGED <<missed, faults>> \/ (Fault /\ missed' = missed \cup {"stale"})
           /\ \/ n > 0 /\ result' = [result EXCEPT ![r] = rows[n]]
              \/ UNCHANGED result
           /\ \E l \in Pcs : Goto(r, l)
    BY <1>8 DEF Find, FindRow, Pcs
  <2>2. n > 0 => rows[n] \in Answers
    BY <2>1, RowRead DEF TypeOK, Answers
  <2>3. /\ faults' \in 0 .. MaxFaults
        /\ missed' \subseteq {"mw", "key", "phone", "stale", "redis"}
    BY <2>1, FaultCounted DEF TypeOK
  <2>4. pc' \in [Requests -> Pcs] /\ result' \in [Requests -> Answers]
    BY <2>1, <2>2 DEF TypeOK, Goto
  <2> QED
    BY <1>8, <2>3, <2>4 DEF Find, TypeOK, locks
<1>9. ASSUME NEW r \in Requests, PhoneLock(r) PROVE TypeOK'
  <2>1. phoneLock' \in [Phones -> Owners]
    BY <1>9 DEF PhoneLock, TypeOK, Owners
  <2> QED
    BY <1>9, <2>1 DEF PhoneLock, Goto, TypeOK, Pcs, Answers, Refusals
<1>10. ASSUME NEW r \in Requests, FindAgain(r) PROVE TypeOK'
  <2>1. PICK n \in 0 .. Len(rows) :
           /\ UNCHANGED <<missed, faults>> \/ (Fault /\ missed' = missed \cup {"stale"})
           /\ \/ n > 0 /\ result' = [result EXCEPT ![r] = rows[n]]
              \/ UNCHANGED result
           /\ \E l \in Pcs : Goto(r, l)
    BY <1>10 DEF FindAgain, FindRow, Pcs
  <2>2. n > 0 => rows[n] \in Answers
    BY <2>1, RowRead DEF TypeOK, Answers
  <2>3. /\ faults' \in 0 .. MaxFaults
        /\ missed' \subseteq {"mw", "key", "phone", "stale", "redis"}
    BY <2>1, FaultCounted DEF TypeOK
  <2>4. pc' \in [Requests -> Pcs] /\ result' \in [Requests -> Answers]
    BY <2>1, <2>2 DEF TypeOK, Goto
  <2> QED
    BY <1>10, <2>3, <2>4 DEF FindAgain, TypeOK, locks
<1>11. ASSUME NEW r \in Requests, Create(r) PROVE TypeOK'
  <2>1. rows' \in Seq(Requests)
    BY <1>11, RowAdded DEF Create, TypeOK
  <2> QED
    BY <1>11, <2>1 DEF Create, Goto, TypeOK, Pcs, Answers, Refusals, locks
<1>12. ASSUME NEW r \in Requests, UnlockPhone(r) PROVE TypeOK'
  BY <1>12
  DEF UnlockPhone, Goto, Freed, Unlocked, Up, TypeOK, Pcs, Answers, Owners,
      Refusals, locks
<1>13. ASSUME NEW r \in Requests, UnlockKey(r) PROVE TypeOK'
  <2>1. Unlocked(keyLock, r) \in Answers
    BY DEF Unlocked, TypeOK, Answers, Refusals
  <2>2. /\ reply' \in [Requests -> Answers]
        /\ finished' \subseteq guarded
        /\ after' \in [Requests -> Answers \cup {"release"}]
    BY <1>13, <2>1, AnswerTyped DEF UnlockKey, TypeOK
  <2>3. /\ keyLock' \in Owners
        /\ pc' \in [Requests -> Pcs]
        /\ result' \in [Requests -> Answers]
    BY <1>13 DEF UnlockKey, Freed, Goto, TypeOK, Pcs, Answers, Owners
  <2> QED
    BY <1>13, <2>2, <2>3 DEF UnlockKey, TypeOK
<1>14. ASSUME NEW r \in Requests, Timeout(r) PROVE TypeOK'
  BY <1>14
  DEF Timeout, Tell, Persist, Underway, TypeOK, Pcs, Answers, Owners, Refusals,
      locks
<1>15. ASSUME NEW r \in Requests, Disconnect(r) PROVE TypeOK'
  <2>1. faults' \in 0 .. MaxFaults
    BY <1>15, FaultCounted DEF Disconnect, TypeOK
  <2> QED
    BY <1>15, <2>1 DEF Disconnect, Tell, TypeOK, Answers, Refusals, locks
<1>16. ASSUME NEW r \in Requests, Crash(r) PROVE TypeOK'
  BY <1>16
  DEF Crash, Fault, Goto, Tell, Underway, Ended, Over, TypeOK, Pcs, Answers, Owners,
      Refusals, locks
<1>17. ASSUME NEW s \in Scopes, ExpireMw(s) PROVE TypeOK'
  <2>1. /\ faults' \in 0 .. MaxFaults
        /\ missed' \subseteq {"mw", "key", "phone", "stale", "redis"}
    BY <1>17, FaultCounted DEF ExpireMw, RunsOut, TypeOK
  <2> QED
    BY <1>17, <2>1 DEF ExpireMw, TypeOK, Owners
<1>18. CASE ExpireKey
  <2>1. /\ faults' \in 0 .. MaxFaults
        /\ missed' \subseteq {"mw", "key", "phone", "stale", "redis"}
    BY <1>18, FaultCounted DEF ExpireKey, RunsOut, TypeOK
  <2> QED
    BY <1>18, <2>1 DEF ExpireKey, TypeOK, Owners
<1>19. ASSUME NEW p \in Phones, ExpirePhone(p) PROVE TypeOK'
  <2>1. /\ faults' \in 0 .. MaxFaults
        /\ missed' \subseteq {"mw", "key", "phone", "stale", "redis"}
    BY <1>19, FaultCounted DEF ExpirePhone, RunsOut, TypeOK
  <2> QED
    BY <1>19, <2>1 DEF ExpirePhone, TypeOK, Owners
<1>20. CASE RedisDown
  BY <1>20
  DEF RedisDown, Fault, Up, TypeOK, Pcs, Answers, Owners, Refusals, locks
<1>21. CASE RedisUp
  BY <1>21
  DEF RedisUp, Up, TypeOK, Pcs, Answers, Owners, Refusals, locks
<1>22. CASE UNCHANGED vars
  BY <1>22 DEF vars, locks, TypeOK, Pcs, Answers, Owners, Refusals, locks
<1> QED
  BY <1>1, <1>2, <1>3, <1>4, <1>5, <1>6, <1>7, <1>8, <1>9, <1>10, <1>11, <1>12,
      <1>13, <1>14, <1>15, <1>16, <1>17, <1>18, <1>19, <1>20, <1>21, <1>22
      DEF Next, Step, Expiry

LEMMA CreateRows ==
    ASSUME TypeOK, NEW r \in Requests, Create(r)
    PROVE  /\ \E a \in {r, "error"} : result' = [result EXCEPT ![r] = a]
           /\ \/ /\ UNCHANGED rows /\ Rows' = Rows
                 /\ result' = [result EXCEPT ![r] = "error"]
              \/ Rows' = Rows \cup {r} /\ Len(rows') = Len(rows) + 1
<1>1. rows \in Seq(Requests)
  BY DEF TypeOK
<1>2. CASE rows' = Append(rows, r)
  BY <1>1, <1>2, RowAdded DEF Create
<1>3. CASE UNCHANGED rows
  BY <1>3 DEF Create, Rows
<1> QED
  BY <1>2, <1>3 DEF Create

----------------------------------------------------------------------------
(* Answers and places *)

LEMMA AnswersInit == Init => AnswersInv
BY DEF Init, AnswersInv

LEMMA AnswersStep == TypeOK /\ AnswersInv /\ [Next]_vars => AnswersInv'
<1> SUFFICES ASSUME TypeOK, AnswersInv, [Next]_vars PROVE AnswersInv'
  OBVIOUS
<1> USE NamesAssumption
<1>s. \A q \in Requests : Scope(q) \in Scopes /\ Scope(q)' = Scope(q)
  BY ScopesFixed
<1> USE <1>s DEF Cached, MwLock, FreeMwLock
<1>w. UNCHANGED rows => Rows' = Rows
  BY DEF Rows
<1>1. ASSUME NEW r \in Requests, Lookup(r) PROVE AnswersInv'
  BY <1>1, <1>w
  DEF Lookup, Goto, Tell, CachedAnswer, Up, TypeOK, AnswersInv, Told, Refusals,
      locks
<1>2. ASSUME NEW r \in Requests, Lock(r) PROVE AnswersInv'
  BY <1>2, <1>w
  DEF Lock, Goto, Tell, Up, TypeOK, AnswersInv, Told, Refusals, locks
<1>3. ASSUME NEW r \in Requests, Recheck(r) PROVE AnswersInv'
  BY <1>3, <1>w
  DEF Recheck, Goto, Tell, CachedAnswer, Freed, Up, TypeOK, AnswersInv, Told,
      Refusals, locks
<1>4. ASSUME NEW r \in Requests, Save(r) PROVE AnswersInv'
  <2>1. after[r] \in Told
    BY <1>4 DEF Save, Answers, AnswersInv, Told
  <2>4. [payload |-> payload[r], answer |-> after[r]] \in [payload : Payloads, answer : Told]
    BY <2>1 DEF TypeOK
  <2>2. cache' \in [Scopes -> {Nobody} \cup [payload : Payloads, answer : Told]]
    BY <1>4, <2>4 DEF Save, AnswersInv, TypeOK
  <2>3. Told' = Told
    BY <1>4, <1>w DEF Save, Told
  <2> QED
    BY <1>4, <1>w, <2>2, <2>3 DEF Save, AnswersInv
<1>5. ASSUME NEW r \in Requests, Release(r) PROVE AnswersInv'
  BY <1>5, <1>w
  DEF Release, Freed, Up, TypeOK, AnswersInv, Told, Refusals, locks
<1>6. ASSUME NEW r \in Requests, FailChecks(r) PROVE AnswersInv'
  BY <1>6, <1>w
  DEF FailChecks, Goto, Tell, Persist, TypeOK, AnswersInv, Told, Refusals, locks
<1>7. ASSUME NEW r \in Requests, KeyLock(r) PROVE AnswersInv'
  BY <1>7, <1>w
  DEF KeyLock, Goto, Up, TypeOK, AnswersInv, Told, Refusals, locks
<1>8. ASSUME NEW r \in Requests, Find(r) PROVE AnswersInv'
  <2>1. \/ UNCHANGED result
        \/ \E n \in 0 .. Len(rows) : n > 0 /\ result' = [result EXCEPT ![r] = rows[n]]
    BY <1>8 DEF Find, FindRow
  <2>2. result' \in [Requests -> Rows \cup {"none", "error"}]
    BY <2>1, RowRead DEF TypeOK, AnswersInv
  <2> QED
    BY <1>8, <1>w, <2>2 DEF Find, AnswersInv, Told
<1>9. ASSUME NEW r \in Requests, PhoneLock(r) PROVE AnswersInv'
  BY <1>9, <1>w
  DEF PhoneLock, Goto, Up, TypeOK, AnswersInv, Told, Refusals, locks
<1>10. ASSUME NEW r \in Requests, FindAgain(r) PROVE AnswersInv'
  <2>1. \/ UNCHANGED result
        \/ \E n \in 0 .. Len(rows) : n > 0 /\ result' = [result EXCEPT ![r] = rows[n]]
    BY <1>10 DEF FindAgain, FindRow
  <2>2. result' \in [Requests -> Rows \cup {"none", "error"}]
    BY <2>1, RowRead DEF TypeOK, AnswersInv
  <2> QED
    BY <1>10, <1>w, <2>2 DEF FindAgain, AnswersInv, Told
<1>11. ASSUME NEW r \in Requests, Create(r) PROVE AnswersInv'
  <2>1. /\ \E a \in {r, "error"} : result' = [result EXCEPT ![r] = a]
        /\ \/ Rows' = Rows /\ result' = [result EXCEPT ![r] = "error"]
           \/ Rows' = Rows \cup {r}
    BY <1>11, CreateRows
  <2> QED
    BY <1>11, <2>1 DEF Create, Goto, AnswersInv, Told, locks
<1>12. ASSUME NEW r \in Requests, UnlockPhone(r) PROVE AnswersInv'
  BY <1>12, <1>w
  DEF UnlockPhone, Goto, Freed, Unlocked, Up, TypeOK, AnswersInv, Told, Refusals,
      locks
<1>13. ASSUME NEW r \in Requests, UnlockKey(r) PROVE AnswersInv'
  BY <1>13, <1>w
  DEF UnlockKey, Goto, Tell, Persist, Freed, Unlocked, Up, TypeOK, AnswersInv, Told,
      Refusals, locks
<1>14. ASSUME NEW r \in Requests, Timeout(r) PROVE AnswersInv'
  BY <1>14, <1>w
  DEF Timeout, Tell, Persist, Underway, TypeOK, AnswersInv, Told, Refusals, locks
<1>15. ASSUME NEW r \in Requests, Disconnect(r) PROVE AnswersInv'
  BY <1>15, <1>w
  DEF Disconnect, Fault, Tell, Underway, TypeOK, AnswersInv, Told, Refusals, locks
<1>16. ASSUME NEW r \in Requests, Crash(r) PROVE AnswersInv'
  BY <1>16, <1>w
  DEF Crash, Fault, Goto, Tell, Underway, Ended, Over, TypeOK, AnswersInv, Told,
      Refusals, locks
<1>17. ASSUME NEW s \in Scopes, ExpireMw(s) PROVE AnswersInv'
  BY <1>17, <1>w
  DEF ExpireMw, RunsOut, Fault, Ended, Over, TypeOK, AnswersInv, Told, Refusals,
      locks
<1>18. CASE ExpireKey
  BY <1>18, <1>w
  DEF ExpireKey, RunsOut, Fault, InKeySection, TypeOK, AnswersInv, Told, Refusals,
      locks
<1>19. ASSUME NEW p \in Phones, ExpirePhone(p) PROVE AnswersInv'
  BY <1>19, <1>w
  DEF ExpirePhone, RunsOut, Fault, InPhoneSection, TypeOK, AnswersInv, Told,
      Refusals, locks
<1>20. CASE RedisDown
  BY <1>20, <1>w
  DEF RedisDown, Fault, Up, TypeOK, AnswersInv, Told, Refusals, locks
<1>21. CASE RedisUp
  BY <1>21, <1>w
  DEF RedisUp, Up, TypeOK, AnswersInv, Told, Refusals, locks
<1>22. CASE UNCHANGED vars
  BY <1>22, <1>w DEF vars, locks, TypeOK, AnswersInv, Told, Refusals, locks
<1> QED
  BY <1>1, <1>2, <1>3, <1>4, <1>5, <1>6, <1>7, <1>8, <1>9, <1>10, <1>11, <1>12,
      <1>13, <1>14, <1>15, <1>16, <1>17, <1>18, <1>19, <1>20, <1>21, <1>22
      DEF Next, Step, Expiry

LEMMA PlaceInit == Init => PlaceInv
BY DEF Init, PlaceInv, Rows

LEMMA PlaceStep == TypeOK /\ AnswersInv /\ PlaceInv /\ [Next]_vars => PlaceInv'
<1> SUFFICES ASSUME TypeOK, AnswersInv, PlaceInv, [Next]_vars PROVE PlaceInv'
  OBVIOUS
<1> USE NamesAssumption
<1>w. UNCHANGED rows => Rows' = Rows
  BY DEF Rows
<1>1. ASSUME NEW r \in Requests, Lookup(r) PROVE PlaceInv'
  BY <1>1, <1>w DEF Lookup, Goto, Tell, TypeOK, PlaceInv, locks
<1>2. ASSUME NEW r \in Requests, Lock(r) PROVE PlaceInv'
  BY <1>2, <1>w
  DEF Lock, Goto, Tell, Up, TypeOK, AnswersInv, PlaceInv, Over, Ended, Told,
      Refusals, locks
<1>3. ASSUME NEW r \in Requests, Recheck(r) PROVE PlaceInv'
  BY <1>3, <1>w
  DEF Recheck, Goto, Tell, CachedAnswer, Freed, Up, TypeOK, AnswersInv, PlaceInv,
      Over, Ended, Told, Refusals, locks
<1>4. ASSUME NEW r \in Requests, Save(r) PROVE PlaceInv'
  BY <1>4, <1>w
  DEF Save, Up, TypeOK, AnswersInv, PlaceInv, Over, Ended, Told, Refusals, locks
<1>5. ASSUME NEW r \in Requests, Release(r) PROVE PlaceInv'
  BY <1>5, <1>w
  DEF Release, Freed, Up, TypeOK, AnswersInv, PlaceInv, Over, Ended, Told, Refusals,
      locks
<1>6. ASSUME NEW r \in Requests, FailChecks(r) PROVE PlaceInv'
  BY <1>6, <1>w
  DEF FailChecks, Goto, Tell, Persist, TypeOK, AnswersInv, PlaceInv, Over, Ended,
      Told, Refusals, locks
<1>7. ASSUME NEW r \in Requests, KeyLock(r) PROVE PlaceInv'
  BY <1>7, <1>w
  DEF KeyLock, Goto, Up, TypeOK, AnswersInv, PlaceInv, Over, Ended, Told, Refusals,
      locks
<1>8. ASSUME NEW r \in Requests, Find(r) PROVE PlaceInv'
  BY <1>8, <1>w
  DEF Find, FindRow, Fault, Goto, TypeOK, AnswersInv, PlaceInv, Over, Ended, Told,
      Refusals, locks
<1>9. ASSUME NEW r \in Requests, PhoneLock(r) PROVE PlaceInv'
  BY <1>9, <1>w
  DEF PhoneLock, Goto, Up, TypeOK, AnswersInv, PlaceInv, Over, Ended, Told,
      Refusals, locks
<1>10. ASSUME NEW r \in Requests, FindAgain(r) PROVE PlaceInv'
  BY <1>10, <1>w
  DEF FindAgain, FindRow, Fault, Goto, TypeOK, AnswersInv, PlaceInv, Over, Ended,
      Told, Refusals, locks
<1>11. ASSUME NEW r \in Requests, Create(r) PROVE PlaceInv'
  <2>1. /\ \E a \in {r, "error"} : result' = [result EXCEPT ![r] = a]
        /\ \/ Rows' = Rows /\ result' = [result EXCEPT ![r] = "error"]
           \/ Rows' = Rows \cup {r}
    BY <1>11, CreateRows
  <2> QED
    BY <1>11, <2>1 DEF Create, Goto, PlaceInv, AnswersInv, TypeOK
<1>12. ASSUME NEW r \in Requests, UnlockPhone(r) PROVE PlaceInv'
  BY <1>12, <1>w
  DEF UnlockPhone, Goto, Freed, Unlocked, Up, TypeOK, AnswersInv, PlaceInv, Over,
      Ended, Told, Refusals, locks
<1>13. ASSUME NEW r \in Requests, UnlockKey(r) PROVE PlaceInv'
  BY <1>13, <1>w
  DEF UnlockKey, Goto, Tell, Persist, Freed, Unlocked, Up, TypeOK, AnswersInv,
      PlaceInv, Over, Ended, Told, Refusals, locks
<1>14. ASSUME NEW r \in Requests, Timeout(r) PROVE PlaceInv'
  BY <1>14, <1>w
  DEF Timeout, Tell, Persist, Underway, TypeOK, AnswersInv, PlaceInv, Over, Ended,
      Told, Refusals, locks
<1>15. ASSUME NEW r \in Requests, Disconnect(r) PROVE PlaceInv'
  BY <1>15, <1>w
  DEF Disconnect, Fault, Tell, Underway, TypeOK, AnswersInv, PlaceInv, Over, Ended,
      Told, Refusals, locks
<1>16. ASSUME NEW r \in Requests, Crash(r) PROVE PlaceInv'
  BY <1>16, <1>w
  DEF Crash, Fault, Goto, Tell, Underway, Ended, Over, TypeOK, AnswersInv, PlaceInv,
      Told, Refusals, locks
<1>17. ASSUME NEW s \in Scopes, ExpireMw(s) PROVE PlaceInv'
  BY <1>17, <1>w
  DEF ExpireMw, RunsOut, Fault, Ended, Over, TypeOK, AnswersInv, PlaceInv, Told,
      Refusals, locks
<1>18. CASE ExpireKey
  BY <1>18, <1>w
  DEF ExpireKey, RunsOut, Fault, InKeySection, TypeOK, AnswersInv, PlaceInv, Over,
      Ended, Told, Refusals, locks
<1>19. ASSUME NEW p \in Phones, ExpirePhone(p) PROVE PlaceInv'
  BY <1>19, <1>w
  DEF ExpirePhone, RunsOut, Fault, InPhoneSection, TypeOK, AnswersInv, PlaceInv,
      Over, Ended, Told, Refusals, locks
<1>20. CASE RedisDown
  BY <1>20, <1>w
  DEF RedisDown, Fault, Up, TypeOK, AnswersInv, PlaceInv, Over, Ended, Told,
      Refusals, locks
<1>21. CASE RedisUp
  BY <1>21, <1>w
  DEF RedisUp, Up, TypeOK, AnswersInv, PlaceInv, Over, Ended, Told, Refusals, locks
<1>22. CASE UNCHANGED vars
  BY <1>22, <1>w
     DEF vars, locks, TypeOK, AnswersInv, PlaceInv, Over, Ended, Told, Refusals
<1> QED
  BY <1>1, <1>2, <1>3, <1>4, <1>5, <1>6, <1>7, <1>8, <1>9, <1>10, <1>11, <1>12,
      <1>13, <1>14, <1>15, <1>16, <1>17, <1>18, <1>19, <1>20, <1>21, <1>22
      DEF Next, Step, Expiry

LEMMA GuardInit == Init => GuardInv
BY DEF Init, GuardInv, Rows, Up

LEMMA GuardStep == TypeOK /\ GuardInv /\ [Next]_vars => GuardInv'
<1> SUFFICES ASSUME TypeOK, GuardInv, [Next]_vars PROVE GuardInv'
  OBVIOUS
<1>w. UNCHANGED rows => Rows' = Rows
  BY DEF Rows
<1>1. ASSUME NEW r \in Requests, Lookup(r) PROVE GuardInv'
  BY <1>1, <1>w
  DEF Lookup, Goto, Tell, CachedAnswer, Up, TypeOK, GuardInv, locks
<1>2. ASSUME NEW r \in Requests, Lock(r) PROVE GuardInv'
  BY <1>2, <1>w
  DEF Lock, Goto, Tell, Up, TypeOK, GuardInv, locks
<1>3. ASSUME NEW r \in Requests, Recheck(r) PROVE GuardInv'
  BY <1>3, <1>w
  DEF Recheck, Goto, Tell, CachedAnswer, Freed, Up, TypeOK, GuardInv, locks
<1>4. ASSUME NEW r \in Requests, Save(r) PROVE GuardInv'
  BY <1>4, <1>w
  DEF Save, Up, TypeOK, GuardInv, locks
<1>5. ASSUME NEW r \in Requests, Release(r) PROVE GuardInv'
  BY <1>5, <1>w
  DEF Release, Freed, Up, TypeOK, GuardInv, locks
<1>6. ASSUME NEW r \in Requests, FailChecks(r) PROVE GuardInv'
  BY <1>6, <1>w
  DEF FailChecks, Goto, Tell, Persist, TypeOK, GuardInv, Up, locks
<1>7. ASSUME NEW r \in Requests, KeyLock(r) PROVE GuardInv'
  BY <1>7, <1>w
  DEF KeyLock, Goto, Up, TypeOK, GuardInv, locks
<1>8. ASSUME NEW r \in Requests, Find(r) PROVE GuardInv'
  BY <1>8, <1>w
  DEF Find, FindRow, Fault, Goto, TypeOK, GuardInv, Up, locks
<1>9. ASSUME NEW r \in Requests, PhoneLock(r) PROVE GuardInv'
  BY <1>9, <1>w
  DEF PhoneLock, Goto, Up, TypeOK, GuardInv, locks
<1>10. ASSUME NEW r \in Requests, FindAgain(r) PROVE GuardInv'
  BY <1>10, <1>w
  DEF FindAgain, FindRow, Fault, Goto, TypeOK, GuardInv, Up, locks
<1>11. ASSUME NEW r \in Requests, Create(r) PROVE GuardInv'
  <2>1. /\ \E a \in {r, "error"} : result' = [result EXCEPT ![r] = a]
        /\ \/ Rows' = Rows /\ result' = [result EXCEPT ![r] = "error"]
           \/ Rows' = Rows \cup {r}
    BY <1>11, CreateRows
  <2> QED
    BY <1>11, <2>1 DEF Create, Goto, GuardInv, TypeOK, Up
<1>12. ASSUME NEW r \in Requests, UnlockPhone(r) PROVE GuardInv'
  BY <1>12, <1>w
  DEF UnlockPhone, Goto, Freed, Unlocked, Up, TypeOK, GuardInv, locks
<1>13. ASSUME NEW r \in Requests, UnlockKey(r) PROVE GuardInv'
  BY <1>13, <1>w
  DEF UnlockKey, Goto, Tell, Persist, Freed, Unlocked, Up, TypeOK, GuardInv, locks
<1>14. ASSUME NEW r \in Requests, Timeout(r) PROVE GuardInv'
  BY <1>14, <1>w
  DEF Timeout, Tell, Persist, Underway, TypeOK, GuardInv, Up, locks
<1>15. ASSUME NEW r \in Requests, Disconnect(r) PROVE GuardInv'
  BY <1>15, <1>w
  DEF Disconnect, Fault, Tell, Underway, TypeOK, GuardInv, Up, locks
<1>16. ASSUME NEW r \in Requests, Crash(r) PROVE GuardInv'
  BY <1>16, <1>w
  DEF Crash, Fault, Goto, Tell, Underway, Ended, Over, TypeOK, GuardInv, Up, locks
<1>17. ASSUME NEW s \in Scopes, ExpireMw(s) PROVE GuardInv'
  BY <1>17, <1>w
  DEF ExpireMw, RunsOut, Fault, Ended, Over, TypeOK, GuardInv, Up, locks
<1>18. CASE ExpireKey
  BY <1>18, <1>w
  DEF ExpireKey, RunsOut, Fault, InKeySection, TypeOK, GuardInv, Up, locks
<1>19. ASSUME NEW p \in Phones, ExpirePhone(p) PROVE GuardInv'
  BY <1>19, <1>w
  DEF ExpirePhone, RunsOut, Fault, InPhoneSection, TypeOK, GuardInv, Up, locks
<1>20. CASE RedisDown
  BY <1>20, <1>w
  DEF RedisDown, Fault, Up, TypeOK, GuardInv, locks
<1>21. CASE RedisUp
  BY <1>21, <1>w
  DEF RedisUp, Up, TypeOK, GuardInv, locks
<1>22. CASE UNCHANGED vars
  BY <1>22, <1>w DEF vars, locks, TypeOK, GuardInv, Up, locks
<1> QED
  BY <1>1, <1>2, <1>3, <1>4, <1>5, <1>6, <1>7, <1>8, <1>9, <1>10, <1>11, <1>12,
      <1>13, <1>14, <1>15, <1>16, <1>17, <1>18, <1>19, <1>20, <1>21, <1>22
      DEF Next, Step, Expiry

----------------------------------------------------------------------------
(* The sections and their locks *)

LEMMA SectionInit == Init => SectionInv
BY DEF Init, SectionInv, InKeySection, InPhoneSection

LEMMA SectionStep == TypeOK /\ SectionInv /\ [Next]_vars => SectionInv'
<1> SUFFICES ASSUME TypeOK, SectionInv, [Next]_vars PROVE SectionInv'
  OBVIOUS
<1> USE NamesAssumption, PhoneAssumption
<1>1. ASSUME NEW r \in Requests, Lookup(r) PROVE SectionInv'
  BY <1>1
  DEF Lookup, Goto, Tell, CachedAnswer, Up, TypeOK, SectionInv, InKeySection,
      InPhoneSection, Phone, locks
<1>2. ASSUME NEW r \in Requests, Lock(r) PROVE SectionInv'
  BY <1>2
  DEF Lock, Goto, Tell, Up, TypeOK, SectionInv, InKeySection, InPhoneSection, Phone,
      locks
<1>3. ASSUME NEW r \in Requests, Recheck(r) PROVE SectionInv'
  BY <1>3
  DEF Recheck, Goto, Tell, CachedAnswer, Freed, Up, TypeOK, SectionInv,
      InKeySection, InPhoneSection, Phone, locks
<1>4. ASSUME NEW r \in Requests, Save(r) PROVE SectionInv'
  BY <1>4
  DEF Save, Up, TypeOK, SectionInv, InKeySection, InPhoneSection, Phone, locks
<1>5. ASSUME NEW r \in Requests, Release(r) PROVE SectionInv'
  BY <1>5
  DEF Release, Freed, Up, TypeOK, SectionInv, InKeySection, InPhoneSection, Phone,
      locks
<1>6. ASSUME NEW r \in Requests, FailChecks(r) PROVE SectionInv'
  BY <1>6
  DEF FailChecks, Goto, Tell, Persist, TypeOK, SectionInv, InKeySection,
      InPhoneSection, Phone, locks
<1>7. ASSUME NEW r \in Requests, KeyLock(r) PROVE SectionInv'
  BY <1>7
  DEF KeyLock, Goto, Up, TypeOK, SectionInv, InKeySection, InPhoneSection, Phone,
      locks
<1>8. ASSUME NEW r \in Requests, Find(r) PROVE SectionInv'
  BY <1>8
  DEF Find, FindRow, Fault, Goto, TypeOK, SectionInv, InKeySection, InPhoneSection,
      Phone, locks
<1>9. ASSUME NEW r \in Requests, PhoneLock(r) PROVE SectionInv'
  BY <1>9
  DEF PhoneLock, Goto, Up, TypeOK, SectionInv, InKeySection, InPhoneSection, Phone,
      locks
<1>10. ASSUME NEW r \in Requests, FindAgain(r) PROVE SectionInv'
  BY <1>10
  DEF FindAgain, FindRow, Fault, Goto, TypeOK, SectionInv, InKeySection,
      InPhoneSection, Phone, locks
<1>11. ASSUME NEW r \in Requests, Create(r) PROVE SectionInv'
  BY <1>11
  DEF Create, Goto, TypeOK, SectionInv, InKeySection, InPhoneSection, Phone, locks
<1>12. ASSUME NEW r \in Requests, UnlockPhone(r) PROVE SectionInv'
  BY <1>12
  DEF UnlockPhone, Goto, Freed, Unlocked, Up, TypeOK, SectionInv, InKeySection,
      InPhoneSection, Phone, locks
<1>13. ASSUME NEW r \in Requests, UnlockKey(r) PROVE SectionInv'
  BY <1>13
  DEF UnlockKey, Goto, Tell, Persist, Freed, Unlocked, Up, TypeOK, SectionInv,
      InKeySection, InPhoneSection, Phone, locks
<1>14. ASSUME NEW r \in Requests, Timeout(r) PROVE SectionInv'
  BY <1>14
  DEF Timeout, Tell, Persist, Underway, TypeOK, SectionInv, InKeySection,
      InPhoneSection, Phone, locks
<1>15. ASSUME NEW r \in Requests, Disconnect(r) PROVE SectionInv'
  BY <1>15
  DEF Disconnect, Fault, Tell, Underway, TypeOK, SectionInv, InKeySection,
      InPhoneSection, Phone, locks
<1>16. ASSUME NEW r \in Requests, Crash(r) PROVE SectionInv'
  BY <1>16
  DEF Crash, Fault, Goto, Tell, Underway, Ended, Over, TypeOK, SectionInv,
      InKeySection, InPhoneSection, Phone, locks
<1>17. ASSUME NEW s \in Scopes, ExpireMw(s) PROVE SectionInv'
  BY <1>17
  DEF ExpireMw, RunsOut, Fault, Ended, Over, TypeOK, SectionInv, InKeySection,
      InPhoneSection, Phone, locks
<1>18. CASE ExpireKey
  BY <1>18
  DEF ExpireKey, RunsOut, Fault, InKeySection, TypeOK, SectionInv, InPhoneSection,
      Phone, locks
<1>19. ASSUME NEW p \in Phones, ExpirePhone(p) PROVE SectionInv'
  BY <1>19
  DEF ExpirePhone, RunsOut, Fault, InPhoneSection, TypeOK, SectionInv, InKeySection,
      Phone, locks
<1>20. CASE RedisDown
  BY <1>20
  DEF RedisDown, Fault, Up, TypeOK, SectionInv, InKeySection, InPhoneSection, Phone,
      locks
<1>21. CASE RedisUp
  BY <1>21
  DEF RedisUp, Up, TypeOK, SectionInv, InKeySection, InPhoneSection, Phone, locks
<1>22. CASE UNCHANGED vars
  BY <1>22 DEF vars, locks, TypeOK, SectionInv, InKeySection, InPhoneSection, Phone, locks
<1> QED
  BY <1>1, <1>2, <1>3, <1>4, <1>5, <1>6, <1>7, <1>8, <1>9, <1>10, <1>11, <1>12,
      <1>13, <1>14, <1>15, <1>16, <1>17, <1>18, <1>19, <1>20, <1>21, <1>22
      DEF Next, Step, Expiry

LEMMA HeldInit == Init => HeldInv
BY NamesAssumption, ScopeAssumption, CasesAssumption DEF Init, HeldInv, MwLock, Scope

LEMMA HeldStep == TypeOK /\ PlaceInv /\ GuardInv /\ HeldInv /\ [Next]_vars => HeldInv'
<1> SUFFICES ASSUME TypeOK, PlaceInv, GuardInv, HeldInv, [Next]_vars PROVE HeldInv'
  OBVIOUS
<1> USE NamesAssumption, PhoneAssumption
<1>s. \A q \in Requests : Scope(q) \in Scopes /\ Scope(q)' = Scope(q)
  BY ScopesFixed
<1> USE <1>s DEF Cached, MwLock, FreeMwLock
<1>1. ASSUME NEW r \in Requests, Lookup(r) PROVE HeldInv'
  BY <1>1
  DEF Lookup, Goto, Tell, CachedAnswer, Up, TypeOK, PlaceInv, GuardInv, HeldInv,
      InKeySection, InPhoneSection, Phone, locks
<1>2. ASSUME NEW r \in Requests, Lock(r) PROVE HeldInv'
  BY <1>2
  DEF Lock, Goto, Tell, Up, TypeOK, PlaceInv, GuardInv, HeldInv, InKeySection,
      InPhoneSection, Phone, locks
<1>3. ASSUME NEW r \in Requests, Recheck(r) PROVE HeldInv'
  BY <1>3
  DEF Recheck, Goto, Tell, CachedAnswer, Freed, Up, TypeOK, PlaceInv, GuardInv,
      HeldInv, InKeySection, InPhoneSection, Phone, locks
<1>4. ASSUME NEW r \in Requests, Save(r) PROVE HeldInv'
  BY <1>4
  DEF Save, Up, TypeOK, PlaceInv, GuardInv, HeldInv, InKeySection, InPhoneSection,
      Phone, locks
<1>5. ASSUME NEW r \in Requests, Release(r) PROVE HeldInv'
  BY <1>5
  DEF Release, Freed, Up, TypeOK, PlaceInv, GuardInv, HeldInv, InKeySection,
      InPhoneSection, Phone, locks
<1>6. ASSUME NEW r \in Requests, FailChecks(r) PROVE HeldInv'
  BY <1>6
  DEF FailChecks, Goto, Tell, Persist, TypeOK, PlaceInv, GuardInv, HeldInv,
      InKeySection, InPhoneSection, Phone, Up, locks
<1>7. ASSUME NEW r \in Requests, KeyLock(r) PROVE HeldInv'
  BY <1>7
  DEF KeyLock, Goto, Up, TypeOK, PlaceInv, GuardInv, HeldInv, InKeySection,
      InPhoneSection, Phone, locks
<1>8. ASSUME NEW r \in Requests, Find(r) PROVE HeldInv'
  BY <1>8
  DEF Find, FindRow, Fault, Goto, TypeOK, PlaceInv, GuardInv, HeldInv, InKeySection,
      InPhoneSection, Phone, Up, locks
<1>9. ASSUME NEW r \in Requests, PhoneLock(r) PROVE HeldInv'
  BY <1>9
  DEF PhoneLock, Goto, Up, TypeOK, PlaceInv, GuardInv, HeldInv, InKeySection,
      InPhoneSection, Phone, locks
<1>10. ASSUME NEW r \in Requests, FindAgain(r) PROVE HeldInv'
  BY <1>10
  DEF FindAgain, FindRow, Fault, Goto, TypeOK, PlaceInv, GuardInv, HeldInv,
      InKeySection, InPhoneSection, Phone, Up, locks
<1>11. ASSUME NEW r \in Requests, Create(r) PROVE HeldInv'
  BY <1>11
  DEF Create, Goto, TypeOK, PlaceInv, GuardInv, HeldInv, InKeySection,
      InPhoneSection, Phone, Up, locks
<1>12. ASSUME NEW r \in Requests, UnlockPhone(r) PROVE HeldInv'
  BY <1>12
  DEF UnlockPhone, Goto, Freed, Unlocked, Up, TypeOK, PlaceInv, GuardInv, HeldInv,
      InKeySection, InPhoneSection, Phone, locks
<1>13. ASSUME NEW r \in Requests, UnlockKey(r) PROVE HeldInv'
  BY <1>13
  DEF UnlockKey, Goto, Tell, Persist, Freed, Unlocked, Up, TypeOK, PlaceInv,
      GuardInv, HeldInv, InKeySection, InPhoneSection, Phone, locks
<1>14. ASSUME NEW r \in Requests, Timeout(r) PROVE HeldInv'
  BY <1>14
  DEF Timeout, Tell, Persist, Underway, TypeOK, PlaceInv, GuardInv, HeldInv,
      InKeySection, InPhoneSection, Phone, Up, locks
<1>15. ASSUME NEW r \in Requests, Disconnect(r) PROVE HeldInv'
  BY <1>15
  DEF Disconnect, Fault, Tell, Underway, TypeOK, PlaceInv, GuardInv, HeldInv,
      InKeySection, InPhoneSection, Phone, Up, locks
<1>16. ASSUME NEW r \in Requests, Crash(r) PROVE HeldInv'
  BY <1>16
  DEF Crash, Fault, Goto, Tell, Underway, Ended, Over, TypeOK, PlaceInv, GuardInv,
      HeldInv, InKeySection, InPhoneSection, Phone, Up, locks
<1>17. ASSUME NEW s \in Scopes, ExpireMw(s) PROVE HeldInv'
  BY <1>17
  DEF ExpireMw, RunsOut, Fault, Ended, Over, TypeOK, PlaceInv, GuardInv, HeldInv,
      InKeySection, InPhoneSection, Phone, Up, locks
<1>18. CASE ExpireKey
  BY <1>18
  DEF ExpireKey, RunsOut, Fault, InKeySection, TypeOK, PlaceInv, GuardInv, HeldInv,
      InPhoneSection, Phone, Up, locks
<1>19. ASSUME NEW p \in Phones, ExpirePhone(p) PROVE HeldInv'
  BY <1>19
  DEF ExpirePhone, RunsOut, Fault, InPhoneSection, TypeOK, PlaceInv, GuardInv,
      HeldInv, InKeySection, Phone, Up, locks
<1>20. CASE RedisDown
  BY <1>20
  DEF RedisDown, Fault, Up, TypeOK, PlaceInv, GuardInv, HeldInv, InKeySection,
      InPhoneSection, Phone, locks
<1>21. CASE RedisUp
  BY <1>21
  DEF RedisUp, Up, TypeOK, PlaceInv, GuardInv, HeldInv, InKeySection,
      InPhoneSection, Phone, locks
<1>22. CASE UNCHANGED vars
  BY <1>22
     DEF vars, locks, TypeOK, PlaceInv, GuardInv, HeldInv, InKeySection,
         InPhoneSection, Phone, Up
<1> QED
  BY <1>1, <1>2, <1>3, <1>4, <1>5, <1>6, <1>7, <1>8, <1>9, <1>10, <1>11, <1>12,
      <1>13, <1>14, <1>15, <1>16, <1>17, <1>18, <1>19, <1>20, <1>21, <1>22
      DEF Next, Step, Expiry

----------------------------------------------------------------------------
(* The middleware's lock and its cache *)

LEMMA MiddlewareInit == Init => MiddlewareInv
BY DEF Init, MiddlewareInv

LEMMA MiddlewareStep ==
    TypeOK /\ AnswersInv /\ PlaceInv /\ MiddlewareInv /\ [Next]_vars => MiddlewareInv'
<1> SUFFICES ASSUME TypeOK, AnswersInv, PlaceInv, MiddlewareInv, [Next]_vars
             PROVE  MiddlewareInv'
  OBVIOUS
<1> USE NamesAssumption
<1>s. \A q \in Requests : Scope(q) \in Scopes /\ Scope(q)' = Scope(q)
  BY ScopesFixed
<1> USE <1>s DEF Cached, MwLock, FreeMwLock
<1>1. ASSUME NEW r \in Requests, Lookup(r) PROVE MiddlewareInv'
  BY <1>1
  DEF Lookup, Goto, Tell, CachedAnswer, Up, TypeOK, AnswersInv, PlaceInv,
      MiddlewareInv, Stranded, Over, Ended, Answers, Told, Refusals, locks
<1>2. ASSUME NEW r \in Requests, Lock(r) PROVE MiddlewareInv'
  BY <1>2
  DEF Lock, Goto, Tell, Up, TypeOK, AnswersInv, PlaceInv, MiddlewareInv, Stranded,
      Over, Ended, Answers, Told, Refusals, locks
<1>3. ASSUME NEW r \in Requests, Recheck(r) PROVE MiddlewareInv'
  BY <1>3
  DEF Recheck, Goto, Tell, CachedAnswer, Freed, Up, TypeOK, AnswersInv, PlaceInv,
      MiddlewareInv, Stranded, Over, Ended, Answers, Told, Refusals, locks
<1>4. ASSUME NEW r \in Requests, Save(r) PROVE MiddlewareInv'
  BY <1>4
  DEF Save, Up, TypeOK, AnswersInv, PlaceInv, MiddlewareInv, Stranded, Over, Ended,
      Answers, Told, Refusals, locks
<1>5. ASSUME NEW r \in Requests, Release(r) PROVE MiddlewareInv'
  BY <1>5
  DEF Release, Freed, Up, TypeOK, AnswersInv, PlaceInv, MiddlewareInv, Stranded,
      Over, Ended, Answers, Told, Refusals, locks
<1>6. ASSUME NEW r \in Requests, FailChecks(r) PROVE MiddlewareInv'
  BY <1>6
  DEF FailChecks, Goto, Tell, Persist, TypeOK, AnswersInv, PlaceInv, MiddlewareInv,
      Stranded, Over, Ended, Answers, Told, Refusals, locks
<1>7. ASSUME NEW r \in Requests, KeyLock(r) PROVE MiddlewareInv'
  BY <1>7
  DEF KeyLock, Goto, Up, TypeOK, AnswersInv, PlaceInv, MiddlewareInv, Stranded,
      Over, Ended, Answers, Told, Refusals, locks
<1>8. ASSUME NEW r \in Requests, Find(r) PROVE MiddlewareInv'
  BY <1>8
  DEF Find, FindRow, Fault, Goto, TypeOK, AnswersInv, PlaceInv, MiddlewareInv,
      Stranded, Over, Ended, Answers, Told, Refusals, locks
<1>9. ASSUME NEW r \in Requests, PhoneLock(r) PROVE MiddlewareInv'
  BY <1>9
  DEF PhoneLock, Goto, Up, TypeOK, AnswersInv, PlaceInv, MiddlewareInv, Stranded,
      Over, Ended, Answers, Told, Refusals, locks
<1>10. ASSUME NEW r \in Requests, FindAgain(r) PROVE MiddlewareInv'
  BY <1>10
  DEF FindAgain, FindRow, Fault, Goto, TypeOK, AnswersInv, PlaceInv, MiddlewareInv,
      Stranded, Over, Ended, Answers, Told, Refusals, locks
<1>11. ASSUME NEW r \in Requests, Create(r) PROVE MiddlewareInv'
  BY <1>11
  DEF Create, Goto, TypeOK, AnswersInv, PlaceInv, MiddlewareInv, Stranded, Over,
      Ended, Answers, Told, Refusals, locks
<1>12. ASSUME NEW r \in Requests, UnlockPhone(r) PROVE MiddlewareInv'
  BY <1>12
  DEF UnlockPhone, Goto, Freed, Unlocked, Up, TypeOK, AnswersInv, PlaceInv,
      MiddlewareInv, Stranded, Over, Ended, Answers, Told, Refusals, locks
<1>13. ASSUME NEW r \in Requests, UnlockKey(r) PROVE MiddlewareInv'
  BY <1>13
  DEF UnlockKey, Goto, Tell, Persist, Freed, Unlocked, Up, TypeOK, AnswersInv,
      PlaceInv, MiddlewareInv, Stranded, Over, Ended, Answers, Told, Refusals, locks
<1>14. ASSUME NEW r \in Requests, Timeout(r) PROVE MiddlewareInv'
  BY <1>14
  DEF Timeout, Tell, Persist, Underway, TypeOK, AnswersInv, PlaceInv, MiddlewareInv,
      Stranded, Over, Ended, Answers, Told, Refusals, locks
<1>15. ASSUME NEW r \in Requests, Disconnect(r) PROVE MiddlewareInv'
  BY <1>15
  DEF Disconnect, Fault, Tell, Underway, TypeOK, AnswersInv, PlaceInv,
      MiddlewareInv, Stranded, Over, Ended, Answers, Told, Refusals, locks
<1>16. ASSUME NEW r \in Requests, Crash(r) PROVE MiddlewareInv'
  BY <1>16
  DEF Crash, Fault, Goto, Tell, Underway, Ended, Over, TypeOK, AnswersInv, PlaceInv,
      MiddlewareInv, Stranded, Answers, Told, Refusals, locks
<1>17. ASSUME NEW s \in Scopes, ExpireMw(s) PROVE MiddlewareInv'
  BY <1>17
  DEF ExpireMw, RunsOut, Fault, Ended, Over, TypeOK, AnswersInv, PlaceInv,
      MiddlewareInv, Stranded, Answers, Told, Refusals, locks
<1>18. CASE ExpireKey
  BY <1>18
  DEF ExpireKey, RunsOut, Fault, InKeySection, TypeOK, AnswersInv, PlaceInv,
      MiddlewareInv, Stranded, Over, Ended, Answers, Told, Refusals, locks
<1>19. ASSUME NEW p \in Phones, ExpirePhone(p) PROVE MiddlewareInv'
  BY <1>19
  DEF ExpirePhone, RunsOut, Fault, InPhoneSection, TypeOK, AnswersInv, PlaceInv,
      MiddlewareInv, Stranded, Over, Ended, Answers, Told, Refusals, locks
<1>20. CASE RedisDown
  BY <1>20
  DEF RedisDown, Fault, Up, TypeOK, AnswersInv, PlaceInv, MiddlewareInv, Stranded,
      Over, Ended, Answers, Told, Refusals, locks
<1>21. CASE RedisUp
  BY <1>21
  DEF RedisUp, Up, TypeOK, AnswersInv, PlaceInv, MiddlewareInv, Stranded, Over,
      Ended, Answers, Told, Refusals, locks
<1>22. CASE UNCHANGED vars
  BY <1>22
     DEF vars, locks, TypeOK, AnswersInv, PlaceInv, MiddlewareInv, Stranded, Over,
         Ended, Answers, Told, Refusals
<1> QED
  BY <1>1, <1>2, <1>3, <1>4, <1>5, <1>6, <1>7, <1>8, <1>9, <1>10, <1>11, <1>12,
      <1>13, <1>14, <1>15, <1>16, <1>17, <1>18, <1>19, <1>20, <1>21, <1>22
      DEF Next, Step, Expiry

LEMMA RowsAreRequests == TypeOK => Rows \subseteq Requests
<1> SUFFICES ASSUME TypeOK PROVE Rows \subseteq Requests
  OBVIOUS
<1>1. rows \in [1 .. Len(rows) -> Requests]
  BY LenProperties DEF TypeOK
<1> QED
  BY <1>1 DEF Rows

LEMMA CachedInit == Init => CachedInv
BY DEF Init, CachedInv

LEMMA CachedStep ==
    TypeOK /\ AnswersInv /\ PlaceInv /\ GuardInv /\ CachedInv /\ [Next]_vars => CachedInv'
<1> SUFFICES ASSUME TypeOK, AnswersInv, PlaceInv, GuardInv, CachedInv, [Next]_vars
             PROVE  CachedInv'
  OBVIOUS
<1> USE NamesAssumption
<1>s. \A q \in Requests : Scope(q) \in Scopes /\ Scope(q)' = Scope(q)
  BY ScopesFixed
<1> USE <1>s DEF Cached, MwLock, FreeMwLock
<1>w. UNCHANGED rows => Rows' = Rows
  BY DEF Rows
<1>1. ASSUME NEW r \in Requests, Lookup(r) PROVE CachedInv'
  BY <1>1, <1>w
  DEF Lookup, Goto, Tell, CachedAnswer, Up, TypeOK, AnswersInv, PlaceInv, GuardInv,
      CachedInv, Answers, Told, Refusals, locks
<1>2. ASSUME NEW r \in Requests, Lock(r) PROVE CachedInv'
  BY <1>2, <1>w
  DEF Lock, Goto, Tell, Up, TypeOK, AnswersInv, PlaceInv, GuardInv, CachedInv,
      Answers, Told, Refusals, locks
<1>3. ASSUME NEW r \in Requests, Recheck(r) PROVE CachedInv'
  BY <1>3, <1>w
  DEF Recheck, Goto, Tell, CachedAnswer, Freed, Up, TypeOK, AnswersInv, PlaceInv,
      GuardInv, CachedInv, Answers, Told, Refusals, locks
<1>4. ASSUME NEW r \in Requests, Save(r) PROVE CachedInv'
  <2>1. after[r] \in Told /\ after[r] \in Requests \cup Refusals
    BY <1>4 DEF Save, Answers, AnswersInv, Told
  <2>2. [payload |-> payload[r], answer |-> after[r]]
          \in [payload : Payloads, answer : Requests \cup Refusals]
    BY <2>1 DEF TypeOK
  <2>3. [payload |-> payload[r], answer |-> after[r]] # Nobody
    BY <2>2
  <2>4. Up => Cached(r)' # Nobody
    BY <1>4, <2>3 DEF Save, TypeOK
  <2>5. Up => \A q \in Requests : Cached(q) # Nobody => Cached(q)' # Nobody
    BY <1>4, <2>3 DEF Save, TypeOK
  <2>6. \A q \in Requests : q # r => after'[q] = after[q]
    BY <1>4 DEF Save, TypeOK
  <2>7. UNCHANGED <<missed, finished, reply, pc>> /\ finished \subseteq Requests
    BY <1>4 DEF Save, TypeOK
  <2> QED
    BY <1>4, <1>w, <2>4, <2>5, <2>6, <2>7 DEF Save, CachedInv, GuardInv, Told
<1>5. ASSUME NEW r \in Requests, Release(r) PROVE CachedInv'
  <2>1. after[r] \notin Told
    BY <1>5, RowsAreRequests DEF Release, Told, Refusals
  <2> QED
    BY <1>5, <1>w, <2>1 DEF Release, CachedInv, Told, TypeOK
<1>6. ASSUME NEW r \in Requests, FailChecks(r) PROVE CachedInv'
  BY <1>6, <1>w
  DEF FailChecks, Goto, Tell, Persist, TypeOK, AnswersInv, PlaceInv, GuardInv,
      CachedInv, Answers, Up, Told, Refusals, locks
<1>7. ASSUME NEW r \in Requests, KeyLock(r) PROVE CachedInv'
  BY <1>7, <1>w
  DEF KeyLock, Goto, Up, TypeOK, AnswersInv, PlaceInv, GuardInv, CachedInv, Answers,
      Told, Refusals, locks
<1>8. ASSUME NEW r \in Requests, Find(r) PROVE CachedInv'
  BY <1>8, <1>w
  DEF Find, FindRow, Fault, Goto, TypeOK, AnswersInv, PlaceInv, GuardInv, CachedInv,
      Answers, Up, Told, Refusals, locks
<1>9. ASSUME NEW r \in Requests, PhoneLock(r) PROVE CachedInv'
  BY <1>9, <1>w
  DEF PhoneLock, Goto, Up, TypeOK, AnswersInv, PlaceInv, GuardInv, CachedInv,
      Answers, Told, Refusals, locks
<1>10. ASSUME NEW r \in Requests, FindAgain(r) PROVE CachedInv'
  BY <1>10, <1>w
  DEF FindAgain, FindRow, Fault, Goto, TypeOK, AnswersInv, PlaceInv, GuardInv,
      CachedInv, Answers, Up, Told, Refusals, locks
<1>11. ASSUME NEW r \in Requests, Create(r) PROVE CachedInv'
  <2>1. Told \subseteq Told'
    BY <1>11, CreateRows DEF Told
  <2> QED
    BY <1>11, <2>1 DEF Create, Goto, CachedInv, TypeOK
<1>12. ASSUME NEW r \in Requests, UnlockPhone(r) PROVE CachedInv'
  BY <1>12, <1>w
  DEF UnlockPhone, Goto, Freed, Unlocked, Up, TypeOK, AnswersInv, PlaceInv,
      GuardInv, CachedInv, Answers, Told, Refusals, locks
<1>13. ASSUME NEW r \in Requests, UnlockKey(r) PROVE CachedInv'
  BY <1>13, <1>w
  DEF UnlockKey, Goto, Tell, Persist, Freed, Unlocked, Up, TypeOK, AnswersInv,
      PlaceInv, GuardInv, CachedInv, Answers, Told, Refusals, locks
<1>14. ASSUME NEW r \in Requests, Timeout(r) PROVE CachedInv'
  BY <1>14, <1>w
  DEF Timeout, Tell, Persist, Underway, TypeOK, AnswersInv, PlaceInv, GuardInv,
      CachedInv, Answers, Up, Told, Refusals, locks
<1>15. ASSUME NEW r \in Requests, Disconnect(r) PROVE CachedInv'
  BY <1>15, <1>w
  DEF Disconnect, Fault, Tell, Underway, TypeOK, AnswersInv, PlaceInv, GuardInv,
      CachedInv, Answers, Up, Told, Refusals, locks
<1>16. ASSUME NEW r \in Requests, Crash(r) PROVE CachedInv'
  BY <1>16, <1>w
  DEF Crash, Fault, Goto, Tell, Underway, Ended, Over, TypeOK, AnswersInv, PlaceInv,
      GuardInv, CachedInv, Answers, Up, Told, Refusals, locks
<1>17. ASSUME NEW s \in Scopes, ExpireMw(s) PROVE CachedInv'
  BY <1>17, <1>w
  DEF ExpireMw, RunsOut, Fault, Ended, Over, TypeOK, AnswersInv, PlaceInv, GuardInv,
      CachedInv, Answers, Up, Told, Refusals, locks
<1>18. CASE ExpireKey
  BY <1>18, <1>w
  DEF ExpireKey, RunsOut, Fault, InKeySection, TypeOK, AnswersInv, PlaceInv,
      GuardInv, CachedInv, Answers, Up, Told, Refusals, locks
<1>19. ASSUME NEW p \in Phones, ExpirePhone(p) PROVE CachedInv'
  BY <1>19, <1>w
  DEF ExpirePhone, RunsOut, Fault, InPhoneSection, TypeOK, AnswersInv, PlaceInv,
      GuardInv, CachedInv, Answers, Up, Told, Refusals, locks
<1>20. CASE RedisDown
  BY <1>20, <1>w
  DEF RedisDown, Fault, Up, TypeOK, AnswersInv, PlaceInv, GuardInv, CachedInv,
      Answers, Told, Refusals, locks
<1>21. CASE RedisUp
  BY <1>21, <1>w
  DEF RedisUp, Up, TypeOK, AnswersInv, PlaceInv, GuardInv, CachedInv, Answers, Told,
      Refusals, locks
<1>22. CASE UNCHANGED vars
  BY <1>22, <1>w
     DEF vars, locks, TypeOK, AnswersInv, PlaceInv, GuardInv, CachedInv, Answers, Up,
         Told, Refusals
<1> QED
  BY <1>1, <1>2, <1>3, <1>4, <1>5, <1>6, <1>7, <1>8, <1>9, <1>10, <1>11, <1>12,
      <1>13, <1>14, <1>15, <1>16, <1>17, <1>18, <1>19, <1>20, <1>21, <1>22
      DEF Next, Step, Expiry

LEMMA FreshInit == Init => FreshInv
BY DEF Init, FreshInv

LEMMA FreshStep == TypeOK /\ SectionInv /\ FreshInv /\ [Next]_vars => FreshInv'
<1> SUFFICES ASSUME TypeOK, SectionInv, FreshInv, [Next]_vars PROVE FreshInv'
  OBVIOUS
<1>w. UNCHANGED rows => Rows' = Rows
  BY DEF Rows
<1>1. ASSUME NEW r \in Requests, Lookup(r) PROVE FreshInv'
  BY <1>1, <1>w
  DEF Lookup, Goto, Tell, CachedAnswer, Up, TypeOK, SectionInv, FreshInv,
      InKeySection, InPhoneSection, Phone, locks
<1>2. ASSUME NEW r \in Requests, Lock(r) PROVE FreshInv'
  BY <1>2, <1>w
  DEF Lock, Goto, Tell, Up, TypeOK, SectionInv, FreshInv, InKeySection,
      InPhoneSection, Phone, locks
<1>3. ASSUME NEW r \in Requests, Recheck(r) PROVE FreshInv'
  BY <1>3, <1>w
  DEF Recheck, Goto, Tell, CachedAnswer, Freed, Up, TypeOK, SectionInv, FreshInv,
      InKeySection, InPhoneSection, Phone, locks
<1>4. ASSUME NEW r \in Requests, Save(r) PROVE FreshInv'
  BY <1>4, <1>w
  DEF Save, Up, TypeOK, SectionInv, FreshInv, InKeySection, InPhoneSection, Phone,
      locks
<1>5. ASSUME NEW r \in Requests, Release(r) PROVE FreshInv'
  BY <1>5, <1>w
  DEF Release, Freed, Up, TypeOK, SectionInv, FreshInv, InKeySection,
      InPhoneSection, Phone, locks
<1>6. ASSUME NEW r \in Requests, FailChecks(r) PROVE FreshInv'
  BY <1>6, <1>w
  DEF FailChecks, Goto, Tell, Persist, TypeOK, SectionInv, FreshInv, InKeySection,
      InPhoneSection, Phone, locks
<1>7. ASSUME NEW r \in Requests, KeyLock(r) PROVE FreshInv'
  BY <1>7, <1>w
  DEF KeyLock, Goto, Up, TypeOK, SectionInv, FreshInv, InKeySection, InPhoneSection,
      Phone, locks
<1>8. ASSUME NEW r \in Requests, Find(r) PROVE FreshInv'
  BY <1>8, <1>w
  DEF Find, FindRow, Fault, Goto, TypeOK, SectionInv, FreshInv, InKeySection,
      InPhoneSection, Phone, locks
<1>9. ASSUME NEW r \in Requests, PhoneLock(r) PROVE FreshInv'
  BY <1>9, <1>w
  DEF PhoneLock, Goto, Up, TypeOK, SectionInv, FreshInv, InKeySection,
      InPhoneSection, Phone, locks
<1>10. ASSUME NEW r \in Requests, FindAgain(r) PROVE FreshInv'
  <2>1. "stale" \notin missed' => UNCHANGED missed /\ (pc'[r] = "create" => rows = <<>>)
    <3>1. PICK n \in 0 .. Len(rows) :
             /\ n = Len(rows) \/ "stale" \in missed'
             /\ n = Len(rows) => UNCHANGED missed
             /\ n > 0 => pc'[r] = "unlockPhone"
      BY <1>10 DEF FindAgain, FindRow, Goto, TypeOK
    <3>2. Len(rows) = 0 => rows = <<>>
      BY EmptySeq DEF TypeOK
    <3> QED
      BY <3>1, <3>2
  <2>2. /\ \A x \in Requests \ {r} : pc'[x] = pc[x]
        /\ missed \subseteq missed'
        /\ UNCHANGED <<rows, payload>>
    BY <1>10 DEF FindAgain, FindRow, Goto, TypeOK
  <2>3. rows = <<>> => Rows = {}
    BY DEF Rows
  <2> QED
    BY <1>w, <2>1, <2>2, <2>3 DEF FreshInv, Phone
<1>11. ASSUME NEW r \in Requests, Create(r) PROVE FreshInv'
  <2>1. Rows' \subseteq Rows \cup {r}
    BY <1>11, CreateRows
  <2>2. /\ UNCHANGED <<missed, payload>>
        /\ pc' = [pc EXCEPT ![r] = "unlockPhone"]
        /\ pc[r] = "create"
    BY <1>11 DEF Create, Goto
  <2>3. SUFFICES ASSUME NEW q \in Requests, pc'[q] = "create", "stale" \notin missed
                 PROVE  /\ "key" \notin missed => rows' = <<>>
                        /\ "phone" \notin missed => \A x \in Rows' : Phone(x)' # Phone(q)'
    BY <2>2 DEF FreshInv
  <2>4. q # r /\ pc[q] = "create"
    BY <2>2, <2>3 DEF TypeOK
  <2>5. "key" \in missed
    BY <2>2, <2>4 DEF SectionInv, InKeySection
  <2>6. "phone" \notin missed => Phone(q) # Phone(r)
    BY <2>2, <2>4 DEF SectionInv, InPhoneSection
  <2>7. "phone" \notin missed => \A x \in Rows : Phone(x) # Phone(q)
    BY <2>3, <2>4 DEF FreshInv
  <2> QED
    BY <2>1, <2>2, <2>5, <2>6, <2>7 DEF Phone
<1>12. ASSUME NEW r \in Requests, UnlockPhone(r) PROVE FreshInv'
  BY <1>12, <1>w
  DEF UnlockPhone, Goto, Freed, Unlocked, Up, TypeOK, SectionInv, FreshInv,
      InKeySection, InPhoneSection, Phone, locks
<1>13. ASSUME NEW r \in Requests, UnlockKey(r) PROVE FreshInv'
  BY <1>13, <1>w
  DEF UnlockKey, Goto, Tell, Persist, Freed, Unlocked, Up, TypeOK, SectionInv,
      FreshInv, InKeySection, InPhoneSection, Phone, locks
<1>14. ASSUME NEW r \in Requests, Timeout(r) PROVE FreshInv'
  BY <1>14, <1>w
  DEF Timeout, Tell, Persist, Underway, TypeOK, SectionInv, FreshInv, InKeySection,
      InPhoneSection, Phone, locks
<1>15. ASSUME NEW r \in Requests, Disconnect(r) PROVE FreshInv'
  BY <1>15, <1>w
  DEF Disconnect, Fault, Tell, Underway, TypeOK, SectionInv, FreshInv, InKeySection,
      InPhoneSection, Phone, locks
<1>16. ASSUME NEW r \in Requests, Crash(r) PROVE FreshInv'
  BY <1>16, <1>w
  DEF Crash, Fault, Goto, Tell, Underway, Ended, Over, TypeOK, SectionInv, FreshInv,
      InKeySection, InPhoneSection, Phone, locks
<1>17. ASSUME NEW s \in Scopes, ExpireMw(s) PROVE FreshInv'
  BY <1>17, <1>w
  DEF ExpireMw, RunsOut, Fault, Ended, Over, TypeOK, SectionInv, FreshInv,
      InKeySection, InPhoneSection, Phone, locks
<1>18. CASE ExpireKey
  BY <1>18, <1>w
  DEF ExpireKey, RunsOut, Fault, InKeySection, TypeOK, SectionInv, FreshInv,
      InPhoneSection, Phone, locks
<1>19. ASSUME NEW p \in Phones, ExpirePhone(p) PROVE FreshInv'
  BY <1>19, <1>w
  DEF ExpirePhone, RunsOut, Fault, InPhoneSection, TypeOK, SectionInv, FreshInv,
      InKeySection, Phone, locks
<1>20. CASE RedisDown
  BY <1>20, <1>w
  DEF RedisDown, Fault, Up, TypeOK, SectionInv, FreshInv, InKeySection,
      InPhoneSection, Phone, locks
<1>21. CASE RedisUp
  BY <1>21, <1>w
  DEF RedisUp, Up, TypeOK, SectionInv, FreshInv, InKeySection, InPhoneSection,
      Phone, locks
<1>22. CASE UNCHANGED vars
  BY <1>22, <1>w
     DEF vars, locks, TypeOK, SectionInv, FreshInv, InKeySection, InPhoneSection, Phone
<1> QED
  BY <1>1, <1>2, <1>3, <1>4, <1>5, <1>6, <1>7, <1>8, <1>9, <1>10, <1>11, <1>12,
      <1>13, <1>14, <1>15, <1>16, <1>17, <1>18, <1>19, <1>20, <1>21, <1>22
      DEF Next, Step, Expiry

----------------------------------------------------------------------------
(* One row per key *)

LEMMA OneRowInit == Init => OneRowPerKey
BY DEF Init, OneRowPerKey

LEMMA OneRowStep ==
    TypeOK /\ FreshInv /\ OneRowPerKey /\ [Next]_vars => OneRowPerKey'
<1> SUFFICES ASSUME TypeOK, FreshInv, OneRowPerKey, [Next]_vars PROVE OneRowPerKey'
  OBVIOUS
<1>1. missed \subseteq missed' /\ UNCHANGED payload
  BY DEF Next, Step, Expiry, vars, Lookup, Lock, Recheck, Save, Release, FailChecks,
    KeyLock, Find, PhoneLock, FindAgain, FindRow, Create, UnlockPhone, UnlockKey,
    Timeout, Disconnect, Crash, ExpireMw, ExpireKey, ExpirePhone, RunsOut, RedisDown,
    RedisUp
<1>2. CASE UNCHANGED rows
  BY <1>1, <1>2 DEF OneRowPerKey, Rows, Phone
<1>3. ASSUME NEW r \in Requests, Create(r) PROVE OneRowPerKey'
  <2>1. CASE UNCHANGED rows
    BY <1>2, <2>1
  <2>2. CASE Rows' = Rows \cup {r} /\ Len(rows') = Len(rows) + 1
    <3>1. pc[r] = "create" /\ UNCHANGED missed
      BY <1>3 DEF Create
    <3>2. SUFFICES ASSUME Len(rows') > 1, "stale" \notin missed
                   PROVE  /\ "key" \in missed
                          /\ \/ "phone" \in missed
                             \/ \E x, y \in Rows' : Phone(x)' # Phone(y)'
      BY <3>1 DEF OneRowPerKey
    <3>3. Len(rows) \in Nat /\ Len(rows) > 0
      BY <2>2, <3>2, LenProperties DEF TypeOK
    <3>4. rows # <<>>
      BY <3>3
    <3>5. "key" \in missed
      BY <3>1, <3>2, <3>4 DEF FreshInv
    <3>6. rows[1] \in Rows
      BY <3>3, RowRead DEF TypeOK
    <3>7. "phone" \notin missed => Phone(rows[1]) # Phone(r)
      BY <3>1, <3>2, <3>6 DEF FreshInv
    <3>8. \A x : Phone(x)' = Phone(x)
      BY <1>1 DEF Phone
    <3> QED
      BY <2>2, <3>5, <3>6, <3>7, <3>8
  <2> QED
    BY <1>3, <2>1, <2>2, CreateRows
<1> QED
  BY <1>2, <1>3 DEF Next, Step, Expiry, vars, Lookup, Lock, Recheck, Save, Release,
    FailChecks, KeyLock, Find, PhoneLock, FindAgain, UnlockPhone, UnlockKey,
    Timeout, Disconnect, Crash, ExpireMw, ExpireKey, ExpirePhone, RedisDown, RedisUp

----------------------------------------------------------------------------
(* Keys reused for another body *)

LEMMA ReuseInit == Init => ReuseInv
BY DEF Init, ReuseInv, Rows

\* An excuse lasts.
LEMMA ExcusedStays ==
    ASSUME TypeOK, PlaceInv, [Next]_vars, NEW x \in Requests, Excused(x)
    PROVE  Excused(x)'
<1> USE NamesAssumption
<1>1. ASSUME NEW r \in Requests, Lookup(r) PROVE Excused(x)'
  BY <1>1
  DEF Lookup, Goto, Tell, CachedAnswer, Up, TypeOK, PlaceInv, Excused, Stranded,
      Over, locks
<1>2. ASSUME NEW r \in Requests, Lock(r) PROVE Excused(x)'
  BY <1>2
  DEF Lock, Goto, Tell, Up, TypeOK, PlaceInv, Excused, Stranded, Over, locks
<1>3. ASSUME NEW r \in Requests, Recheck(r) PROVE Excused(x)'
  BY <1>3
  DEF Recheck, Goto, Tell, CachedAnswer, Freed, Up, TypeOK, PlaceInv, Excused,
      Stranded, Over, locks
<1>4. ASSUME NEW r \in Requests, Save(r) PROVE Excused(x)'
  BY <1>4
  DEF Save, Up, TypeOK, PlaceInv, Excused, Stranded, Over, locks
<1>5. ASSUME NEW r \in Requests, Release(r) PROVE Excused(x)'
  BY <1>5
  DEF Release, Freed, Up, TypeOK, PlaceInv, Excused, Stranded, Over, locks
<1>6. ASSUME NEW r \in Requests, FailChecks(r) PROVE Excused(x)'
  BY <1>6
  DEF FailChecks, Goto, Tell, Persist, TypeOK, PlaceInv, Excused, Stranded, Over,
      locks
<1>7. ASSUME NEW r \in Requests, KeyLock(r) PROVE Excused(x)'
  BY <1>7
  DEF KeyLock, Goto, Up, TypeOK, PlaceInv, Excused, Stranded, Over, locks
<1>8. ASSUME NEW r \in Requests, Find(r) PROVE Excused(x)'
  BY <1>8
  DEF Find, FindRow, Fault, Goto, TypeOK, PlaceInv, Excused, Stranded, Over, locks
<1>9. ASSUME NEW r \in Requests, PhoneLock(r) PROVE Excused(x)'
  BY <1>9
  DEF PhoneLock, Goto, Up, TypeOK, PlaceInv, Excused, Stranded, Over, locks
<1>10. ASSUME NEW r \in Requests, FindAgain(r) PROVE Excused(x)'
  BY <1>10
  DEF FindAgain, FindRow, Fault, Goto, TypeOK, PlaceInv, Excused, Stranded, Over,
      locks
<1>11. ASSUME NEW r \in Requests, Create(r) PROVE Excused(x)'
  BY <1>11
  DEF Create, Goto, TypeOK, PlaceInv, Excused, Stranded, Over, locks
<1>12. ASSUME NEW r \in Requests, UnlockPhone(r) PROVE Excused(x)'
  BY <1>12
  DEF UnlockPhone, Goto, Freed, Unlocked, Up, TypeOK, PlaceInv, Excused, Stranded,
      Over, locks
<1>13. ASSUME NEW r \in Requests, UnlockKey(r) PROVE Excused(x)'
  BY <1>13
  DEF UnlockKey, Goto, Tell, Persist, Freed, Unlocked, Up, TypeOK, PlaceInv,
      Excused, Stranded, Over, locks
<1>14. ASSUME NEW r \in Requests, Timeout(r) PROVE Excused(x)'
  BY <1>14
  DEF Timeout, Tell, Persist, Underway, TypeOK, PlaceInv, Excused, Stranded, Over,
      locks
<1>15. ASSUME NEW r \in Requests, Disconnect(r) PROVE Excused(x)'
  BY <1>15
  DEF Disconnect, Fault, Tell, Underway, TypeOK, PlaceInv, Excused, Stranded, Over,
      locks
<1>16. ASSUME NEW r \in Requests, Crash(r) PROVE Excused(x)'
  BY <1>16
  DEF Crash, Fault, Goto, Tell, Underway, Ended, Over, TypeOK, PlaceInv, Excused,
      Stranded, locks
<1>17. ASSUME NEW s \in Scopes, ExpireMw(s) PROVE Excused(x)'
  BY <1>17
  DEF ExpireMw, RunsOut, Fault, Ended, Over, TypeOK, PlaceInv, Excused, Stranded,
      locks
<1>18. CASE ExpireKey
  BY <1>18
  DEF ExpireKey, RunsOut, Fault, InKeySection, TypeOK, PlaceInv, Excused, Stranded,
      Over, locks
<1>19. ASSUME NEW p \in Phones, ExpirePhone(p) PROVE Excused(x)'
  BY <1>19
  DEF ExpirePhone, RunsOut, Fault, InPhoneSection, TypeOK, PlaceInv, Excused,
      Stranded, Over, locks
<1>20. CASE RedisDown
  BY <1>20
  DEF RedisDown, Fault, Up, TypeOK, PlaceInv, Excused, Stranded, Over, locks
<1>21. CASE RedisUp
  BY <1>21
  DEF RedisUp, Up, TypeOK, PlaceInv, Excused, Stranded, Over, locks
<1>22. CASE UNCHANGED vars
  BY <1>22 DEF vars, locks, TypeOK, PlaceInv, Excused, Stranded, Over, locks
<1> QED
  BY <1>1, <1>2, <1>3, <1>4, <1>5, <1>6, <1>7, <1>8, <1>9, <1>10, <1>11, <1>12,
      <1>13, <1>14, <1>15, <1>16, <1>17, <1>18, <1>19, <1>20, <1>21, <1>22
      DEF Next, Step, Expiry

LEMMA ReuseStep ==
    /\ TypeOK /\ AnswersInv /\ PlaceInv /\ GuardInv /\ MiddlewareInv /\ CachedInv /\ ReuseInv
    /\ [Next]_vars
    => ReuseInv'
<1> SUFFICES ASSUME TypeOK, AnswersInv, PlaceInv, GuardInv, MiddlewareInv,
                    CachedInv, ReuseInv, [Next]_vars
             PROVE  ReuseInv'
  OBVIOUS
<1> USE NamesAssumption
<1>s. \A q \in Requests : Scope(q) \in Scopes /\ Scope(q)' = Scope(q)
  BY ScopesFixed
<1> USE <1>s DEF Cached, MwLock, FreeMwLock
<1>w. UNCHANGED rows => Rows' = Rows
  BY DEF Rows
<1>x. \A x \in Rows : x \in Requests /\ (~Excused(x)' => ~Excused(x))
  BY RowsAreRequests, ExcusedStays
<1>m. UNCHANGED payload /\ \A x, r \in Requests : Reused(x, r)' = Reused(x, r)
  BY DEF Next, Step, Expiry, vars, Lookup, Lock, Recheck, Save, Release, FailChecks,
    KeyLock, Find, PhoneLock, FindAgain, Create, UnlockPhone, UnlockKey, Timeout,
    Disconnect, Crash, ExpireMw, ExpireKey, ExpirePhone, RedisDown, RedisUp,
    Reused
<1>1. ASSUME NEW r \in Requests, Lookup(r) PROVE ReuseInv'
  BY <1>1, <1>w, <1>x, <1>m
  DEF Lookup, Goto, Tell, CachedAnswer, Up, TypeOK, AnswersInv, PlaceInv, ReuseInv,
      Refusals, locks
<1>2. ASSUME NEW r \in Requests, Lock(r) PROVE ReuseInv'
  BY <1>2, <1>w, <1>x, <1>m
  DEF Lock, Goto, Tell, Up, TypeOK, AnswersInv, PlaceInv, ReuseInv, Refusals, locks
<1>3. ASSUME NEW r \in Requests, Recheck(r) PROVE ReuseInv'
  BY <1>3, <1>w, <1>x, <1>m
  DEF Recheck, Goto, Tell, CachedAnswer, Freed, Up, TypeOK, AnswersInv, PlaceInv,
      ReuseInv, Refusals, locks
<1>4. ASSUME NEW r \in Requests, Save(r) PROVE ReuseInv'
  <2>1. SUFFICES ASSUME NEW q \in Requests, NEW x \in Rows, Reused(x, q), ~Excused(x)
                 PROVE  /\ reply'[q] # x
                        /\ after'[q] # x
                        /\ Cached(q)' # Nobody /\ Cached(q)'.payload = payload[q]
                             => Cached(q)'.answer # x
    BY <1>4, <1>w, <1>x, <1>m DEF Save, ReuseInv
  <2>2. /\ reply[q] # x /\ after[q] # x
        /\ Cached(q) # Nobody /\ Cached(q).payload = payload[q] => Cached(q).answer # x
    BY <2>1 DEF ReuseInv
  <2>3. reply'[q] # x /\ after'[q] # x
    BY <1>4, <1>x, <2>2 DEF Save, TypeOK
  <2>4. \/ Cached(q)' = Cached(q)
        \/ /\ Cached(q)' = [payload |-> payload[r], answer |-> after[r]]
           /\ Scope(q) = Scope(r)
    BY <1>4 DEF Save, TypeOK
  <2>5. payload[r] = payload[q] => Reused(x, r)
    BY <2>1 DEF Reused, Scope
  <2>6. Reused(x, r) => after[r] # x
    BY <2>1 DEF ReuseInv
  <2> QED
    BY <2>2, <2>3, <2>4, <2>5, <2>6
<1>5. ASSUME NEW r \in Requests, Release(r) PROVE ReuseInv'
  BY <1>5, <1>w, <1>x, <1>m
  DEF Release, Freed, Up, TypeOK, AnswersInv, PlaceInv, ReuseInv, Refusals, locks
<1>6. ASSUME NEW r \in Requests, FailChecks(r) PROVE ReuseInv'
  BY <1>6, <1>w, <1>x, <1>m
  DEF FailChecks, Goto, Tell, Persist, TypeOK, AnswersInv, PlaceInv, ReuseInv,
      Refusals, locks
<1>7. ASSUME NEW r \in Requests, KeyLock(r) PROVE ReuseInv'
  BY <1>7, <1>w, <1>x, <1>m
  DEF KeyLock, Goto, Up, TypeOK, AnswersInv, PlaceInv, ReuseInv, Refusals, locks
<1>8. ASSUME NEW r \in Requests, Find(r) PROVE ReuseInv'
  BY <1>8, <1>w, <1>x, <1>m
  DEF Find, FindRow, Fault, Goto, TypeOK, AnswersInv, PlaceInv, ReuseInv, Refusals,
      locks
<1>9. ASSUME NEW r \in Requests, PhoneLock(r) PROVE ReuseInv'
  BY <1>9, <1>w, <1>x, <1>m
  DEF PhoneLock, Goto, Up, TypeOK, AnswersInv, PlaceInv, ReuseInv, Refusals, locks
<1>10. ASSUME NEW r \in Requests, FindAgain(r) PROVE ReuseInv'
  BY <1>10, <1>w, <1>x, <1>m
  DEF FindAgain, FindRow, Fault, Goto, TypeOK, AnswersInv, PlaceInv, ReuseInv,
      Refusals, locks
<1>11. ASSUME NEW r \in Requests, Create(r) PROVE ReuseInv'
  <2>1. Rows' \subseteq Rows \cup {r} /\ UNCHANGED <<reply, after, cache, payload>>
    BY <1>11, CreateRows DEF Create
  <2>2. r \notin Rows
    BY <1>11 DEF Create, PlaceInv
  <2>3. \A q \in Requests : reply[q] # r /\ after[q] # r
    BY <2>2 DEF AnswersInv, Told
  <2>4. \A q \in Requests : Cached(q) # Nobody => Cached(q).answer # r
    BY <2>2 DEF AnswersInv, Told
  <2> QED
    BY <1>x, <1>m, <2>1, <2>3, <2>4 DEF ReuseInv
<1>12. ASSUME NEW r \in Requests, UnlockPhone(r) PROVE ReuseInv'
  BY <1>12, <1>w, <1>x, <1>m
  DEF UnlockPhone, Goto, Freed, Unlocked, Up, TypeOK, AnswersInv, PlaceInv,
      ReuseInv, Refusals, locks
<1>13. ASSUME NEW r \in Requests, UnlockKey(r) PROVE ReuseInv'
  <2>1. SUFFICES ASSUME NEW q \in Requests, NEW x \in Rows, Reused(x, q),
                        ~Excused(x), ~Excused(x)'
                 PROVE  reply'[q] # x /\ after'[q] # x
    BY <1>13, <1>w, <1>x, <1>m DEF UnlockKey, ReuseInv
  <2>2. reply[q] # x /\ after[q] # x /\ x \in Requests
    BY <1>x, <2>1 DEF ReuseInv
  <2>3. SUFFICES ASSUME q = r, result[r] = x, r \notin finished
                 PROVE  FALSE
    BY <1>13, <2>2 DEF UnlockKey, Tell, Persist, Unlocked, TypeOK, PlaceInv, Refusals
  <2>4. missed \cap {"mw", "redis"} = {}
    BY <2>1 DEF Excused
  <2>5. r \in guarded /\ x \in guarded
    BY <1>13, <2>2, <2>4 DEF UnlockKey, GuardInv
  <2>6. MwLock(r) = r /\ Cached(r) = Nobody
    BY <1>13, <2>3, <2>4, <2>5 DEF UnlockKey, MiddlewareInv, Stranded
  <2>7. x # r /\ pc[x] # "dead" /\ ~Stranded(x) /\ reply[x] # "gone"
    BY <2>1, <2>3 DEF Excused, Reused
  <2>8. x \in finished /\ after[x] = "none"
    BY <2>1, <2>2, <2>3, <2>4, <2>5, <2>6, <2>7 DEF MiddlewareInv, Reused
  <2>9. after[x] \notin Told
    BY <2>8, RowsAreRequests DEF Told, Refusals
  <2> QED
    BY <2>1, <2>3, <2>4, <2>6, <2>7, <2>8, <2>9 DEF CachedInv, Reused
<1>14. ASSUME NEW r \in Requests, Timeout(r) PROVE ReuseInv'
  BY <1>14, <1>w, <1>x, <1>m
  DEF Timeout, Tell, Persist, Underway, TypeOK, AnswersInv, PlaceInv, ReuseInv,
      Refusals, locks
<1>15. ASSUME NEW r \in Requests, Disconnect(r) PROVE ReuseInv'
  BY <1>15, <1>w, <1>x, <1>m
  DEF Disconnect, Fault, Tell, Underway, TypeOK, AnswersInv, PlaceInv, ReuseInv,
      Refusals, locks
<1>16. ASSUME NEW r \in Requests, Crash(r) PROVE ReuseInv'
  BY <1>16, <1>w, <1>x, <1>m
  DEF Crash, Fault, Goto, Tell, Underway, Ended, Over, TypeOK, AnswersInv, PlaceInv,
      ReuseInv, Refusals, locks
<1>17. ASSUME NEW s \in Scopes, ExpireMw(s) PROVE ReuseInv'
  BY <1>17, <1>w, <1>x, <1>m
  DEF ExpireMw, RunsOut, Fault, Ended, Over, TypeOK, AnswersInv, PlaceInv, ReuseInv,
      Refusals, locks
<1>18. CASE ExpireKey
  BY <1>18, <1>w, <1>x, <1>m
  DEF ExpireKey, RunsOut, Fault, InKeySection, TypeOK, AnswersInv, PlaceInv,
      ReuseInv, Refusals, locks
<1>19. ASSUME NEW p \in Phones, ExpirePhone(p) PROVE ReuseInv'
  BY <1>19, <1>w, <1>x, <1>m
  DEF ExpirePhone, RunsOut, Fault, InPhoneSection, TypeOK, AnswersInv, PlaceInv,
      ReuseInv, Refusals, locks
<1>20. CASE RedisDown
  BY <1>20, <1>w, <1>x, <1>m
  DEF RedisDown, Fault, Up, TypeOK, AnswersInv, PlaceInv, ReuseInv, Refusals, locks
<1>21. CASE RedisUp
  BY <1>21, <1>w, <1>x, <1>m
  DEF RedisUp, Up, TypeOK, AnswersInv, PlaceInv, ReuseInv, Refusals, locks
<1>22. CASE UNCHANGED vars
  BY <1>22, <1>w, <1>x, <1>m
     DEF vars, locks, TypeOK, AnswersInv, PlaceInv, ReuseInv, Refusals
<1> QED
  BY <1>1, <1>2, <1>3, <1>4, <1>5, <1>6, <1>7, <1>8, <1>9, <1>10, <1>11, <1>12,
      <1>13, <1>14, <1>15, <1>16, <1>17, <1>18, <1>19, <1>20, <1>21, <1>22
      DEF Next, Step, Expiry

----------------------------------------------------------------------------
(* The theorems *)

LEMMA Invariance == Spec => []IInv
<1>1. Init => IInv
  BY TypeInit, AnswersInit, PlaceInit, GuardInit, SectionInit, FreshInit, HeldInit,
     MiddlewareInit, CachedInit, ReuseInit, OneRowInit DEF IInv
<1>2. IInv /\ [Next]_vars => IInv'
  BY TypeStep, AnswersStep, PlaceStep, GuardStep, SectionStep, FreshStep, HeldStep,
     MiddlewareStep, CachedStep, ReuseStep, OneRowStep DEF IInv
<1> QED
  BY <1>1, <1>2, PTL DEF Spec

\* Every variable of the middleware, the locks and the table keeps its type.
THEOREM TypeCorrect == Spec => []TypeOK
<1>1. IInv => TypeOK
  BY DEF IInv
<1> QED
  BY <1>1, Invariance, PTL

\* However many requests and retries come under one key, a second row takes a
\* read that missed the first, or the key's lock running out under its owner
\* together with the phone's lock or with a body for another phone number.
THEOREM AtMostOneRow == Spec => []OneRowPerKey
<1>1. IInv => OneRowPerKey
  BY DEF IInv
<1> QED
  BY <1>1, Invariance, PTL

\* Within its scope a request is told of a transaction with another body only
\* after a client left, a process died, an answer that was never cached, an outage
\* of Redis or a middleware lock that ran out.
THEOREM OwnTransactionTold == Spec => []ReuseRefused
<1>1. IInv => ReuseRefused
  BY RowsAreRequests DEF IInv, ReuseInv, ReuseRefused, Reused, Excused, Stranded
<1> QED
  BY <1>1, Invariance, PTL

\* A request that has ended holds none of the three locks, save the exempt cases
\* LocksReturned names.
THEOREM NoLockLeftBehind == Spec => []LocksReturned
<1>1. IInv => LocksReturned
  BY NamesAssumption
  DEF IInv, TypeOK, PlaceInv, HeldInv, LocksReturned, MwLock, Ended, Over, InKeySection,
      InPhoneSection
<1> QED
  BY <1>1, Invariance, PTL

\* A cached answer is not replaced, unless the middleware's lock ran out under
\* its owner: the lock is held from the second look at the cache to the SET.
THEOREM CachedAnswerStays == Spec => CacheKept
<1>1. IInv /\ [Next]_vars =>
         [\A s \in Scopes :
            cache[s] # Nobody /\ cache'[s] # cache[s] => "mw" \in missed]_vars
  <2> SUFFICES ASSUME IInv, [Next]_vars, NEW s \in Scopes,
                      cache[s] # Nobody, cache'[s] # cache[s]
               PROVE  "mw" \in missed
    OBVIOUS
  <2>1. PICK r \in Requests : Save(r)
    BY DEF Next, Step, Expiry, vars, Lookup, Lock, Recheck, Release, FailChecks,
      KeyLock, Find, PhoneLock, FindAgain, Create, UnlockPhone, UnlockKey, Timeout,
      Disconnect, Crash, ExpireMw, ExpireKey, ExpirePhone, RedisDown, RedisUp
  <2>2. /\ after[r] \notin {"none", "release"}
        /\ r \in finished /\ r \in guarded /\ pc[r] # "dead"
    BY <2>1, NamesAssumption
    DEF Save, Answers, Refusals, IInv, TypeOK, PlaceInv
  <2>3. Scope(r) = s
    BY <2>1 DEF Save, IInv, TypeOK
  <2> QED
    BY <2>2, <2>3 DEF IInv, MiddlewareInv, PlaceInv, Stranded, Cached
<1> QED
  BY <1>1, Invariance, PTL DEF Spec, CacheKept

\* The requests under a key implement one idempotent operation: it is performed
\* once, only an operation that was performed is named in an answer, and an
\* answer is final; a second one takes a time limit that was missed.
THEOREM OperationImplemented == Spec => ImplementsOperation
<1> DEFINE late == missed \cap {"key", "stale"} # {}
<1>1. Init => Operation!Init
  <2> SUFFICES ASSUME Init PROVE Operation!Init
    OBVIOUS
  <2>1. ~late /\ Rows = {} /\ reply = [r \in Requests |-> "none"]
    BY DEF Init, Rows
  <2>2. late = FALSE
    BY <2>1, Zenon
  <2> QED
    BY <2>1, <2>2, Zenon DEF Operation!Init
<1>2. IInv /\ [Next]_vars => [Operation!Next]_<<Rows, reply, late>>
  <2> SUFFICES ASSUME IInv, [Next]_vars
               PROVE  Operation!Next \/ UNCHANGED <<Rows, reply, late>>
    OBVIOUS
  <2>l. UNCHANGED missed => UNCHANGED late
    OBVIOUS
  <2>1. ASSUME UNCHANGED <<rows, reply>>, missed \subseteq missed'
        PROVE  Operation!Next \/ UNCHANGED <<Rows, reply, late>>
    <3>1. UNCHANGED <<Rows, reply>>
      BY <2>1 DEF Rows
    <3>2. CASE late'
      <4>1. late' = TRUE
        BY <3>2, Zenon
      <4> QED
        BY <3>1, <4>1, Zenon DEF Operation!Next, Operation!Miss
    <3>3. CASE ~late'
      <4>1. ~late
        BY <2>1, <3>3
      <4>2. late' = late
        BY <3>3, <4>1, Zenon
      <4> QED
        BY <3>1, <4>2, Zenon
    <3> QED
      BY <3>2, <3>3
  <2>2. ASSUME NEW r \in Requests, NEW a \in Told, Tell(r, a), UNCHANGED <<rows, missed>>
        PROVE  Operation!Next \/ UNCHANGED <<Rows, reply, late>>
    <3>1. UNCHANGED <<Rows, late>>
      BY <2>2, <2>l DEF Rows
    <3>2. CASE reply[r] = "none"
      <4>1. reply' = [reply EXCEPT ![r] = a]
        BY <2>2, <3>2 DEF Tell
      <4>2. Operation!Answer(r)
        BY <3>1, <3>2, <4>1, Zenon DEF Operation!Answer, Told
      <4> QED
        BY <4>2 DEF Operation!Next
    <3>3. CASE reply[r] # "none"
      <4>1. UNCHANGED reply
        BY <2>2, <3>3 DEF Tell, IInv, TypeOK
      <4> QED
        BY <3>1, <4>1
    <3> QED
      BY <3>2, <3>3
  <2>3. ASSUME NEW r \in Requests, Create(r)
        PROVE  Operation!Next \/ UNCHANGED <<Rows, reply, late>>
    <3>1. TypeOK /\ UNCHANGED <<reply, missed>>
      BY <2>3 DEF IInv, Create
    <3>2. CASE UNCHANGED rows
      BY <2>1, <3>1, <3>2
    <3>3. CASE Rows' = Rows \cup {r}
      <4>1. r \notin Rows
        BY <2>3 DEF IInv, PlaceInv, Create
      <4>2. Rows = {} \/ late
        BY <2>3 DEF IInv, FreshInv, Create, Rows
      <4>3. UNCHANGED late
        BY <2>l, <3>1
      <4>4. Operation!Perform(r)
        BY <3>1, <3>3, <4>1, <4>2, <4>3, Zenon DEF Operation!Perform
      <4> QED
        BY <4>4 DEF Operation!Next
    <3> QED
      BY <2>3, <3>1, <3>2, <3>3, CreateRows
  <2>4. \A r \in Requests : Cached(r) # Nobody => CachedAnswer(r) \in Told
    BY ScopesFixed DEF IInv, AnswersInv, CachedAnswer, Cached, Told, Refusals
  <2>5. Refusals \subseteq Told /\ {"error", "conflict", "gone"} \subseteq Refusals
    BY DEF Told, Refusals
  <2>6. ASSUME NEW r \in Requests, UnlockKey(r)
        PROVE  Operation!Next \/ UNCHANGED <<Rows, reply, late>>
    <3>1. CASE UNCHANGED reply
      BY <2>1, <2>6, <3>1 DEF UnlockKey
    <3>2. CASE Tell(r, Unlocked(keyLock, r))
      <4>1. Unlocked(keyLock, r) \in Told
        BY <2>5, <2>6 DEF UnlockKey, Unlocked, IInv, AnswersInv, PlaceInv, Told
      <4> QED
        BY <2>2, <2>6, <3>2, <4>1 DEF UnlockKey
    <3> QED
      BY <2>6, <3>1, <3>2 DEF UnlockKey
  <2>7. ASSUME NEW r \in Requests,
               Lookup(r) \/ Lock(r) \/ Recheck(r) \/ FailChecks(r)
        PROVE  Operation!Next \/ UNCHANGED <<Rows, reply, late>>
    <3>1. CASE UNCHANGED reply
      BY <2>1, <2>7, <3>1 DEF Lookup, Lock, Recheck, FailChecks
    <3>2. CASE \E a \in Told : Tell(r, a)
      BY <2>2, <2>7, <3>2 DEF Lookup, Lock, Recheck, FailChecks
    <3> QED
      BY <2>4, <2>5, <2>7, <3>1, <3>2 DEF Lookup, Lock, Recheck, FailChecks
  <2>8. ASSUME NEW r \in Requests, Timeout(r) \/ Disconnect(r) \/ Crash(r)
        PROVE  Operation!Next \/ UNCHANGED <<Rows, reply, late>>
    BY <2>2, <2>5, <2>8 DEF Timeout, Disconnect, Crash
  <2>9. CASE \/ \E r \in Requests : Save(r) \/ Release(r) \/ KeyLock(r) \/ Find(r)
                                    \/ PhoneLock(r) \/ FindAgain(r) \/ UnlockPhone(r)
             \/ Expiry \/ RedisDown \/ RedisUp \/ UNCHANGED vars
    <3>1. UNCHANGED <<rows, reply>>
      BY <2>9 DEF Save, Release, KeyLock, Find, FindRow, PhoneLock, FindAgain, UnlockPhone,
        Expiry, ExpireMw, ExpireKey, ExpirePhone, RunsOut, RedisDown, RedisUp, vars
    <3>2. missed \subseteq missed'
      BY <2>9 DEF Save, Release, KeyLock, Find, FindRow, PhoneLock, FindAgain, UnlockPhone,
        Expiry, ExpireMw, ExpireKey, ExpirePhone, RunsOut, RedisDown, RedisUp, vars
    <3> QED
      BY <2>1, <3>1, <3>2
  <2> QED
    BY <2>3, <2>6, <2>7, <2>8, <2>9 DEF Next, Step
<1> QED
  BY <1>1, <1>2, Invariance, PTL DEF Spec, ImplementsOperation, Operation!Spec
=============================================================================
