------------------------- MODULE IdempotentOperation -------------------------
(***************************************************************************)
(* What an idempotency key promises, with no locks, cache or database: of  *)
(* all the requests sent under one key, one performs the operation, and    *)
(* whoever is told of an operation is told of one that was performed.  An  *)
(* answer is final.  The promise rests on time limits being kept; once     *)
(* they were not, the operation may be performed again.                    *)
(***************************************************************************)

CONSTANTS
    Requests,   \* requests sent under one Idempotency-Key
    NoAnswer,   \* a request nobody has answered yet
    Refusals    \* answers that name no operation

VARIABLES
    performed,  \* requests whose operation took effect
    told,       \* [Requests -> the answer: NoAnswer, a refusal, an operation]
    late        \* whether a time limit the promise rests on has been missed

Init ==
    /\ performed = {}
    /\ told = [r \in Requests |-> NoAnswer]
    /\ late = FALSE

Perform(r) ==
    /\ r \notin performed
    /\ performed = {} \/ late
    /\ performed' = performed \cup {r}
    /\ UNCHANGED <<told, late>>

Answer(r) ==
    /\ told[r] = NoAnswer
    /\ \E a \in performed \cup Refusals : told' = [told EXCEPT ![r] = a]
    /\ UNCHANGED <<performed, late>>

Miss ==
    /\ late' = TRUE
    /\ UNCHANGED <<performed, told>>

Next == Miss \/ \E r \in Requests : Perform(r) \/ Answer(r)

Spec == Init /\ [][Next]_<<performed, told, late>>
=============================================================================
