------------------------ MODULE MCTransactionOutbox ------------------------
(***************************************************************************)
(* Small instances of TransactionOutbox for TLC.  Calls and processes are  *)
(* interchangeable; symmetry is used for the safety runs only.             *)
(***************************************************************************)
EXTENDS TransactionOutbox, TLC

Symmetry == Permutations(Calls) \cup Permutations(Procs)
=============================================================================
