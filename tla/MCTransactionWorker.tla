------------------------ MODULE MCTransactionWorker ------------------------
(***************************************************************************)
(* Small instances of TransactionWorker for TLC.  Workers and requests are *)
(* interchangeable; symmetry is used for the safety runs only.             *)
(***************************************************************************)
EXTENDS TransactionWorker, TLC

Symmetry == Permutations(Workers) \cup Permutations(Requests)
=============================================================================
