----------------------- MODULE MCProviderQueueControl -----------------------
(***************************************************************************)
(* Small instances of ProviderQueueControl for TLC; threads are            *)
(* interchangeable (symmetry in the safety runs only).                     *)
(***************************************************************************)
EXTENDS ProviderQueueControl, TLC

Symmetry == Permutations(Threads)
=============================================================================
