----------------------------- MODULE MCDisputes -----------------------------
(***************************************************************************)
(* Disputes about one transaction, with two requests and two engines.  No  *)
(* symmetry, because the run checks liveness.                              *)
(***************************************************************************)
EXTENDS Disputes
=============================================================================
