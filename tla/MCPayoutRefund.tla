--------------------------- MODULE MCPayoutRefund ---------------------------
(***************************************************************************)
(* Small instances of PayoutRefund for TLC.                                *)
(***************************************************************************)
EXTENDS PayoutRefund, TLC

CONSTANT t1

\* Every delivery is of the job of t1.
MCRowOf == [d \in Deliveries |-> t1]
=============================================================================
