----------------------------- MODULE MCTimelock -----------------------------
(***************************************************************************)
(* Timelock with three addresses and four lists of governance admins: none *)
(* of them, one of them twice, two of them, and all three.                 *)
(***************************************************************************)
EXTENDS Timelock

CONSTANTS a1, a2, a3

Accounts == {a1, a2, a3}

Lists == {<<>>, <<a1, a1>>, <<a2, a3>>, <<a1, a2, a3>>}
=============================================================================
