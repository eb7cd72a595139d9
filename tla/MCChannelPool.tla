--------------------------- MODULE MCChannelPool ---------------------------
(***************************************************************************)
(* Small instances of ChannelPool for TLC: two calls of one replica, so    *)
(* that one waits for the other, against a call of a second replica.       *)
(***************************************************************************)
EXTENDS ChannelPool, TLC

CONSTANTS p1, p2, c1, c2, c3

TwoAndOne == c1 :> p1 @@ c2 :> p1 @@ c3 :> p2
=============================================================================
