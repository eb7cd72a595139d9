------------------------ MODULE MCIdempotentRequest ------------------------
(***************************************************************************)
(* Small instances of IdempotentRequest for TLC: two bodies of one scope   *)
(* with a phone number each, so that a reused key meets another phone lock, *)
(* and a third one that another user, or the other path, sends.  Of the    *)
(* pairs of bodies there is one of each kind: a retry, a reused key, and   *)
(* the key in another scope.                                               *)
(***************************************************************************)
EXTENDS IdempotentRequest, TLC

CONSTANTS r1, r2, body1, body2, body3, phone1, phone2, here, there

TwoPhones == body1 :> phone1 @@ body2 :> phone2 @@ body3 :> phone1
TwoScopes == body1 :> here @@ body2 :> here @@ body3 :> there
Pairs == {r1 :> p[1] @@ r2 :> p[2] :
            p \in {<<body1, body1>>, <<body1, body2>>, <<body1, body3>>}}
=============================================================================
