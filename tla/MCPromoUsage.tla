---------------------------- MODULE MCPromoUsage ----------------------------
(* Three create calls with one code, two of them by the same customer. *)
EXTENDS PromoUsage, TLC

CONSTANTS x1, x2, x3, u1, u2

Calls     == {x1, x2, x3}
TwoUsers  == {u1, u2}
MCBuyer   == (x1 :> u1) @@ (x2 :> u1) @@ (x3 :> u2)
=============================================================================
