---------------------------- MODULE MCFulfilment ----------------------------
(***************************************************************************)
(* Small instances of Fulfilment.  The variant m1 is marked, u is not; c1  *)
(* places o1 and c2 places o2.                                             *)
(***************************************************************************)
EXTENDS Fulfilment, TLC

CONSTANTS o1, o2, c1, c2, m1, u, k1, k2

OneOrder    == {o1}
TwoOrders   == {o1, o2}
MCCustomers == {c1, c2}
OwnerOfOne  == o1 :> c1
OwnerOfTwo  == OwnerOfOne @@ (o2 :> c2)

(* c1 buys a marked and an unmarked piece, c2 only the marked one. *)
MCVariants  == {m1, u}
OneMarked   == {m1}
OneCode     == k1 :> m1
TwoCodes    == (k1 :> m1) @@ (k2 :> m1)
MixedCarts  == (c1 :> (m1 :> 1 @@ u :> 1)) @@ (c2 :> (m1 :> 1 @@ u :> 0))
MixedStock  == (m1 :> 0) @@ (u :> 2)

(* Both customers buy one piece of the only variant. *)
SingleCarts == [c \in MCCustomers |-> (m1 :> 1)]
NoStock     == m1 :> 0

(* Requests are interchangeable: nothing tells one from another. *)
RequestSymmetry == Permutations(Requests)
=============================================================================
