------------------------------- MODULE MCShop -------------------------------
(***************************************************************************)
(* Three checkouts with a code, two requests at a time on two carts, two   *)
(* products on a wishlist, two reviews, three categories, two marking      *)
(* codes, one product; three products in the list, two in a promotion.     *)
(***************************************************************************)
EXTENDS Shop, TLC

CONSTANTS r1, r2, a1, a2, a3, v1, v2, o1, o2, o3, u1, u2

MCCalls == {r1, r2}

(* Two of the three checkouts with the code are by one customer. *)
MCCheckouts == {o1, o2, o3}
MCUsers     == {u1, u2}
MCBuyer     == (o1 :> u1) @@ (o2 :> u1) @@ (o3 :> u2)

(* v1 runs out at two pieces, v2 only at the limit of a row. *)
MCCartIds  == {1, 2}
MCVariants == {v1, v2}
MCStock    == (v1 :> 2) @@ (v2 :> 6)
MCCarts0   == {v1 :> 1 @@ v2 :> 1}

MCPair == {a1, a2}
MCHolders == {o1}
MCCats == {a1, a2, a3}

(* Two products are colours of one model, the third stands alone. *)
MCProducts == {1, 2, 3}
MCModel    == (1 :> "m") @@ (2 :> "m") @@ (3 :> "r")
MCColorOf  == (1 :> "red") @@ (2 :> "blue") @@ (3 :> "red")
MCPriceOf  == (1 :> 1) @@ (2 :> 2) @@ (3 :> 1)

(* Promotions with each of the conditions and limits. *)
MCEditors  == {r1}
MCGoods    == {1, 2}
MCCategory == (1 :> "c") @@ (2 :> "d")
AllTerms   == [min |-> 0, cap |-> 0, limit |-> 0, perUser |-> 0,
               products |-> {}, categories |-> {}, exclude |-> {}]
MCEdits    == {[type |-> "percentage", value |-> 0], [type |-> "none", value |-> 150]}
MCTerms    == {[AllTerms EXCEPT !.perUser = 1, !.cap = 1, !.products = {1}, !.categories = {"d"}],
               [AllTerms EXCEPT !.limit = 1, !.min = 30, !.exclude = {1}],
               [AllTerms EXCEPT !.categories = {"c"}]}

(* Requests are interchangeable; so are two products of a wishlist, two    *)
(* customers with reviews, two marking codes and two of the categories.    *)
Symmetry == Permutations(Calls) \cup Permutations(MCPair)
=============================================================================
