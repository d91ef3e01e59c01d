------------------------------ MODULE Wishlist ------------------------------
(***************************************************************************)
(* The wishlist of one user: WishlistService over a list in one column of  *)
(* the row of the user, which every operation reads at its start and       *)
(* writes back as a whole.  A product may be deleted at any time; addItem  *)
(* of the cart may refuse (stock, limit, deleted product).  The order of   *)
(* the list is left out: how often it names a product is what can go wrong.*)
(***************************************************************************)
EXTENDS Naturals

CONSTANTS Calls, Products

VARIABLES
  list,    \* users.wishlist: [Products -> how often it is named]
  stock,   \* the products that still exist
  call     \* [Calls -> the state of a request]

vars == <<list, stock, call>>

Nothing == [p \in Products |-> 0]
Idle == [pc |-> "idle", op |-> "none", product |-> "none", seen |-> Nothing]
Elements(s) == {p \in Products : s[p] > 0}

(* No product is in the list twice, however requests overlap: each writes  *)
(* the list it has checked.  (An addition may be lost by that.)            *)
TypeOK ==
  /\ list \in [Products -> 0 .. 1]
  /\ stock \subseteq Products
  /\ \A r \in Calls : call[r].seen \in [Products -> 0 .. 1]

Init ==
  list = Nothing /\ stock = Products /\ call = [r \in Calls |-> Idle]
-----------------------------------------------------------------------------
(* findByIdOrFail and the check of each operation. *)
Start(r, op, p) ==
  /\ call[r].pc = "idle"
  /\ op \in {"remove", "move"} => p \in Elements(list)
  /\ call' = [call EXCEPT ![r] =
       [pc |-> CASE op = "add" -> "look" [] op = "move" -> "cart" [] OTHER -> "write",
        op |-> op, product |-> p, seen |-> list]]
  /\ UNCHANGED <<list, stock>>

(* addProduct: the product exists and was not in the list that was read. *)
Look(r) ==
  /\ call[r].pc = "look"
  /\ call' = [call EXCEPT ![r] =
       IF call[r].product \in stock \ Elements(call[r].seen) THEN [@ EXCEPT !.pc = "write"] ELSE Idle]
  /\ UNCHANGED <<list, stock>>

(* moveToCart: addItem comes first; when it throws (there is no stock, the *)
(* product is gone), the list stays.                                       *)
Move(r) ==
  /\ call[r].pc = "cart"
  /\ \/ call[r].product \in stock /\ call' = [call EXCEPT ![r].pc = "write"]
     \/ call' = [call EXCEPT ![r] = Idle]
  /\ UNCHANGED <<list, stock>>

(* push, a new list, and splice at the index that was found. *)
Written(op, p, seen) ==
  CASE op = "add"   -> [seen EXCEPT ![p] = @ + 1]
    [] op = "clear" -> Nothing
    [] OTHER        -> [seen EXCEPT ![p] = @ - 1]

Write(r) ==
  /\ call[r].pc = "write"
  /\ list' = Written(call[r].op, call[r].product, call[r].seen)
  /\ call' = [call EXCEPT ![r] = Idle]
  /\ UNCHANGED stock

(* ProductsService.delete: nobody tells the wishlists. *)
DeleteProduct(p) ==
  /\ p \in stock
  /\ stock' = stock \ {p}
  /\ UNCHANGED <<list, call>>

Next ==
  \/ \E r \in Calls :
       \/ \E op \in {"add", "remove", "move", "clear"}, p \in Products : Start(r, op, p)
       \/ Look(r) \/ Move(r) \/ Write(r)
  \/ \E p \in Products : DeleteProduct(p)

Spec == Init /\ [][Next]_vars
=============================================================================
