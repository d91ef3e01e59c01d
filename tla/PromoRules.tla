----------------------------- MODULE PromoRules -----------------------------
(***************************************************************************)
(* What a promotion is worth: PromotionsService.update and validate, the   *)
(* discount that applyPromo keeps in the cart and the one that create of   *)
(* orders computes again.  The first is of the prices kept with the items  *)
(* of the cart, the second of the prices the products have now.  How the   *)
(* uses are counted is in PromoUsage.                                      *)
(*                                                                         *)
(* Amounts are whole rubles.  An update is cut between its checks and its  *)
(* UPDATE, which writes only the fields it was sent.                       *)
(***************************************************************************)
EXTENDS Naturals, FiniteSets, Functions

CONSTANTS Products, Category,        \* Category by product
          Rates,     \* the prices the office gives
          Terms,     \* what a promotion is limited to:
                     \* [min, cap, limit, perUser, products, categories, exclude]
          Values,
          Edits,     \* the fields of an update: [type, value], "none" and 0 where not sent
          MaxUses, Calls

VARIABLES
  promo,   \* [type, value, on] and its terms, which stay
  price,   \* [Products -> the price of the variant, 0 when it is gone]
  cart,    \* [Products -> pieces]
  stored,  \* [Products -> the price kept with the item]
  uses,    \* the counters of the promotion: [all, own (of this customer)]
  kept,    \* the code in the cart: [on, own, discount] (promoCode, promoDiscount)
  call,    \* [Calls -> an update between its check and its write]
  since    \* history: the promotion, the cart or a price has changed since it was applied

vars == <<promo, price, cart, stored, uses, kept, call, since>>

Types == {"percentage", "fixed", "free_shipping"}
Idle == [pc |-> "idle", type |-> "none", value |-> 0]

TypeOK ==
  /\ promo.type \in Types /\ promo.value \in Values /\ promo.on \in BOOLEAN
  /\ price \in [Products -> Rates \cup {0}] /\ stored \in [Products -> Rates \cup {0}]
  /\ cart \in [Products -> 0 .. 1]
  /\ kept.discount \in Nat /\ (~ kept.on => kept.discount = 0)

(* create refuses a percentage over 100. *)
Init ==
  /\ promo \in [type : Types, value : Values, on : {TRUE}, terms : Terms]
  /\ promo.type = "percentage" => promo.value <= 100
  /\ price \in [Products -> Rates] /\ uses = [all |-> 0, own |-> 0]
  /\ cart = [p \in Products |-> 0] /\ stored = [p \in Products |-> 0]
  /\ kept = [on |-> FALSE, own |-> FALSE, discount |-> 0]
  /\ call = [r \in Calls |-> Idle] /\ since = FALSE
-----------------------------------------------------------------------------
AsSent(sent, now, nothing) == IF sent = nothing THEN now ELSE sent

(* The check of update, on what is sent and otherwise on the row it read.  *)
Right(type, value) ==
  ~ (AsSent(type, promo.type, "none") = "percentage" /\ AsSent(value, promo.value, 0) > 100)

Update(r, e) ==
  /\ call[r].pc = "idle"
  /\ Right(e.type, e.value)
  /\ call' = [call EXCEPT ![r] = [pc |-> "write", type |-> e.type, value |-> e.value]]
  /\ UNCHANGED <<promo, price, cart, stored, uses, kept, since>>
Write(r) ==
  /\ call[r].pc = "write"
  /\ promo' = [promo EXCEPT !.type = AsSent(call[r].type, @, "none"),
                            !.value = AsSent(call[r].value, @, 0)]
  /\ call' = [call EXCEPT ![r] = Idle] /\ since' = TRUE
  /\ UNCHANGED <<price, cart, stored, uses, kept>>

(* isActive, or the dates. *)
Switch ==
  /\ promo' = [promo EXCEPT !.on = ~ @] /\ since' = TRUE
  /\ UNCHANGED <<price, cart, stored, uses, kept, call>>

(* applyUsage of an order of this customer or of another. *)
Use(own) ==
  /\ uses.all < MaxUses
  /\ uses' = [all |-> uses.all + 1, own |-> IF own THEN uses.own + 1 ELSE uses.own]
  /\ since' = TRUE
  /\ UNCHANGED <<promo, price, cart, stored, kept, call>>

(* The office changes the price of a product or takes the variant away.    *)
SetPrice(p, c) ==
  /\ c # price[p]
  /\ price' = [price EXCEPT ![p] = c] /\ since' = TRUE
  /\ UNCHANGED <<promo, cart, stored, uses, kept, call>>
-----------------------------------------------------------------------------
Total(at, items) == SumFunctionOnSet([p \in Products |-> at[p] * cart[p]], items)

(* buildCartResponse leaves out an item whose variant is gone. *)
InCart == {p \in Products : cart[p] > 0}
Shown  == {p \in InCart : price[p] # 0}

(* getApplicableItems; checkout does not pass the category of an item. *)
Applicable(items, known) ==
  {p \in items \ promo.terms.exclude :
     IF promo.terms.products # {} THEN p \in promo.terms.products
     ELSE promo.terms.categories # {} => known /\ Category[p] \in promo.terms.categories}

Least(a, b) == IF a <= b THEN a ELSE b

(* calculateDiscount *)
Discount(at, items) ==
  CASE promo.type = "percentage" ->
         LET d == (Total(at, items) * promo.value) \div 100
         IN  IF promo.terms.cap # 0 THEN Least(d, promo.terms.cap) ELSE d
    [] promo.type = "fixed" -> Least(promo.value, Total(at, items))
    [] OTHER -> 0

(* A limit of 0 is no limit; a guest has none of his own. *)
WithinLimits(user) ==
  /\ promo.terms.limit # 0 => uses.all < promo.terms.limit
  /\ user /\ promo.terms.perUser # 0 => uses.own < promo.terms.perUser

(* validate *)
Valid(at, items, known, user) ==
  /\ promo.on /\ WithinLimits(user)
  /\ Total(at, items) >= promo.terms.min
  /\ Applicable(items, known) = {} => promo.terms.categories = {} /\ promo.terms.products = {}

(* Mutation: the discount is taken of the whole cart. *)
OrderDiscountOfAll ==
  IF Valid(price, Shown, FALSE, TRUE) THEN Discount(price, Shown) ELSE 0

(* create of orders: an invalid code gives nothing. *)
OrderDiscount ==
  IF Valid(price, Shown, FALSE, TRUE) THEN Discount(price, Applicable(Shown, FALSE)) ELSE 0
-----------------------------------------------------------------------------
(* The customer: every change of the items leaves the discount of the cart *)
(* as it is, and so do removePromo and clearCart, whose update of          *)
(* undefined changes nothing (see Cart).  addItem and updateItem keep the  *)
(* price of the variant, or of the product when the variant is gone;       *)
(* mergeCarts keeps the price that was in the cart of the guest.           *)
SetItem(p, n, c) ==
  /\ c = 0 <=> n = 0
  /\ n # cart[p] \/ c # stored[p]
  /\ cart' = [cart EXCEPT ![p] = n] /\ stored' = [stored EXCEPT ![p] = c] /\ since' = kept.on
  /\ UNCHANGED <<promo, price, uses, kept, call>>

(* applyPromo, of a customer who has signed in or of a guest, whose cart   *)
(* is his own after mergeCarts.                                            *)
ApplyPromo(user) ==
  /\ InCart # {} /\ Valid(stored, InCart, TRUE, user)
  /\ kept' = [on |-> TRUE, own |-> user,
              discount |-> Discount(stored, Applicable(InCart, TRUE))]
  /\ since' = FALSE
  /\ UNCHANGED <<promo, price, cart, stored, uses, call>>
(* calculateTotals *)
CartDiscount == Least(kept.discount, Total(price, Shown))

Next ==
  \/ \E r \in Calls : Write(r) \/ \E e \in Edits : Update(r, e)
  \/ Switch
  \/ \E mine \in BOOLEAN : Use(mine) \/ ApplyPromo(mine)
  \/ \E p \in Products, c \in Rates \cup {0} :
        SetPrice(p, c) \/ \E n \in 0 .. 1 : SetItem(p, n, c)

Spec == Init /\ [][Next]_vars
-----------------------------------------------------------------------------
OneAtATime == Cardinality(Calls) = 1
OnlyCategories == promo.terms.categories # {} /\ promo.terms.products = {}
AsPriced == \A p \in InCart : stored[p] = price[p]

(* One update at a time: the customer pays what the cart showed.  Unless   *)
(* the cart, a price, the promotion or its counters have changed since,    *)
(* create of orders finds the discount that applyPromo found, with three   *)
(* exceptions of the code: an item was in the cart at another price than   *)
(* the product has (applyPromo totals the old one, create the new one); a  *)
(* guest applied the code and has used it up as a customer; and a          *)
(* promotion limited to categories alone, which checkout never grants.     *)
(* And no order gets a discount over the price of its items, at whatever   *)
(* prices the code was applied, because a percentage over 100 cannot come  *)
(* about by changing the type and the value one after the other.  (Two     *)
(* updates at once can bring it about.)                                    *)
CheckoutKeepsThePromise ==
  OneAtATime =>
    /\ OrderDiscount <= Total(price, Shown)
    /\ kept.on /\ ~ since /\ AsPriced /\ (kept.own \/ WithinLimits(TRUE)) =>
         OrderDiscount = IF OnlyCategories THEN 0 ELSE CartDiscount
=============================================================================
