---------------------------- MODULE ProductFilter ----------------------------
(***************************************************************************)
(* The catalog as it is searched: the listing by model (findAllGrouped),   *)
(* the flat listing of the back office (findAll), and the facets beside    *)
(* the listing, each counted by a query of its own.  Every query joins the *)
(* products with their variants and filters the pairs.                     *)
(*                                                                         *)
(* Category, search, price and activity are one more filter on products;   *)
(* the price stands for them.                                              *)
(***************************************************************************)
EXTENDS Naturals, FiniteSets

CONSTANTS Products, Colors, Sizes, Prices,
          Model,     \* [Products -> the modelId, or the product where it is NULL]
          ColorOf, PriceOf \* [Products -> ...], what a product is created with

VARIABLES
  shown,   \* [Products -> BOOLEAN]: active and visible
  stock    \* [Products -> [Sizes -> "none", "out" or "in"]], the variants

vars == <<shown, stock>>

TypeOK == /\ shown \in [Products -> BOOLEAN]
          /\ stock \in [Products -> [Sizes -> {"none", "out", "in"}]]

(* Drafts without variants. *)
Init == /\ shown = [p \in Products |-> FALSE]
        /\ stock = [p \in Products |-> [z \in Sizes |-> "none"]]

(* update and bulkUpdateStatus of a product, the stock of a variant, and   *)
(* its variants as a whole.                                                *)
Show(p, s) == shown' = [shown EXCEPT ![p] = s] /\ UNCHANGED stock
SetStock(p, z, s) ==
  /\ stock[p][z] # "none"
  /\ stock' = [stock EXCEPT ![p][z] = s] /\ UNCHANGED shown
ReplaceVariants(p, zs) ==
  /\ stock' = [stock EXCEPT ![p] = [z \in Sizes |-> IF z \in zs THEN "in" ELSE "none"]]
  /\ UNCHANGED shown

Next == \E p \in Products :
          \/ \E s \in BOOLEAN : Show(p, s)
          \/ \E z \in Sizes, s \in {"in", "out"} : SetStock(p, z, s)
          \/ \E zs \in SUBSET Sizes : ReplaceVariants(p, zs)

Spec == Init /\ [][Next]_vars
-----------------------------------------------------------------------------
(* ProductQueryDto; an empty set filters nothing. *)
Query == [colors : SUBSET Colors, sizes : SUBSET Sizes, inStock : BOOLEAN, price : Prices]

(* LEFT JOIN product_variants: a product without variants is joined with   *)
(* NULL, which no condition on a variant lets through.                     *)
Null == "null"
Joined(p) == LET zs == {z \in Sizes : stock[p][z] # "none"}
             IN  IF zs = {} THEN {Null} ELSE zs

(* buildRawFilters: the conditions on the product, then those on the       *)
(* variant when they are included; one field may be left out.              *)
ProductMatches(q, p, without) ==
  /\ shown[p]
  /\ without = "price" \/ PriceOf[p] <= q.price
  /\ without = "colors" \/ q.colors = {} \/ ColorOf[p] \in q.colors

VariantMatches(q, p, z, without) ==
  /\ without = "sizes" \/ q.sizes = {} \/ z \in q.sizes
  /\ q.inStock => z # Null /\ stock[p][z] = "in"

Pairs(q, without) ==
  UNION {{p} \X {z \in Joined(p) : VariantMatches(q, p, z, without)} :
           p \in {x \in Products : ProductMatches(q, x, without)}}
-----------------------------------------------------------------------------
(* findAllGrouped: the groups with a pair that matches; a card is one of   *)
(* the products of the group that match as products, the best sold one.    *)
Groups(q) == {Model[pz[1]] : pz \in Pairs(q, "nothing")}
Candidates(q, g) == {p \in Products : ProductMatches(q, p, "nothing") /\ Model[p] = g}

(* getColorFacet and getSizeFacet: distinct groups per value, 0 for a      *)
(* value that is not in the answer.                                        *)
ColorCount(q, c) ==
  Cardinality({Model[pz[1]] : pz \in {x \in Pairs(q, "colors") : ColorOf[x[1]] = c}})

(* Mutation: products are counted and not cards. *)
SizeCountOfProducts(q, z) == Cardinality({pz \in Pairs(q, "sizes") : pz[2] = z})

SizeCount(q, z) == Cardinality({Model[pz[1]] : pz \in {x \in Pairs(q, "sizes") : x[2] = z}})

(* getPriceRange: the products of the range, 0 to 0 when there are none.   *)
PricesInRange(q) == {PriceOf[pz[1]] : pz \in Pairs(q, "price")}

(* findAll, which writes the same filters once more in TypeORM: a product  *)
(* with a variant that passes.  It does not ask for isVisible.             *)
Flat(q, p) ==
  /\ PriceOf[p] <= q.price
  /\ q.colors = {} \/ ColorOf[p] \in q.colors
  /\ \E z \in Joined(p) :
       /\ q.sizes = {} \/ z \in q.sizes
       /\ q.inStock => z # Null /\ stock[p][z] = "in"

(* attachColorSiblings *)
Siblings(p) == {s \in Products \ {p} : Model[s] = Model[p] /\ shown[s]}
-----------------------------------------------------------------------------
(* The number beside a color or a size is the number of cards the visitor  *)
(* sees when choosing it alone, whatever else was chosen: the facets and   *)
(* the listing count models, see the same variants (one that has the size  *)
(* and is in stock, never one for each), and a facet leaves out the        *)
(* choices of its own field.  A maximum price leaves something exactly     *)
(* when the range of prices reaches down to it.  The flat listing, written *)
(* a second time, finds products of the same models; and every card that   *)
(* is counted has a product to show.                                       *)
FacetsPredictTheListing ==
  \A q \in Query :
    /\ \A c \in Colors : ColorCount(q, c) = Cardinality(Groups([q EXCEPT !.colors = {c}]))
    /\ \A z \in Sizes : SizeCount(q, z) = Cardinality(Groups([q EXCEPT !.sizes = {z}]))
    /\ \A m \in Prices : Groups([q EXCEPT !.price = m]) # {} <=> \E x \in PricesInRange(q) : x <= m
    /\ Groups(q) = {Model[p] : p \in {x \in Products : shown[x] /\ Flat(q, x)}}
    /\ \A g \in Groups(q) :
         /\ Candidates(q, g) # {}
         /\ \A p \in Candidates(q, g) :
              {p} \cup Siblings(p) = {s \in Products : Model[s] = g /\ shown[s]}
=============================================================================
