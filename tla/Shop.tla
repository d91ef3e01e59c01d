-------------------------------- MODULE Shop --------------------------------
(***************************************************************************)
(* What customers and the office do at once: promo codes, carts,           *)
(* wishlists, reviews, the tree of categories, marking codes, the products *)
(* with their cached copies, the product list, and the rules of            *)
(* promotions.  They share nothing here, so a behaviour is one of a single *)
(* component; where another is at work, nobody has used a promo code yet.  *)
(***************************************************************************)
EXTENDS PromoUsage

CONSTANTS
  Calls,
  CartIds, Variants, Stock, MaxQuantity, Quantities, Carts0,  \* Cart
  Wishes,                                                     \* Wishlist
  Customers, Ratings, MaxTexts,                               \* Reviews
  Cats, Readers,                                              \* CategoryTree
  Codes, MaxRows, Given, Holders,                             \* MarkingAdmin
  MaxEdits,                                                   \* Catalog
  Products, Colors, Sizes, Prices, Model, ColorOf, PriceOf,   \* ProductFilter
  Editors, Goods, Rates, Category, Terms, Values, Edits, MaxUses  \* PromoRules

VARIABLES
  part,                                     \* the component at work
  owners, coupons, item,                    \* Cart
  wishes, available,                        \* Wishlist
  review, shown, listing, texts, approvals, \* Reviews
  parent, tree,                             \* CategoryTree
  row, pieces, lastId, uncounted,           \* MarkingAdmin
  product, copy, edits, unsaid, past,       \* Catalog
  visible, variants,                        \* ProductFilter
  offer, tags, basket, entered, uses, kept, since, \* PromoRules
  request,   \* the requests of the component at work
  calm       \* of Reviews, CategoryTree or Catalog

carts    == <<owners, coupons, item>>
wishing  == <<wishes, available>>
reviews  == <<review, shown, listing, texts, approvals>>
cats     == <<parent, tree>>
marking  == <<row, pieces, lastId, uncounted>>
catalog  == <<product, copy, edits, unsaid, past>>
filter   == <<visible, variants>>
rules    == <<offer, tags, basket, entered, uses, kept, since>>
all == <<part, vars, carts, wishing, reviews, cats, marking, catalog, filter, rules, request, calm>>

K == INSTANCE Cart WITH promo <- coupons, call <- request
W == INSTANCE Wishlist WITH Products <- Wishes, list <- wishes, stock <- available, call <- request
R == INSTANCE Reviews WITH Users <- Customers, call <- request
T == INSTANCE CategoryTree WITH call <- request
A == INSTANCE MarkingAdmin WITH Orders <- Holders, stock <- pieces, call <- request
G == INSTANCE Catalog WITH call <- request
F == INSTANCE ProductFilter WITH shown <- visible, stock <- variants
D == INSTANCE PromoRules WITH Calls <- Editors, Products <- Goods, promo <- offer, price <- tags,
                              cart <- basket, stored <- entered, call <- request
-----------------------------------------------------------------------------
(* The variables of a component that is not at work. *)
Off       == 0
NoCarts   == owners = Off /\ coupons = Off /\ item = Off
NoWishes  == wishes = Off /\ available = Off
NoReviews == review = Off /\ shown = Off /\ listing = Off /\ texts = Off /\ approvals = Off
NoCats    == parent = Off /\ tree = Off
NoMarking == row = Off /\ pieces = Off /\ lastId = Off /\ uncounted = Off
NoCatalog == product = Off /\ copy = Off /\ edits = Off /\ unsaid = Off /\ past = Off
NoFilter  == visible = Off /\ variants = Off
NoRules   == /\ offer = Off /\ tags = Off /\ basket = Off /\ entered = Off
             /\ uses = Off /\ kept = Off /\ since = Off
NoPromo   == Init /\ promo.limit = CHOOSE n \in Limits : TRUE

ShopInit ==
  \/ /\ part = "promo" /\ Init /\ request = Off /\ calm = Off
     /\ NoCarts /\ NoWishes /\ NoReviews /\ NoCats /\ NoMarking /\ NoCatalog /\ NoFilter /\ NoRules
  \/ /\ part = "cart" /\ K!Init /\ NoPromo /\ calm = Off
     /\ NoWishes /\ NoReviews /\ NoCats /\ NoMarking /\ NoCatalog /\ NoFilter /\ NoRules
  \/ /\ part = "wishlist" /\ W!Init /\ NoPromo /\ calm = Off
     /\ NoCarts /\ NoReviews /\ NoCats /\ NoMarking /\ NoCatalog /\ NoFilter /\ NoRules
  \/ /\ part = "reviews" /\ R!Init /\ NoPromo
     /\ NoCarts /\ NoWishes /\ NoCats /\ NoMarking /\ NoCatalog /\ NoFilter /\ NoRules
  \/ /\ part = "categories" /\ T!Init /\ NoPromo
     /\ NoCarts /\ NoWishes /\ NoReviews /\ NoMarking /\ NoCatalog /\ NoFilter /\ NoRules
  \/ /\ part = "marking" /\ A!Init /\ NoPromo /\ calm = Off
     /\ NoCarts /\ NoWishes /\ NoReviews /\ NoCats /\ NoCatalog /\ NoFilter /\ NoRules
  \/ /\ part = "catalog" /\ G!Init /\ NoPromo
     /\ NoCarts /\ NoWishes /\ NoReviews /\ NoCats /\ NoMarking /\ NoFilter /\ NoRules
  \/ /\ part = "filter" /\ F!Init /\ NoPromo /\ request = Off /\ calm = Off
     /\ NoCarts /\ NoWishes /\ NoReviews /\ NoCats /\ NoMarking /\ NoCatalog /\ NoRules
  \/ /\ part = "rules" /\ D!Init /\ NoPromo /\ calm = Off
     /\ NoCarts /\ NoWishes /\ NoReviews /\ NoCats /\ NoMarking /\ NoCatalog /\ NoFilter

ShopNext ==
  \/ /\ part = "promo" /\ Next
     /\ UNCHANGED <<part, carts, wishing, reviews, cats, marking, catalog, filter, rules, request, calm>>
  \/ /\ part = "cart" /\ K!Next
     /\ UNCHANGED <<part, vars, wishing, reviews, cats, marking, catalog, filter, rules, calm>>
  \/ /\ part = "wishlist" /\ W!Next
     /\ UNCHANGED <<part, vars, carts, reviews, cats, marking, catalog, filter, rules, calm>>
  \/ /\ part = "reviews" /\ R!Next
     /\ UNCHANGED <<part, vars, carts, wishing, cats, marking, catalog, filter, rules>>
  \/ /\ part = "categories" /\ T!Next
     /\ UNCHANGED <<part, vars, carts, wishing, reviews, marking, catalog, filter, rules>>
  \/ /\ part = "marking" /\ A!Next
     /\ UNCHANGED <<part, vars, carts, wishing, reviews, cats, catalog, filter, rules, calm>>
  \/ /\ part = "catalog" /\ G!Next
     /\ UNCHANGED <<part, vars, carts, wishing, reviews, cats, marking, filter, rules>>
  \/ /\ part = "filter" /\ F!Next
     /\ UNCHANGED <<part, vars, carts, wishing, reviews, cats, marking, catalog, rules, request, calm>>
  \/ /\ part = "rules" /\ D!Next
     /\ UNCHANGED <<part, vars, carts, wishing, reviews, cats, marking, catalog, filter, calm>>

ShopSpec == ShopInit /\ [][ShopNext]_all
-----------------------------------------------------------------------------
(* Every variable of the component at work keeps its type. *)
TypesOK ==
  /\ part = "promo" => TypeOK
  /\ part = "cart" => K!TypeOK
  /\ part = "wishlist" => W!TypeOK
  /\ part = "reviews" => R!TypeOK
  /\ part = "categories" => T!TypeOK
  /\ part = "marking" => A!TypeOK
  /\ part = "catalog" => G!TypeOK
  /\ part = "filter" => F!TypeOK
  /\ part = "rules" => D!TypeOK

(* Wherever a merge of carts stops, what it has read in the guest cart is  *)
(* in one of the carts until somebody takes it away, unless two merges get *)
(* into each other (mergeCarts).                                           *)
MergeLosesNothing == part = "cart" => K!MergeLosesNothing

(* An addItem that has answered without an error is in its cart in full,   *)
(* unless somebody who had read the row before has written since.          *)
AdditionsAreKept == part = "cart" => K!AdditionsAreKept

(* A text the shop shows was approved as it is, and with one request at a  *)
(* time the rating on the product is that of its approved reviews.         *)
OnlyApprovedIsShown == part = "reviews" => R!OnlyApprovedIsShown

(* With one request at a time every category hangs from a root. *)
EveryCategoryIsInTheTree == part = "categories" => T!EveryCategoryIsInTheTree

(* When the office and the orders have finished, the stock of the variant  *)
(* is the number of its codes in stock, unless the last of them to write   *)
(* codes has not recounted them.                                           *)
StockIsCounted == part = "marking" => A!StockIsCounted

(* With one request at a time the cached copy of a product is the product, *)
(* but for its stock, and the product has the variants last given to it,   *)
(* unless an edit has ended half way.                                      *)
CopyIsCurrent == part = "catalog" => G!CopyIsCurrent

(* The number beside a filter is the number of cards that choosing it      *)
(* shows, and the flat list shows the models of the grouped one.           *)
FacetsPredictTheListing == part = "filter" => F!FacetsPredictTheListing

(* While neither the promotion nor the cart nor a price has changed, the   *)
(* order gives the discount the cart has shown, unless an item was in the  *)
(* cart at an old price, a guest had used the code up, or the promotion is *)
(* limited to categories alone; and it never gives more than the items     *)
(* cost.                                                                   *)
CheckoutKeepsThePromise == part = "rules" => D!CheckoutKeepsThePromise
=============================================================================
