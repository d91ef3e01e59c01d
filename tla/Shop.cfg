CONSTANTS
  r1 = r1
  r2 = r2
  a1 = a1
  a2 = a2
  a3 = a3
  v1 = v1
  v2 = v2
  o1 = o1
  o2 = o2
  o3 = o3
  u1 = u1
  u2 = u2
  Checkouts <- MCCheckouts
  Users <- MCUsers
  Buyer <- MCBuyer
  Limits = {0, 2}
  PerUser = 1
  MayDie = TRUE
  Calls <- MCCalls
  CartIds <- MCCartIds
  Variants <- MCVariants
  Stock <- MCStock
  MaxQuantity = 4
  Quantities = {1, 3}
  Carts0 <- MCCarts0
  Wishes <- MCPair
  Customers <- MCPair
  Ratings = {4, 5}
  MaxTexts = 2
  Cats <- MCCats
  Readers = TRUE
  Codes <- MCPair
  MaxRows = 2
  Given = {"in_stock", "sold"}
  Holders <- MCHolders
  MaxEdits = 3
  Products <- MCProducts
  Colors = {"red", "blue"}
  Sizes = {"S", "L"}
  Prices = {1, 2}
  Model <- MCModel
  ColorOf <- MCColorOf
  PriceOf <- MCPriceOf
  Editors <- MCEditors
  Goods <- MCGoods
  Rates = {10, 25}
  Category <- MCCategory
  Terms <- MCTerms
  Values = {5, 150}
  Edits <- MCEdits
  MaxUses = 1
SPECIFICATION ShopSpec
INVARIANTS
  TypesOK
  CountersAgree
  UsesAreBackedByOrders
  MergeLosesNothing
  AdditionsAreKept
  OnlyApprovedIsShown
  EveryCategoryIsInTheTree
  StockIsCounted
  CopyIsCurrent
  FacetsPredictTheListing
  CheckoutKeepsThePromise
SYMMETRY Symmetry
CHECK_DEADLOCK FALSE
