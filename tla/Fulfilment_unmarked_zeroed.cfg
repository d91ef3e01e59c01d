CONSTANTS
  o1 = o1
  o2 = o2
  c1 = c1
  c2 = c2
  m1 = m1
  u = u
  k1 = k1
  k2 = k2
  Admin = admin
  Customers <- MCCustomers
  Requests = {}
  Orders <- OneOrder
  Owner <- OwnerOfOne
  Variants <- MCVariants
  Marked <- OneMarked
  Codes = {k1, k2}
  VariantOf <- TwoCodes
  Cart0 <- MixedCarts
  Stock0 <- MixedStock
  MayThrow = FALSE
  MayDie = FALSE
SPECIFICATION Spec
INVARIANT UnmarkedStockCountsSales
CHECK_DEADLOCK FALSE
