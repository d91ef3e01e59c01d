CONSTANTS
  o1 = o1
  o2 = o2
  c1 = c1
  c2 = c2
  m1 = m1
  u = u
  k1 = k1
  k2 = k2
  Admin = admin
  Customers <- MCCustomers
  Requests = {r1}
  Orders <- TwoOrders
  Owner <- OwnerOfTwo
  Variants <- MCVariants
  Marked <- OneMarked
  Codes = {k1}
  VariantOf <- OneCode
  Cart0 <- MixedCarts
  Stock0 <- MixedStock
  MayThrow = TRUE
  MayDie = TRUE
SPECIFICATION Spec
INVARIANTS
  TypeOK
  CodesFollowOrders
  AttachedCodesAreHeld
  MarkedStockIsNotOverstated
CHECK_DEADLOCK FALSE
