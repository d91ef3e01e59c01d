CONSTANTS
  o1 = o1
  o2 = o2
  c1 = c1
  c2 = c2
  m1 = m1
  m2 = m2
  k1 = k1
  k2 = k2
  r1 = r1
  Admin = admin
SPECIFICATION Spec
PROPERTIES
  PlacedOrdersAreFinished
  CancelTakesEffect
  MarkedStockSettles
CHECK_DEADLOCK FALSE
