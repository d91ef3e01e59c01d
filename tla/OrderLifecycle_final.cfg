CONSTANTS
  o1 = o1
  o2 = o2
  o3 = o3
  c1 = c1
  c2 = c2
  Admin = admin
  Requests = {r1, r2}
  Orders <- MCOrders
  Late <- MCLate
  Customers <- MCCustomers
  Owner <- MCOwner
SPECIFICATION TurnsSpec
PROPERTY CancelledIsFinal
CHECK_DEADLOCK FALSE
