CONSTANTS
  x1 = x1
  x2 = x2
  x3 = x3
  u1 = u1
  u2 = u2
  Checkouts <- Calls
  Users <- TwoUsers
  Buyer <- MCBuyer
  Limits = {1}
  PerUser = 0
  MayDie = FALSE
SPECIFICATION Spec
INVARIANT LimitIsKept
CHECK_DEADLOCK FALSE
