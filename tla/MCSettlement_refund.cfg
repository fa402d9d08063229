SPECIFICATION Spec
CONSTANTS
  None = None
  Orders <- OneOrders
  Ord <- OneOrd
  Users <- MCUsers
  Scale = 10000
  MakerFeeBps = 10
  TakerFeeBps = 20
  Funds = 6
  MaxRequests = 2
  MaxFailures = 0
INVARIANT Refunded
CHECK_DEADLOCK FALSE
