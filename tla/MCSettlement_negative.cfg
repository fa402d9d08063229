SPECIFICATION Spec
CONSTANTS
  None = None
  Orders <- FlowOrders
  Ord <- FlowOrd
  Users <- MCUsers
  Scale = 10000
  MakerFeeBps = 10
  TakerFeeBps = 20
  Funds = 6
  MaxRequests = 2
  MaxFailures = 0
INVARIANT UnfailingLocksCover
CHECK_DEADLOCK FALSE
