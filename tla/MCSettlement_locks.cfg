SPECIFICATION Spec
CONSTANTS
  None = None
  Orders <- OneOrders
  Ord <- OneOrd
  Users <- MCUsers
  Scale = 10000
  MakerFeeBps = 10
  TakerFeeBps = 20
  Funds = 6
  MaxRequests = 1
  MaxFailures = 1
INVARIANT LocksCoverLive
CHECK_DEADLOCK FALSE
