SPECIFICATION Spec
CONSTANTS
  None = None
  Orders <- FlowOrders
  Ord <- FlowOrd
  Users <- MCUsers
  Scale = 10000
  MakerFeeBps = 10
  TakerFeeBps = 20
  Funds = 6
  MaxRequests = 3
  MaxFailures = 1
INVARIANTS SettlementTypeOK LedgerAddsUp ValueConserved EventsApply CalmLocksCoverLive
PROPERTIES EverythingSettles
CHECK_DEADLOCK FALSE
