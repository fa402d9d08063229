SPECIFICATION BookSpec
CONSTANTS
  None = None
  MaxOrders = 5
  Users <- MCUsers
  Price <- MCPrice
  MaxStopChainDepth = 2
  Inputs <- BookInputs
INVARIANTS TypeOK NotCrossed BookSound Conservation StopsSettled
PROPERTIES FifoKept OcoPartnerCancelled CommandTerminates
