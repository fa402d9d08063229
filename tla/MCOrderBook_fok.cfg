SPECIFICATION Spec
CONSTANTS
  None = None
  MaxOrders = 3
  Users <- MCUsers
  Price <- MCPrice
  MaxStopChainDepth = 2
  Inputs <- FokInputs
INVARIANT FokAllOrNothing
