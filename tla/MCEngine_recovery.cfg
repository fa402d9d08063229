SPECIFICATION EngineSpec
CONSTANTS
  None = None
  MaxOrders = 3
  Users <- MCUsers
  Price <- MCPrice
  MaxStopChainDepth = 2
  MaxCommands = 4
  MaxCrashes = 1
  MaxMarket = 0
  Inputs <- RecoveryInputs
INVARIANT ReplayIdentical
