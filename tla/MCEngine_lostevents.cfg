SPECIFICATION EngineSpec
CONSTANTS
  None = None
  MaxOrders = 2
  Users <- MCUsers
  Price <- MCPrice
  MaxStopChainDepth = 2
  MaxCommands = 2
  MaxCrashes = 1
  MaxMarket = 0
  Inputs <- TradeInputs
INVARIANT EveryFillLogged
