SPECIFICATION EngineSpec
CONSTANTS
  None = None
  MaxOrders = 4
  Users <- MCUsers
  Price <- MCPrice
  MaxStopChainDepth = 2
  MaxCommands = 4
  MaxCrashes = 2
  MaxMarket = 1
  Inputs <- EngineInputs
INVARIANTS EngineSound OpenCoversLive Recovered TerminalAckIsFinal
PROPERTIES ServesAgain
