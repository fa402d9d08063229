SPECIFICATION AdminSpec
CONSTANTS
  None = None
  MaxTasks = 2
  MaxConns = 2
  MaxRequests = 3
  Traders <- MCTraders
  Symbols <- MCSymbols
  MaxBreaks = 1
  MaxDeaths = 1
  Workloads <- MCRestart
PROPERTY EngineRefusesOrders
CHECK_DEADLOCK FALSE
