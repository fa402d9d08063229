SPECIFICATION AdminSpec
CONSTANTS
  None = None
  MaxTasks = 2
  MaxConns = 2
  MaxRequests = 3
  Traders <- MCTraders
  Symbols <- MCSymbols
  MaxBreaks = 1
  MaxDeaths = 1
  Workloads <- MCWorkloads
INVARIANTS HaltHolds AnswersOwnRequest CancelAllReaches
PROPERTY JobsEnd
CHECK_DEADLOCK FALSE
