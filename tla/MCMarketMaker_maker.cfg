SPECIFICATION Spec
CONSTANTS
  None = None
  btc = btc
  eth = eth
  Symbols <- MCSymbols
  Mids <- MCMids
  Levels = 1
  StaleAfter = 1
  RefreshInterval = 1
  QueueCapacity = 1
  BackoffBase = 1
  BackoffMax = 2
  MaxTime = 3
  MaxEvents = 2
  MaxStarts = 2
  Workloads <- MCWorkloads
INVARIANTS QuotesNotStale OneQuoteSet
SYMMETRY MCSymmetry
CHECK_DEADLOCK FALSE
