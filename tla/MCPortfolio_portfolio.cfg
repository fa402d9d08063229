SPECIFICATION Spec
CONSTANTS
  Null = Null
  Customers <- MCCustomers
  Client = "ann"
  Maker = "mm"
  Slots <- MCSlots
  StartBalances <- MCStartBalances
  FaucetMax = 1
  TakerFeeBps = 5000
  MakerFeeBps = 2500
  Prices <- MCPrices
  Amounts <- MCAmounts
  ProofRequests <- MCProofRequests
  PageLimit = 1
  MaxDeposits = 2
  MaxTrades = 3
  Activities <- MCActivities
INVARIANTS HistoryRuns PnlIsFifo ProofsHold
CHECK_DEADLOCK FALSE
