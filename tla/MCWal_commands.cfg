SPECIFICATION WalSpec
CONSTANTS
  CountFirst = TRUE
  Cuts = {"length", "payload"}
  MaxAppends = 5
  MaxFailures = 2
  MaxWalCrashes = 3
INVARIANTS NumberedByOne
PROPERTIES Durable
CHECK_DEADLOCK FALSE
