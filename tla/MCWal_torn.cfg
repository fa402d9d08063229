SPECIFICATION WalSpec
CONSTANTS
  CountFirst = TRUE
  Cuts = {"length", "payload"}
  MaxAppends = 4
  MaxFailures = 0
  MaxWalCrashes = 2
INVARIANT AckedReadable
CHECK_DEADLOCK FALSE
