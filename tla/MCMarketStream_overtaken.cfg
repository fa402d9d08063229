SPECIFICATION Spec
CONSTANTS
  None = None
  PipeCapacity = 2
  Capacity = 1
  ReplayWindow = 1
  PongDeadline = 1
  HeartbeatInterval = 1
  Subscribes <- MCSubscribes
  Unsubscribes <- MCUnsubscribes
  MaxSeq = 3
  MaxMessages = 3
  MaxTime = 1
  Workloads <- MCWorkloads
INVARIANT LastFrameCurrent
CHECK_DEADLOCK FALSE
