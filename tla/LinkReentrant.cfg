SPECIFICATION Spec
CONSTANTS
  Size = 2
  Op <- MCOpTwo
  HandlerMay <- CallsAndPolls
  MaxCalls = 2
  MaxDepth = 3
  MaxRx = 2
  MaxSent <- SentReentrant
INVARIANTS
  PendingOnlyInCall
  EventsSafeUntilOverflow
  StrangersHaveCause
PROPERTIES
  NoHandlerInCall
  NotOfflineInCall
  QueueKept
CHECK_DEADLOCK FALSE
