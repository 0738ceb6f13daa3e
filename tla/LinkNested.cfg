SPECIFICATION BusySpec
CONSTANTS
  Size = 2
  Op <- MCOp
  HandlerMay <- Calls
  MaxCalls = 2
  MaxDepth = 6
  MaxRx = 2
  MaxSent <- SentNested
INVARIANTS
  PacketIsOwn
PROPERTIES
  CallsReturn
  QueueDrains
  QueueSpec
