SPECIFICATION FairSpec
CONSTANTS
  Size = 2
  Op <- MCOp
  HandlerMay <- Polls
  MaxCalls = 1
  MaxDepth = 3
  MaxRx = 2
  MaxSent <- SentEvents
INVARIANTS
  TypeOK
  EventsAccountedUntilOverrun
PROPERTIES
  DeliveryKept
  PacketsBringOnline
