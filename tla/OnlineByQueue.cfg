SPECIFICATION Spec
CONSTANTS
  Size = 2
  Op <- MCOp
  HandlerMay <- Nothing
  MaxCalls = 1
  MaxDepth = 3
  MaxRx = 2
  MaxSent <- SentOnline
PROPERTY OnlineOnlyByPacket
