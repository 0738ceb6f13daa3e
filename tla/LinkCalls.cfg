SPECIFICATION Spec
CONSTANTS
  Size = 2
  Op <- MCOp
  HandlerMay <- Nothing
  MaxCalls = 3
  MaxDepth = 3
  MaxRx = 3
  MaxSent <- SentCalls
INVARIANTS
  StrangersHaveCause
  AnswerUsedOnce
