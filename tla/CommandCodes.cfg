SPECIFICATION Spec
INVARIANTS
  OnlyOwnAnswer
  OthersAsk
CHECK_DEADLOCK FALSE
