SPECIFICATION Spec
CONSTANTS
  Tick = 500
  Wrap = 512
  Start <- MCStart
  Latencies <- MCLatencies
  MaxTurn = 3
  Waits <- EvenWaits
  Horizon = 300
INVARIANTS
  AnswerInTimeUsed
  WaitBounded
PROPERTY CallEnds
CHECK_DEADLOCK FALSE
