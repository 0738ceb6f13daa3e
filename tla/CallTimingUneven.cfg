SPECIFICATION Spec
CONSTANTS
  Tick = 500
  Wrap = 512
  Start <- MCStart
  Latencies <- MCLatencies
  MaxTurn = 3
  Waits <- UnevenWaits
  Horizon = 300
INVARIANT AnswerInTimeUsed
CHECK_DEADLOCK FALSE
