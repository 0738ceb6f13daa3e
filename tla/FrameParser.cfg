SPECIFICATION FairSpec
CONSTANTS
  Base = 4
  Dollar = 2
  Bang = 3
  Xor <- MCXor
  Payload <- MCPayload
  Reply <- MCReply
  MaxFrames = 3
  MaxFaults = 1
INVARIANTS
  TypeOK
  PauseResyncs
  NothingOutstanding
PROPERTIES
  HangsOnlyDamaged
  ChannelSpec
  FramesDealtWith
CHECK_DEADLOCK FALSE
