SPECIFICATION FairSpec
CONSTANTS
  h1 = h1
  h2 = h2
  Handler = {h1, h2}
  Registers <- MCRegisters
  PingEvery = 0
  OfflineAfter = 1
  DetectDelay = 1
  LatencyLimit = 2
  MaxAge = 2
  MaxWire = 2
  MaxTalk = 2
  MaxFaults = 2
INVARIANTS
  TypeOK
  MasksTold
PROPERTIES
  LatencyFromItsPing
  EspFound
  EspMissed
  SilenceRepairs
CHECK_DEADLOCK FALSE
