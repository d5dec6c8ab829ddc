SPECIFICATION FairSpec
CONSTANTS
  LunCnt = 2
  NumSectors <- BootSectors
  Ro <- BootRo
  LunType <- BootTypes
  LunPart <- BootParts
  Cbws <- EjectCbws
  BlkLen = 2
  CbwLen = 1
  CswLen = 1
  ReplyLen = 1
  EpMax = 8
  MaxPacket = 2
  U32 = 64
  MaxQueued = 3
  IoSmall = 2
  IoBig = 4
  IoBigFrom = 10
  Faults = {"sleep", "combo"}
  MaxFaults = 0
INVARIANTS AllUnmountedExact PartitionRight
PROPERTIES NoUnsafeExit MediumReady EjectEnds
