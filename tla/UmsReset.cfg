SPECIFICATION Spec
CONSTANTS
  LunCnt = 1
  NumSectors <- OneSectors
  Ro <- OneRw
  LunType <- OneSd
  LunPart <- OnePart
  Cbws <- ResetCbws
  BlkLen = 2
  CbwLen = 1
  CswLen = 1
  ReplyLen = 1
  EpMax = 8
  MaxPacket = 2
  U32 = 64
  MaxQueued = 3
  IoSmall = 2
  IoBig = 4
  IoBigFrom = 10
  Faults = {"reset"}
  MaxFaults = 1
INVARIANTS HostInSync
