SPECIFICATION Spec
CONSTANTS
  LunCnt = 2
  NumSectors <- TwoSectors
  Ro <- TwoRo
  LunType <- TwoTypes
  LunPart <- TwoParts
  Cbws <- FaultCbws
  BlkLen = 2
  CbwLen = 1
  CswLen = 1
  ReplyLen = 1
  EpMax = 8
  MaxPacket = 2
  U32 = 64
  MaxQueued = 3
  IoSmall = 2
  IoBig = 4
  IoBigFrom = 10
  Faults = {"junk", "cbw_error", "reset", "early_reset", "in_timeout", "out_timeout",
            "in_error", "out_error", "short", "sdmmc", "reinit", "disabled"}
  MaxFaults = 2
INVARIANTS TypeOK ResidueTruthful PassMeansDone SenseInfoExact AccessAllowed
PROPERTIES MediumReady IsBlockDevice
CHECK_DEADLOCK FALSE
