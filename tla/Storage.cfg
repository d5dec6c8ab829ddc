SPECIFICATION FairSpec
CONSTANTS
  Kinds = {"SD", "EMMC"}
  TopSpeed = 4
  U32 = 64
  Tries = 5
  TriesAfter = 3
  MaxBlocks = 2
  Requests <- SmallRequests
  Partitions = {0, 1, 2}
INVARIANTS TypeOK ReadyHasPower
PROPERTIES SpeedFalls KeepsPromise CallReturns
CHECK_DEADLOCK FALSE
