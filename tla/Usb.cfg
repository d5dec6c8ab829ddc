SPECIFICATION Spec
CONSTANTS
  Slots = 3
  EventSlots = 3
  SeqCount = 2
  Eps = {"in"}
  Requests = {"configure", "unconfigure", "descriptor", "max_lun", "address", "other"}
  Bufs = {"a"}
  Speeds = {"high"}
  PortFlags = {"PRC", "CSC"}
  MaxConnects = 1
  MaxAbandoned = 1
  MaxReconf = 0
INVARIANTS TypeOK ControlInOrder BulkInOrder ControlExact SpeedKnown ToldFirst NobodyForgotten
CONSTRAINT ShortAfterGivingUp
