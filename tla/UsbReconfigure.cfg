SPECIFICATION Spec
CONSTANTS
  Slots = 3
  EventSlots = 3
  SeqCount = 2
  Eps = {"in"}
  Requests = {"configure", "descriptor", "max_lun"}
  Bufs = {"a"}
  Speeds = {"high"}
  PortFlags = {"PRC", "CSC"}
  MaxConnects = 1
  MaxAbandoned = 0
  MaxReconf = 1
INVARIANTS BulkInOrder
