SPECIFICATION Spec
CONSTANTS
  Handles = {h1, h2}
  NoHandle = NoHandle
  MaxSeq = 2
  MaxCalls = 3
  MaxDrops = 1
  MaxQueue = 2
SYMMETRY Symmetry
CHECK_DEADLOCK FALSE
INVARIANTS
  FeedInv
  NoStaleWrite
  NoOrphan
