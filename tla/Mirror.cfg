SPECIFICATION Spec
CONSTANTS
  MaxSeq = 5
  PageSize = 2
  MaxDrops = 1
  MaxTries = 2
CHECK_DEADLOCK FALSE
INVARIANTS
  MirrorExact
  MirrorInv
PROPERTIES
  BootstrapEnds
