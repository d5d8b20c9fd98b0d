SPECIFICATION RelaySpec
CONSTANTS
  Approvals = {"a1"}
  Questions = {"q1"}
  Shapes <- ItemShapes
  Customs <- Typed
  OptionIds <- TwoOptionIds
  MaxAsked = 1
  MaxDrops = 1
  MaxWirings = 2
  MaxTimeouts = 1
CHECK_DEADLOCK FALSE
INVARIANTS
  ShownOnce
  PendingTrue
  VerdictCarried
