SPECIFICATION Spec
CONSTANTS
  Handles = {h1, h2}
  NoHandle = NoHandle
  MaxFaults = 3
  MaxAttempts = 2
  MaxBackoff = 3
CHECK_DEADLOCK FALSE
INVARIANTS
  OneOpen
  ChannelInv
PROPERTIES
  CloseLeavesNothing
  Recovers
