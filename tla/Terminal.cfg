SPECIFICATION TerminalSpec
CONSTANTS
  o1 = o1
  o2 = o2
  Bytes <- MCBytes
  Noises <- MCNoises
  Ops <- MCOps
  MaxOutput = 2
INVARIANTS
  BoundaryExact
  TerminateHonest
PROPERTIES
  TerminateSettles
CHECK_DEADLOCK FALSE
