SPECIFICATION Spec
CONSTANTS
  Clients = {c1, c2}
  Sessions = {s1}
  None = None
  MaxSeq = 0
  MaxWork = 0
  Approvals = {a1, a2}
  Questions = {q1}
  MaxRequests = 2
  FailClosed = FALSE
CHECK_DEADLOCK FALSE
INVARIANTS
  BridgeInv
PROPERTIES
  OneVerdict
  DrainSettles
