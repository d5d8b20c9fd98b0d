SPECIFICATION BrokerSpec
CONSTANTS
  Clients = {c1, c2}
  Sessions = {s1, s2}
  None = None
  MaxSeq = 1
  MaxWork = 1
SYMMETRY Symmetry
CHECK_DEADLOCK FALSE
INVARIANTS
  AttachmentsAgree
  HolderAttached
  ViewIsLease
  FeedExact
PROPERTIES
  ImplementsSharedSession
