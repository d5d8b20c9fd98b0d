SPECIFICATION Spec
CONSTANTS
  MaxOut = 1
  ChildFates = {"high", "odd"}
CHECK_DEADLOCK FALSE
INVARIANTS
  ProcessInv
  RollbackLeavesNothing
PROPERTIES
  QuiescenceProven
  CommandSettles
