SPECIFICATION Spec
CONSTANTS
  MaxCalls = 2
  None = None
  MaxText = 3
CHECK_DEADLOCK FALSE
INVARIANTS
  FilesInv
PROPERTIES
  ReplacesOnlySeen
  ChainDrains
