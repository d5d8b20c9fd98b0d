SPECIFICATION Spec
CONSTANTS
  Inits = {i1, i2}
  Daemons = {d1}
  Wrong = Wrong
  None = None
  Torn = Torn
  MaxFailures = 2
  MaxHellos = 3
  MaxProofs = 3
  MaxCrashes = 1
CHECK_DEADLOCK FALSE
INVARIANTS
  AdmitsOnce
  ClosedLeavesNothing
PROPERTIES
  ConfigSurvives
  LimitCloses
