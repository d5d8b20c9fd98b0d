SPECIFICATION Spec
CONSTANTS
  s1 = s1
  s2 = s2
  r1 = r1
  r2 = r2
  o1 = o1
  Sessions <- MCSessions
  Reconciles <- MCReconciles
  Owners <- MCOwners
  MaxMirrors = 2
  MaxHandles = 2
  MaxTurns = 1
INVARIANTS
  RegistryTrue
  FirstMirrorKept
SYMMETRY Sym
CHECK_DEADLOCK FALSE
