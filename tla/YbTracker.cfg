SPECIFICATION Spec
CONSTANTS
  Miners = {m1, m2}
  Pieces = {p1, p2}
  None = None
  BatchSize = 1
  MaxTime = 2
  MaxOps = 3
  MaxFaults = 1
SYMMETRY Symmetry
INVARIANTS
  TypeOK
  FlagsAreTracked
  MissesExplained
CHECK_DEADLOCK FALSE
