SPECIFICATION Spec
CONSTANTS
  Miners = {m1}
  Pieces = {p1, p2}
  None = None
  BatchSize = 1
  MaxTime = 2
  MaxOps = 2
  MaxFaults = 0
PROPERTIES
  NewPiecesTracked
CHECK_DEADLOCK FALSE
