SPECIFICATION Spec
CONSTANTS
  p1 = p1
  RecordSets <- AllOrNone
  Callers = {c1, c2}
  Pieces = {p1}
  Hashes = {h1, h2}
  Deals = {d1, d2}
  None = None
  DealPiece <- OnePiece
  Threads = 2
  MaxCalls = 3
  MaxFaults = 1
INVARIANTS
  TypeOK
  MetadataOutlives
  HashesReachable
  AckedIndexKept
PROPERTIES
  CallsServed
CHECK_DEADLOCK FALSE
