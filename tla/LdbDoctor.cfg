SPECIFICATION Spec
CONSTANTS
  d1 = d1
  d2 = d2
  d3 = d3
  s1 = s1
  s2 = s2
  Sectors = {s1, s2}
  None = None
  NumPieces = 2
  Deals = {d1, d2, d3}
  PieceOf <- MCPieceOf
  SectorOf <- MCSectorOf
  DirectDeals = {d2}
  Limit = 2
  MaxEvents = 2
INVARIANTS
  TypeOK
PROPERTIES
  SectorDbSettles
  FlagsSettle
CHECK_DEADLOCK FALSE
