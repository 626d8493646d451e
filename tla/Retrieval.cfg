SPECIFICATION Spec
CONSTANTS
  c1 = c1
  c2 = c2
  p1 = p1
  p2 = p2
  b1 = b1
  b2 = b2
  d1 = d1
  d2 = d2
  d3 = d3
  d4 = d4
  s1 = s1
  s2 = s2
  t = t
  Callers = {c1, c2}
  Pieces = {p1, p2}
  Blocks = {b1, b2}
  Deals = {d1, d2, d3, d4}
  PieceOf <- MCPieceOf
  SectorOf <- MCSectorOf
  StripeOf <- MCStripeOf
  Registered = {d1, d2, d3}
  Complete = {p1}
  Empty = {b2}
  Identity = {b2}
  DataOffset <- MCDataOffset
  HeaderLen = 1
  PieceLen = 5
  None = None
  MaxCalls = 2
  MaxEvents = 1
SYMMETRY Symmetry
INVARIANTS TypeOK ServedIfPossible RightBlock
CHECK_DEADLOCK FALSE
