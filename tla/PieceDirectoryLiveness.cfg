CONSTANTS
  PieceOf <- MCPieceOf
  c1 = c1  c2 = c2  c3 = c3  p1 = p1  p2 = p2  good = good  bad = bad  other = other
  None = None
  Callers = {c1, c2}
  Pieces = {p1, p2}
  Deals = {good, bad, other}
  Contents <- MCContents
  Data <- MCData
  NumCPU = 1
  PodsiMinConcurrency = 2
  PodsiMaxConcurrency = 3
  Broken = Broken
  Indexed = {p2}
  Stored = {good, bad}
  Flaky = TRUE
  ThrottleSize = 1
  MaxCalls = 2
SPECIFICATION Spec
PROPERTIES CallsReturn
