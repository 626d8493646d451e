CONSTANTS
  p1 = p1  p2 = p2  h1 = h1  h2 = h2  d1 = d1  d2 = d2  u1 = u1  u2 = u2
  None = None
  Pieces = {p1, p2}
  Hashes = {h1}
  Deals = {d1}
  Uuids = {u1}
  UuidOf <- MCOneDeal
  MaxCursor = 102
  MaxFaults = 1
SPECIFICATION FairSpec
PROPERTIES ImplementsPieceIndex MutexReleased
CHECK_DEADLOCK FALSE
