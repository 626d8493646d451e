CONSTANTS
  Sectors = {s1, s2}
  Matching = {s1}
  SMax = 2
  P1Max = 1
  MaxRuns = 2
SPECIFICATION Spec
INVARIANTS TypeOK SlotsAccounted OnlyVerifiedStored
PROPERTIES EarlyEndExplained UnsealedKeptUntilStored EveryJobEnds
