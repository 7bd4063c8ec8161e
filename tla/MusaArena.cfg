SPECIFICATION Spec
CONSTANTS
  Stream = {s1, s2}
  Impl = {i1, i2}
  None = None
  Granule = 2
  NumBins = 2
  MaxMem = 8
  InitialChunk = 6
  InitialGrowth = 4
  MaxDead = 6
  MaxExtend = 3
  NextPowerOfTwo = TRUE
  SizeMax = 63
  BackpedalMin = 4
  Base <- MCBase
  Request <- MCRequest
SYMMETRY MCSymmetry
INVARIANTS
  ArenaInv
  FullyCoalesced
  WithinBudget
  InUseExact
  WasteBounded
  WalkIsCoalesced
PROPERTIES
  BestFit
  InUseUntouched
