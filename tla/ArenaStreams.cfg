SPECIFICATION StreamSpec
CONSTANTS
  Stream = {s1, s2}
  Impl = {i1, i2}
  None = None
  Granule = 2
  NumBins = 2
  MaxMem = 6
  InitialChunk = 6
  InitialGrowth = 4
  MaxDead = 2
  MaxExtend = 6
  NextPowerOfTwo = TRUE
  SizeMax = 63
  BackpedalMin = 4
  SyncMayFail = FALSE
  Base <- MCBase
  Request <- MCRequest
SYMMETRY MCSymmetry
INVARIANTS
  ReuseIsOrdered
  NothingLeftBehind
  ArenaInv
  BudgetExact
PROPERTIES
  ImplementsMemory
