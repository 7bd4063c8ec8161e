SPECIFICATION StreamSpec
CONSTANTS
  Stream = {s1, s2}
  Impl = {i1, i2}
  None = None
  Granule = 2
  NumBins = 2
  MaxMem = 6
  InitialChunk = 4
  InitialGrowth = 4
  MaxDead = 6
  MaxExtend = 4
  NextPowerOfTwo = TRUE
  SizeMax = 63
  BackpedalMin = 4
  SyncMayFail = TRUE
  Base <- MCBase
  Request <- MCRequest
SYMMETRY MCSymmetry
INVARIANTS
  ReleaseNeverExposes
