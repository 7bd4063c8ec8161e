SPECIFICATION FairSpec
CONSTANTS
  Thread = {t1, t2}
  Stream = {s1, s2}
  Block = {b1, b2}
  Event = {e1, e2}
  None = None
  Granule = 2
  Limit = 4
  Request <- MCRequest
INVARIANTS
  PoolInv
  CachedExact
  NoUseAfterFree
  DestroyedIsEmpty
PROPERTIES
  ImplementsReuse
  PendingIsRecycled
  DestructorEnds
