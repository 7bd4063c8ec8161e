SPECIFICATION FairSpec
CONSTANTS
  Thread = {t1, t2, t3}
  Stream = {s1, s2, s3}
  None = None
  Kinds = {"upload", "event"}
  MaxCalls = 4
  MaxFailures = 2
INVARIANTS
  UseFindsConstants
PROPERTIES
  PublishedIsFinal
  EveryCallReturns
\* The session has no more runs to do.
CHECK_DEADLOCK FALSE
