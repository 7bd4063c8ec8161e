SPECIFICATION Spec
CONSTANTS
  Thread = {t1, t2}
  Stream = {s1, s2}
  None = None
  Kinds = {"pack"}
  MaxCalls = 4
  MaxFailures = 1
INVARIANT
  UseFindsConstants
\* The session has no more runs to do.
CHECK_DEADLOCK FALSE
