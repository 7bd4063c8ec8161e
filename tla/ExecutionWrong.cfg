CONSTANTS
  RuntimeRepeats = FALSE
  DisableSegmentMax = FALSE
  Families = {"id"}
SPECIFICATION Spec
INVARIANT
  AcceptedIsSafe
