CONSTANTS
  RuntimeRepeats = FALSE
  DisableSegmentMax = FALSE
  Families = {"layout", "linear", "moe", "norm", "id", "mask", "attention"}
SPECIFICATION Spec
INVARIANTS
  FusedAgrees
  FusedComputes
