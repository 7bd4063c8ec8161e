CONSTANTS
  RuntimeRepeats = FALSE
  DisableSegmentMax = FALSE
  Bases = "layout"
  LongestDetour = 16
SPECIFICATION Spec
INVARIANTS
  PartitionIsAcyclic
