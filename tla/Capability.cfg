CONSTANTS
  RuntimeRepeats = FALSE
  DisableSegmentMax = FALSE
  Bases = "all"
  LongestDetour = 25
SPECIFICATION Spec
INVARIANTS
  ClaimedOnce
  GuardedPartitionIsAcyclic
  NeverMistaken
  PlacementIsClosed
