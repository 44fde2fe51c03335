SPECIFICATION FairSpec
CONSTANTS
  Threshold = 3
  FailureCap = 4
  Partitions = TRUE
INVARIANTS TypeOK
PROPERTIES ThreeStrikes SplitBrainEnds TakesOver
