SPECIFICATION FairSpec
CONSTANTS
  Threshold = 3
  FailureCap = 3
  Partitions = FALSE
PROPERTIES ChecksOnlyWhenLeaderDown
