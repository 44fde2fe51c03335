SPECIFICATION FairSpec
CONSTANTS
  Checkers = {c1, c2}
  Outsiders = {o1}
  QueueCap = 2
  MaxWrites = 4
  Faulty = TRUE
INVARIANTS TypeOK SavedInOrder StopLeavesNothing
PROPERTIES NoWriteAfterStop StopEnds
CHECK_DEADLOCK FALSE
