SPECIFICATION Spec
CONSTANTS
  Checkers = {c1}
  Outsiders = {o1}
  QueueCap = 2
  MaxWrites = 3
  Faulty = FALSE
INVARIANTS NoLostWrites
CHECK_DEADLOCK FALSE
