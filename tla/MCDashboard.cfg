CONSTANTS
  Sites = {1, 2, 3}
  Group = {1}
  Parent <- McParent
  Rank <- McRank
  Matching = {2}
  Heights = {1}
  Periods = {1, 2}
  Begins <- McBegins
  MaxCmds <- McCmds
  Early = {"settings"}
  MaxChanges = 1
SPECIFICATION Spec
INVARIANTS
  CursorInRange
  OnSelection
PROPERTIES
  TablesNeverGoBack
  PanelsSettle
