CONSTANTS
  PageCounts <- Counts
  First = 2
  Behind = 1
  Ahead = 2
  Sizes = {1, 2}
  MaxPreloaded = 2
  MaxChanges = 5
SPECIFICATION Spec
CHECK_DEADLOCK FALSE
INVARIANTS
  TypeOK
  ShowsOpenDocument
PROPERTY SettlesOnSelection
