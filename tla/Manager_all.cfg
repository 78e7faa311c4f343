SPECIFICATION FairSpec
CONSTANTS
  Positions = {p1}
  Threads = {t1, t2, t3}
  None = None
  HistoryLimit = 4
  MaxHistory = 2
INVARIANTS
  RemovedIsForgotten
  TrailingFollowsPositions
PROPERTIES
  CallsReturn
CHECK_DEADLOCK FALSE
