SPECIFICATION FairSpec
CONSTANTS
  Programs = 2
  EventCapacity = 1
  ErrorCapacity = 1
  MaxLosses = 1
  MaxFailures = 1
  MaxFetches = 3
INVARIANTS
  OpenIsUsed
  EventsAccounted
PROPERTIES
  LoopSettles
CHECK_DEADLOCK FALSE
