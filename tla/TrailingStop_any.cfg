SPECIFICATION Spec
CONSTANTS
  Positions = {p1}
  Prices = {0, 8, 9, 10, 11, 18, 20, 22}
  Configs <- AllConfigs
  NoConfig = NoConfig
  NoState = NoState
INVARIANTS
  LockedIn
PROPERTIES
  NewHighNeverTriggers
  KeepsPromise
CHECK_DEADLOCK FALSE
