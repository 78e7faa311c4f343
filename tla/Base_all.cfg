SPECIFICATION BaseSpec
CONSTANTS
  Depth = 2
  StartHeight = 5
  MaxUint = 99
  MaxMined = 8
  MaxReorg = 2
  Hashes = {"first", "second", "other"}
  NoHash = NoHash
  Uniswap = {"first", "second"}
  Sender <- MCSender
  Price <- MCPrice
  TxLifetime = 2
  CleanupPeriod = 1
  EventCapacity = 1
  MaxLosses = 2
  MaxFailures = 1
  MaxEvents = 3
  MaxFrontruns = 2
INVARIANTS
  PendingIsForgotten
  CheckSettles
PROPERTIES
  LoopSettles
  StaleIsReplaced
CHECK_DEADLOCK FALSE
