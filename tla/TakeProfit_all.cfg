SPECIFICATION Spec
CONSTANTS
  Positions = {p1}
  Evaluators = {e1, e2}
  EntryPrice = 100
  Prices <- MCPrices
  TierNumbers = {1, 2, 3}
  Configs <- MCConfigs
  NoConfig = NoConfig
  None = None
PROPERTIES
  NoTierIsMissed
  SignalsTheNextTier
CHECK_DEADLOCK FALSE
