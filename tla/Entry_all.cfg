SPECIFICATION EntrySpec
CONSTANTS
  Names = {"meme", "MEME", "doge"}
  Fold <- MCFold
  Unknown = Unknown
  TopHolders = 2
  NoCriteria = NoCriteria
  MinPositionSize = 2
  MaxRiskAmount = 4
  DefaultValue = 100
  Callers = {c1, c2}
  Tokens <- MCTokens
  Candidates <- MCCandidates
  Criteria <- MCCriteria
  Items = {"MEME"}
  StrategyConfigs <- MCStrategyConfigs
  NoLimits = NoLimits
  DefaultLimits <- MCDefaultLimits
  PortfolioBound = 2
SYMMETRY CallerSymmetry
INVARIANTS
  ExposureBounded
  SizesValidate
  BetterIsNeverWorse
CHECK_DEADLOCK FALSE
