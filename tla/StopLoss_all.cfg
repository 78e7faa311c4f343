SPECIFICATION StopSpec
CONSTANTS
  Positions = {p1}
  Evaluators = {e1, e2}
  Entry <- MCEntry
  Prices = {5, 11, 14}
  StopLossConfigs <- MCStopLossConfigs
  NoConfig = NoConfig
  Objects = {o1, o2, o3}
  None = None
SYMMETRY EvaluatorSymmetry
VIEW Live
INVARIANTS
  SellsBounded
PROPERTIES
  StopNeverLowered
  EffectiveStopOnlyRises
CHECK_DEADLOCK FALSE
