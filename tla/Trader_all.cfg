SPECIFICATION Spec
CONSTANTS
  Callers = {"large", "small"}
  MaxAttempts = 2
  MaxPriorityFee = 500
  MaxFeePerGas = 1000
  MinPriorityFee = 1
  CongestionUnit = 50
  MaxHistory = 2
  DefaultPriorityFee = 10
  BuilderMaxPriorityFee = 400
  BuilderMaxFee = 800
  MevMaxPriorityFee = 600
  LeastPriorityFee = 10
  RaisedBaseFee = 300
  DefaultCap = 500
  BaseFees <- MCBaseFees
  Sources <- MCSources
  Strategies = {"aggressive"}
  Size <- MCSize
  MinTradeSize = 100
  Percents = {50}
  Providers = {"none", "merkle"}
  FirstNonce = 7
  MaxUpdates = 1
  MaxReplacements = 1
  Impacts = {11, Unparsed}
  Unparsed = Unparsed
  Keys = {TRUE, FALSE}
  MaxExecutions = 3
INVARIANTS
  NoncesDistinct
  TipsCovered
  
  OutcomesCounted
PROPERTIES
  CallsReturn
CHECK_DEADLOCK FALSE
