CONSTANTS
  UnknownCauses = {}
  Signals = {}
  RuntimeReasons <- RiskDecision
  OperatorReasons = {}
  ReconFailures = {}
  RealTrading = FALSE
  CanaryMode = FALSE
  MaxFaults = 2
SPECIFICATION Spec
PROPERTY DecisionsReversedOnlyByOperator
