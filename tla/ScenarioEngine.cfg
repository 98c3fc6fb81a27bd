CONSTANTS
  N = 3
  Class <- MCClass
  Priority <- MCPriority
  MinDuration = 3
  MaxDuration = 3
  Horizon = 2
  MaxAdded = 1
  Watching = {}
  PreMargin = 1
  PostMargin = 1
  Severity <- MCSeverity
SPECIFICATION EvaluationSpec
INVARIANTS
  TypeOK
  Exclusion
  OneStateChangePerTick
  LogFaithful
  EvaluationTrue
PROPERTIES
  ImplementsLifecycle
  EveryScenarioCompletes
