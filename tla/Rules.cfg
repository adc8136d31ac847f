CONSTANTS
  MaxEvents = 21
  MaxCompared = 4
  MaxPool = 7
  MaxWorkers = 4
  MaxWeight = 4
  MaxVariables = 2
SPECIFICATION Spec
INVARIANTS SummaryCounts GateCounts ComparisonIsFair PlanIsFair LayersInOrder NoLayerEscapesSafety
