CONSTANTS
  MaxEvents = 1
  MaxCompared = 1
  MaxPool = 1
  MaxWorkers = 1
  MaxWeight = 1
  MaxVariables = 1
SPECIFICATION Spec
INVARIANT TokenVariableHarmless
