CONSTANTS
  w1 = w1  w2 = w2  w3 = w3  n1 = n1  n2 = n2  n3 = n3
  Worker <- ThreeWorkers
  NodeId <- ThreeIds
  NodeOf <- IdsOfThree
  Expect = 2
  BadToken <- JustW2
  OversizedBatch <- JustW3
  MaxCustom = 1
  WaitsForClients = TRUE
SPECIFICATION FairSpec
PROPERTIES FailureSurfaces GoodRunReturns
CHECK_DEADLOCK FALSE
