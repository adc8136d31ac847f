CONSTANTS
  w1 = w1  w2 = w2  w3 = w3  n1 = n1  n2 = n2  n3 = n3
  Worker <- ThreeWorkers
  NodeId <- ThreeIds
  NodeOf <- SharedId
  Expect = 2
  BadToken <- NoWorker
  OversizedBatch <- NoWorker
  MaxCustom = 1
  WaitsForClients = FALSE
SPECIFICATION FairSpec
INVARIANTS UniquePartition StartBarrier CompleteAggregate
PROPERTIES ImplementsContract EverybodyEnds
