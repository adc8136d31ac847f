CONSTANTS
  w1 = w1  w2 = w2  w3 = w3  n1 = n1  n2 = n2  n3 = n3
  Worker <- TwoWorkers
  NodeId <- TwoIds
  NodeOf <- IdsOfTwo
  Expect = 2
  BadToken <- NoWorker
  OversizedBatch <- NoWorker
  MaxCustom = 1
  WaitsForClients = TRUE
SPECIFICATION FairSpec
PROPERTY TimeoutSurfaces
CHECK_DEADLOCK FALSE
