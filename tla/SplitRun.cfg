CONSTANTS
  MaxWorkers = 2
  Users = 2
  Pool = 3
  Ticks = 2
  MaxEvents = 2
  MaxTroubled = 1
  Slo <- Gate
  Configured = {"json", "trace"}
SPECIFICATION FairSpec
INVARIANTS DisjointPersonas AggregateIsWhole ZeroMeansGood NobodyLeft
PROPERTY CommandEnds
