CONSTANTS
  Profile = "soak"
  Users = 2
  Duration = 3
  TickSeconds = 1
  RateLimited = TRUE
  SpawnRate = 3
  Unit = 2
  PoolSize = 2
  MaxResources = 2
  Flaky = {0}
SPECIFICATION FairSpec
INVARIANTS ConcurrencyBound NothingLeftBehind CleanupSurvivesFailure StartsPaid
PROPERTIES StopFileEndsRun NoBurst
