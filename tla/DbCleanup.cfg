CONSTANTS
  Strategies = {"delete", "rollback"}
  Calls = {1, 2, 3}
  Kinds = {"insert", "statement", "query", "workload", "workload_tracked"}
  Overlap = {"delete", "rollback"}
  Flaky = TRUE
  MayCancel = {"rollback"}
  Twins = {1}
SPECIFICATION FairSpec
INVARIANTS CleanExit ConnectionClosed OthersSurvive RollbackNeverCommits
PROPERTY TeardownEnds
