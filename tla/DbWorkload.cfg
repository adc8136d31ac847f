CONSTANTS
  Strategies = {"rollback"}
  Calls = {1, 2}
  Kinds = {"workload", "statement"}
  Overlap = {}
  Flaky = FALSE
  MayCancel = {}
  Twins = {}
SPECIFICATION Spec
INVARIANT WorkloadsRollBack
