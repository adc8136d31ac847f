CONSTANTS
  MaxRes = 3
  MaxCalls = 2
  MaxAttempts = 2
  Tracked = TRUE
  MayCancel = TRUE
SPECIFICATION FairSpec
INVARIANTS NoSilentLeak ChildrenFirst EventsAreCalls
PROPERTY CancelIsFinal
