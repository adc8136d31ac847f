CONSTANTS
  InlineConfig = TRUE
  OwnToken = TRUE
  Pvc = TRUE
  Retain = {TRUE}
  MaxSpec = 1
  MaxRestarts = 0
  MaxFailures = 0
  Deletable = TRUE
  ByHand = FALSE
SPECIFICATION FairSpec
PROPERTY DeletionEnds
CHECK_DEADLOCK FALSE
