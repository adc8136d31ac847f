CONSTANTS
  InlineConfig = TRUE
  OwnToken = TRUE
  Pvc = TRUE
  Retain = {TRUE, FALSE}
  MaxSpec = 2
  MaxRestarts = 2
  MaxFailures = 1
  Deletable = TRUE
  ByHand = TRUE
SPECIFICATION FairSpec
INVARIANTS InputsFirst DeleteIsComplete TokensAgree
PROPERTIES Prepared SpecFrozen ArtifactsRetained
CHECK_DEADLOCK FALSE
