CONSTANTS
  IntMax = 3
  Scripts <- TwoGraphScript
  MaxLines = 4
  MayFail = FALSE
SPECIFICATION FairSpec
PROPERTY EveryGraphAnswered
CHECK_DEADLOCK FALSE
