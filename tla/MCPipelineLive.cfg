CONSTANTS
  IntMax = 3
  Scripts <- LivenessScripts
  MaxLines = 4
  MayFail = TRUE
SPECIFICATION FairSpec
PROPERTIES Terminates AcceptedIsAnswered
CHECK_DEADLOCK FALSE
