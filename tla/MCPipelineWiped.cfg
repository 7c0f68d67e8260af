CONSTANTS
  IntMax = 3
  Scripts <- TwoGraphScript
  MaxLines = 4
  MayFail = FALSE
SPECIFICATION Spec
INVARIANT PrintedCoverIsComputed
CHECK_DEADLOCK FALSE
