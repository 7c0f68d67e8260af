CONSTANTS
  IntMax = 3
  Scripts <- UnterminatedScript
  MaxLines = 4
  MayFail = FALSE
SPECIFICATION Spec
INVARIANT EndAnswersAll
CHECK_DEADLOCK FALSE
