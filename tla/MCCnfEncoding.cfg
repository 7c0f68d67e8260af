CONSTANTS
  Inputs <- MCInputs
SPECIFICATION Spec
INVARIANTS TypeOK MinimumOnReturn PrintedOnce
CHECK_DEADLOCK FALSE
