CONSTANTS
  IntMax = 3
  Lines <- MCLines
SPECIFICATION PathSpec
INVARIANTS TypeOK EdgesInRange PathIsShortest
PROPERTIES RejectedUntilV EdgesNotReplaced
CHECK_DEADLOCK FALSE
