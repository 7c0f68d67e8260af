CONSTANTS
  IntMax = 3
  Scripts <- SafetyScripts
  MaxLines = 4
  MayFail = FALSE
SPECIFICATION Spec
INVARIANTS TypeOK RoundsComplete AnswersInOrder NoOverwriteInUse CnfThreadsMatchRounds CnfAccountedFor CnfAlwaysRecreated AcceptedGraphsParsed
PROPERTIES CnfAnswersItsRound ImplementsRounds
CHECK_DEADLOCK FALSE
