CONSTANTS
  Clients <- MCClients
  IntMax = 32767
SPECIFICATION Spec
INVARIANTS AnswerIsRight EveryClauseFollows NothingLost NoMissedPropagation TrailInOrder OccursComplete ExitIsRight
PROPERTIES EveryCallReturns
