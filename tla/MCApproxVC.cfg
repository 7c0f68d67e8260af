CONSTANTS
  Inputs <- MCInputs
  ByteRange = 4
  MaxPicks = 6
SPECIFICATION FairSpec
INVARIANTS TypeOK CoverOnReturn PicksProgress GreedyBound
PROPERTIES ReturnsUnlessZeroZero
CHECK_DEADLOCK FALSE
