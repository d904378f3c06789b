SPECIFICATION FairSpec
CONSTANTS
  LENGTH_LIMIT = 6
  SPACE_LIMIT = 4
  RAND_LIMIT = 24
  MaxZeros = 1
  MaxThreads = 3
  MaxWork = 2
INVARIANTS SpacesCounted ProgramFits  SwitchesToUnseen AssertsSeeResults
PROPERTY AssertsReached
CHECK_DEADLOCK FALSE
