SPECIFICATION FairSpec
CONSTANTS
  WordBytes = 8
  SmallClear = 12
  CapBytes = 4
  SrcTop = 20
  MemTop = 48
  MaxLen = 17
  DdcBase = 0
  MisfitCalls = FALSE
INVARIANTS FrameKept DoneExactly TagsFollowCapabilities
PROPERTY CallReturns
CHECK_DEADLOCK FALSE
