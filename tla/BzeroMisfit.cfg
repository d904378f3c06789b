SPECIFICATION Spec
CONSTANTS
  WordBytes = 8
  SmallClear = 12
  CapBytes = 4
  SrcTop = 20
  MemTop = 44
  MaxLen = 14
  DdcBase = 0
  MisfitCalls = TRUE
INVARIANT FrameKept
CHECK_DEADLOCK FALSE
