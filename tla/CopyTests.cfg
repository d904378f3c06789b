SPECIFICATION FairSpec
CONSTANTS
  WordSize = 8
  CapSizes = {16, 32}
  CallWord = 2
  CallCaps = {2, 4, 8}
  MaxCaps = 2
  Tests = {"clang_hybrid_memcpy", "clang_hybrid_memmove", "clang_hybrid_bcopy", "libc_memcpy", "libc_memmove"}
INVARIANTS NeverTraps AssertsHold
PROPERTIES ImplementsAbstractCopy ScriptEnds
CHECK_DEADLOCK FALSE
