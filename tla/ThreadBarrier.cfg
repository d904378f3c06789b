SPECIFICATION FairSpec
CONSTANTS
  NumCores = 2
  NumThreads = 2
  CounterMod = 4
  MaxCalls = 4
INVARIANTS IInv NobodyLeavesEarly DataVisible ReturnsCallCount
  NobodyLeavesWrappedCall
PROPERTIES ImplementsAbstractBarrier EveryCallReturns
CHECK_DEADLOCK FALSE
