SPECIFICATION FairSpec
CONSTANTS
  NumCores = 3
  NumThreads = 1
  MaxTraps = 1
  NumGlobals = 2
  Purecap = TRUE
INVARIANTS SetupBeforeTests BssStoresSurvive Thread0TrapsHandled HaltedWithThread0Traps
PROPERTY SimulationHalts
CHECK_DEADLOCK FALSE
