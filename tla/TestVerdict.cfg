SPECIFICATION FairSpec
CONSTANT NumCores = 2
INVARIANTS RegistersOfOwnCore PassMeansGood ClangVerdictRight
PROPERTY VerdictReached
CHECK_DEADLOCK FALSE
