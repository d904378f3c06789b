SPECIFICATION FairSpec
CONSTANTS
  ProgLen = 3
  Branches = TRUE
  MaxTimer = 2
  MaxBudget = 3
INVARIANTS NothingSkippedUnexecuted CountsEveryException DiesWhenBudgetUsed
PROPERTY ProgramEnds
CHECK_DEADLOCK FALSE
