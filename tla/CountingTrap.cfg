SPECIFICATION FairSpec
CONSTANTS
  ProgLen = 4
  Branches = TRUE
  MaxTimer = 0
INVARIANTS InfoDecodesToTrap CountedOnce
PROPERTIES ResumesBehindFault ProgramEnds
CHECK_DEADLOCK FALSE
