SPECIFICATION Spec
CONSTANT NumCores = 1
INVARIANT UnfinishedDoesNotPass
CHECK_DEADLOCK FALSE
