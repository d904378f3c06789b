SPECIFICATION Spec
CONSTANT CapSizes = {16, 32}
INVARIANT FaultSkipped
CHECK_DEADLOCK FALSE
