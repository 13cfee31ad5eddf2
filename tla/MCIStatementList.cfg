CONSTANTS
    Iters = {i1}
    MaxRows = 3
    MaxFailures = 0
    MaxPasses = 1
    MaxSwitches = 1
SPECIFICATION Spec
INVARIANT ListIsRead
CHECK_DEADLOCK FALSE
