CONSTANTS
    Iters = {i1, i2}
    MaxRows = 3
    MaxFailures = 1
    MaxPasses = 2
    MaxSwitches = 2
SPECIFICATION FairSpec
INVARIANTS
    TypeOK
    StatusTracksVm
    ReadsAllInOrder
    OneRowPerSwitch
    AssertsOnEmptyOnly
PROPERTY Drains
CHECK_DEADLOCK FALSE
