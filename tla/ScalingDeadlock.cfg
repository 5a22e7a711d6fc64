\* A worker above the core size leaves while the monitor looks for such workers.
SPECIFICATION FairSpec
CONSTANTS
    Workers = {w1, w2}
    CoreWorkers = {w1}
    Max = 2
    Threshold = 0
    Tasks = {k1}
    Shutters = {s1}
    Destructor = NoOne
    NoOne = NoOne
    TaskMayThrow = FALSE
    WeakCasMayFail = FALSE
PROPERTY ShutDownDoesNotBlock
CHECK_DEADLOCK FALSE
