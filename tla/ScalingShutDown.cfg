\* A shutdown races with a worker that the monitor is creating.
SPECIFICATION Spec
CONSTANTS
    Workers = {w1, w2, w3}
    CoreWorkers = {w1}
    Tasks = {k1}
    Shutters = {s1}
    Destructor = NoOne
    NoOne = NoOne
    Max = 2
    Threshold = 0
    TaskMayThrow = FALSE
    WeakCasMayFail = FALSE
INVARIANT ShutDownWaitsForWorkers
CHECK_DEADLOCK FALSE
