\* One core worker, one more, and an identity for the one after that.
SPECIFICATION Spec
CONSTANTS
    Workers = {w1, w2, w3}
    CoreWorkers = {w1}
    Tasks = {k1}
    Shutters = {s1}
    Destructor = NoOne
    NoOne = NoOne
    Max = 2
    Threshold = 0
    TaskMayThrow = TRUE
    WeakCasMayFail = TRUE
INVARIANTS AtMostMax NoOrphan ClosedWorkersAreReaped MonitorWillBeNotified
PROPERTIES ImplementsTasks
CHECK_DEADLOCK FALSE
