\* Two workers; a thread that shuts the pool down and, after it, one that
\* destroys it.
SPECIFICATION FixedFairSpec
CONSTANTS
    Workers = {w1, w2}
    CoreWorkers = {w1, w2}
    Tasks = {k1}
    Shutters = {s1, s2}
    Destructor = s2
    NoOne = NoOne
    Max = 2
    Threshold = 0
    TaskMayThrow = FALSE
    WeakCasMayFail = FALSE
INVARIANTS SizeIsFixed
PROPERTIES ImplementsThreadPool ShutDownTerminates AcceptedTasksRun
CHECK_DEADLOCK FALSE
