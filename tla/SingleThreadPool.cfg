\* All three modes; a ShutDown, a ShutDownNow and the destructor.
SPECIFICATION FairSpec
CONSTANTS
    Tasks = {k1, k2}
    RunModes = {"FIFO", "LIFO", "PRIORITY"}
    Priorities = {0, 1}
    MaxTime = 2
    Shutters = {s1, s2, s3}
    Waiters = {s1}
    Destructor = s3
    TaskMayThrow = TRUE
    NoTask = NoTask
INVARIANT SmallerNumberFirst
PROPERTIES ImplementsThreadPool ShutDownTerminates AcceptedTasksRun
CHECK_DEADLOCK FALSE
