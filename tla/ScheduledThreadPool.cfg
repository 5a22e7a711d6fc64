\* Two handlers and one task that two threads put; a ShutDown, a ShutDownNow and
\* the destructor.  The clock stands still: a deadline is there or never comes, and a
\* sleep that ends before it is a spurious wake-up.
SPECIFICATION FairSpec
CONSTANTS
    ThreadNum = 2
    Tasks = {k1}
    Cancellable = {}
    Throwing = {k1}
    Adders = {a1, a2}
    Shutters = {s1, s2, s3}
    Waiters = {s1}
    Destructor = s3
    Delays = {1}
    MaxTime = 1
    NoTask = NoTask
INVARIANTS ShutDownNowWaits OneThreadPerTask ShutDownReachesAll
PROPERTIES ShutDownTerminates
CHECK_DEADLOCK FALSE
