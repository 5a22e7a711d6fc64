\* One handler: two threads put two tasks, one of which may be cancelled and
\* the other may throw; the handler is shut down.
SPECIFICATION TimerFairSpec
CONSTANTS
    ThreadNum = 1
    Tasks = {k1, k2}
    Cancellable = {k1}
    Throwing = {k2}
    Adders = {a1, a2}
    Shutters = {s1}
    Waiters = {s1}
    Delays = {1}
    MaxTime = 3
    NoTask = NoTask
INVARIANTS SleepsForEarliest QueuedOnce NeverEarly
PROPERTIES OverdueTasksAreFired
CHECK_DEADLOCK FALSE
