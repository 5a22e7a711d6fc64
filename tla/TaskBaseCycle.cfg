\* A task that is run again, as TimerTaskHandler runs a cycle task.
SPECIFICATION Spec
CONSTANTS
    Runners = {r1}
    Cancellers = {c1}
    MaxRuns = 2
    BodyMayThrow = FALSE
INVARIANT CancelMeansStopped
CHECK_DEADLOCK FALSE
