\* One Run of the task, two cancellers and two getters.
SPECIFICATION FSpec
CONSTANTS
    Runners = {r1}
    Cancellers = {c1, c2}
    Getters = {g1, g2}
    NoRunner = NoRunner
    MaxRuns = 1
    BodyMayThrow = TRUE
INVARIANTS GettersWillBeNotified CancelMeansStopped SleepersWillBeNotified FinishedHasResult
PROPERTIES CancelReturns GetResultReturns
CHECK_DEADLOCK FALSE
