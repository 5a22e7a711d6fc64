\* A barrier for three threads; those that time out come back.
SPECIFICATION FairSpec
CONSTANTS
    Threads = {t1, t2, t3}
    MaxCount = 3
    MaxAwaits = 6
    MaxResets = 2
INVARIANTS NeverAllAsleep SleepersAreCurrent SuccessMeansAllArrived
PROPERTIES AwaitReturns
CHECK_DEADLOCK FALSE
