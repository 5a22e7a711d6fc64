\* Three closers: one that waits, one that comes second, one asynchronous.
SPECIFICATION FairSpec
CONSTANTS
    Closers = {c1, c2, c3}
    MaxCreateFails = 1
    WeakCasMayFail = TRUE
    WorkMayThrow = TRUE
INVARIANTS SleeperWillBeNotified
PROPERTIES ImplementsContract CloseReturns
CHECK_DEADLOCK FALSE
