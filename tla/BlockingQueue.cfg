\* Three threads, five calls: two sleepers and a second Push beside them.
SPECIFICATION FairSpec
CONSTANTS
    Threads = {t1, t2, t3}
    NoThread = NoThread
    Elems = {a, b}
    NoElem = NoElem
    NoCall = NoCall
    MaxCalls = 5
    MaxSpurious = 1
INVARIANTS TimeWaitIsExact NoLostWakeup NeverFrontOfEmpty ExactlyOnceInOrder
PROPERTIES CallsReturn ImplementsAtomicQueue
CHECK_DEADLOCK FALSE
