SPECIFICATION FairSpec
CONSTANTS
    Timers = {t1, i1}
    Intervals = {i1}
    Jobs = {j1}
    Awaitables = {a1}
    Waiters = {w1}
    RefAnyTime = FALSE
    StopCalled = FALSE
INVARIANT AutoUnref
PROPERTY WaitEnds
