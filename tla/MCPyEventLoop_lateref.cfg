SPECIFICATION Spec
CONSTANTS
    Timers = {t1, t2}
    Intervals = {t2}
    Jobs = {j1}
    Awaitables = {a1}
    Waiters = {w1}
    RefAnyTime = TRUE
    StopCalled = FALSE
INVARIANT CounterNeverNegative
