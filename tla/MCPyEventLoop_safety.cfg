SPECIFICATION Spec
CONSTANTS
    Timers = {t1, i1}
    Intervals = {i1}
    Jobs = {j1, j2}
    Awaitables = {a1}
    Waiters = {w1, w2}
    RefAnyTime = FALSE
    StopCalled = TRUE
SYMMETRY Symmetry
INVARIANT TypeOK
INVARIANT CounterExact
PROPERTY CancelledStaysDead
PROPERTY ImplementsShield
