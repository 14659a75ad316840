SPECIFICATION FairSpec
CONSTANTS
    Dispatchables = {d1, d2}
    Jobs = {j1}
    Waiters = {w1}
INVARIANT JobTypeOK
INVARIANT NoLostWakeup
PROPERTY WaitEnds
