SPECIFICATION Spec
CONSTANTS
    p1 = p1
    p2 = p2
    f1 = f1
    f2 = f2
    f3 = f3
    Promises = {p1, p2}
    Futures = {f1, f2, f3}
    NoPromise = NoPromise
    NoFuture = NoFuture
SYMMETRY MCSymmetry
INVARIANTS
    RefsExact
    OutcomesCross
    NoRejectionIsLost
