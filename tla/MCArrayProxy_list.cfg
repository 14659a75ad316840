SPECIFICATION Spec
CONSTANTS
    None = None
    Missing = Missing
    Items = {1, 2, None}
    Starts <- MCStarts
    Stops <- MCStops
    Steps <- MCSteps
    Factors <- MCFactors
    MaxOperand = 2
    MaxLen = 3
    MaxGrown = 6
    Operations = {"len", "get", "set", "del", "getslice", "setslice", "delslice", "compare",
                  "concat", "repeat", "iadd", "imul", "contains", "clear", "copy", "append",
                  "insert", "extend", "pop", "remove", "index", "count", "reverse", "sort"}
INVARIANTS
    OperationsMeetStandard
    IterationIsFaithful
PROPERTY
    SpentStaysSpent
