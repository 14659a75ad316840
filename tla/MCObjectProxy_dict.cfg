SPECIFICATION ObjectSpec
CONSTANTS
    None = None
    NotSequence = NotSequence
    BoundMethod = BoundMethod
    Names = {"a", "aa", "pop"}
    Methods = {"pop"}
    Inherited = Inherited
    Prototype <- MCPrototype
    Letters <- MCLetters
    Values = {"a", "x"}
    MaxProps = 3
    MaxOperand = 2
    Operations = {"len", "getitem", "getattr", "contains", "set", "del", "compare", "or", "ror",
                  "ior", "get", "setdefault", "pop", "clear", "copy", "update", "keysCompare",
                  "and", "rand", "isdisjoint", "valuesContains"}
INVARIANTS
    OperationsMeetStandard
    IterationIsSafe
    IterationIsComplete
