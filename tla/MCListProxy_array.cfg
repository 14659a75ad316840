SPECIFICATION Spec
CONSTANTS
    number = number
    outer = outer
    inner = inner
    None = None
    Undefined = Undefined
    Items = {number, outer, inner, None}
    Primitives = {number}
    Elements = {number, outer, None}
    Contents <- MCContents
    Rank <- MCRank
    EditCalls <- MCEditCalls
    MaxLen = 3
    MaxEdits = 1
    Calls = {"reverse", "pop", "push", "shift", "unshift", "concat", "slice", "indexOf",
             "lastIndexOf", "splice", "sort", "fill", "copyWithin", "includes", "forEach",
             "map", "filter", "reduce", "reduceRight", "some", "every", "find", "findIndex",
             "flat", "flatMap", "join", "toString", "toLocaleString", "valueOf", "entries",
             "keys", "values", "get", "set", "delete", "ownKeys"}
INVARIANTS
    MethodsMeetStandard
    CallbacksMeetStandard
    SortMeetsStandard
    RefsExact
    CrashOnlyIfShrunk
