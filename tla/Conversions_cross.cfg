SPECIFICATION Spec
CONSTANTS
    Latin1End = 1
    HIGH_SURROGATE_START = 2
    LOW_SURROGATE_START = 4
    BMP_END = 7
    Half = 1
    WordBits = 2
    SafeBits = 4
    PyVersions = {11, 12, 13}
    MaxLength = 3
    MaxInt = 70
    MaxDigits = 3
    MaxArgs = 3
INVARIANTS
    StringsKeepTheirText
    IntegersKeepTheirValue
    ArgumentsMeetJavaScript
CHECK_DEADLOCK FALSE
