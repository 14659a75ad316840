SPECIFICATION Spec
CONSTANTS
    MaxSends = 2
    MaxDepth = 2
    MaxChunks = 1
    ResponseTypes = {"arraybuffer", "json"}
    Bodies = {"null", "empty", "bytes"}
    OneAtATime = TRUE
INVARIANTS
    SentIsOpen
    NoNullResponse
    OneEnding
    OwnAnswer
    EndIsReported
PROPERTIES
    ReadyStateAdvances
