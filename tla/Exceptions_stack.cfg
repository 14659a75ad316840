SPECIFICATION Spec
CONSTANTS
    MaxRaised = 3
    MaxDepth = 6
INVARIANTS
    NothingIsLost
    PendingOnlyByExit
PROPERTY
    CaughtAsThrown
