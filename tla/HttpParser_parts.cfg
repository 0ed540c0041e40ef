SPECIFICATION Spec
CONSTANTS
    Streams <- MCStreams
    Number <- MCNumber
CHECK_DEADLOCK FALSE
INVARIANTS
    VerdictFitsBytes
    BodyIsExact
