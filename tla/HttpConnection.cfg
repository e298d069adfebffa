\* One connection: two pipelined requests of every kind.
SPECIFICATION FairSpec
CONSTANTS
    MaxReqs = 2
    IntMax = 2
INVARIANTS
    Framed
    OkAfterBody
    AbortCause
PROPERTIES
    ConnectionEnds
    PutAnswered
    ImplementsSession
