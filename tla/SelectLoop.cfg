\* Two clients, two descriptors; the pipe cannot fill up.
SPECIFICATION FairSpec
CONSTANTS
    Handlers = {h1, h2}
    Clients = {main, other}
    Main = main
    PipeCap = 4
    ReadMax = 2
    MaxCalls = 3
    MaxData = 1
INVARIANTS
    NoStaleSelect
PROPERTIES
    RegisterTakesEffect
    StopEnds
CHECK_DEADLOCK FALSE
