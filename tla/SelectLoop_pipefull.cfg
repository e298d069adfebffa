\* A pipe that three signals fill up.
SPECIFICATION FairSpec
CONSTANTS
    Handlers = {h1, h2}
    Clients = {main, other}
    Main = main
    PipeCap = 2
    ReadMax = 2
    MaxCalls = 4
    MaxData = 0
PROPERTY
    RegisterTakesEffect
CHECK_DEADLOCK FALSE
