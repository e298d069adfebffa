\* Two listeners, a pool of one thread, two connections: the second one is
\* accepted while the first keeps the thread busy.
SPECIFICATION FairSpec
CONSTANTS
    NListeners = 2
    Conns = {c1, c2}
    NoConn = NoConn
    NThreads = 1
    Signals = {sigterm}
INVARIANTS
    NodesAlive
    OpenIsListed
    OneOwner
PROPERTIES
    StaysArmed
    SignalHonoured
    ShutdownCompletes
    AcceptedIsServed
