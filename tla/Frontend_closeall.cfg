\* The comment of stop() against a connection that is accepted late.
SPECIFICATION Spec
CONSTANTS
    NListeners = 1
    Conns = {c1, c2}
    NoConn = NoConn
    NThreads = 2
    Signals = {sigterm}
INVARIANT
    AllConnectionsClosed
