\* Small instances of the six programs.
SPECIFICATION ProgramsSpec
CONSTANTS
    Keys = {k1, k2, k3}
    Values = {v1, v2}
    NoValue = NoValue
    Nodes = {n1, n2, n3, n4}
    NoKey = NoKey
    MaxArgs <- MCMaxArgs
    SizeMod = 16
    MaxOps = 5
    N = 3
    BufSize = 5
    PbackSize = 2
    MaxChars = 8
    CallDatas = {d1, d2, d3, d4, d5}
    RpcThreads = {h1, h2}
    MaxRpcs = 3
    Lists = {l1, l2}
    ListNodes = {e1, e2, e3}
    Timeout = 2
INVARIANTS
    Linked
    InTurn
    StoppedIsQuiet
    OutputKept
    ReadBack
    TagsValid
    LinksFormSequence
PROPERTIES
    ImplementsLru
    RingEnds
    QuietSessionEnds
