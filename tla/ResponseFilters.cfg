\* The stack of handle_connection, every order of its calls.
SPECIFICATION Spec
CONSTANTS
    Names = {h1, h2}
    MaxHeaders = 2
    MaxPieces = 2
    MaxReads = 2
    SizeMod = 8
    EINVAL = 22
INVARIANTS
    WellFormed
    Accounted
