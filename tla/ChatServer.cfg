\* Two sessions and four units, in two lines: unit 1, and units 2 to 4.  One
\* talks and departs while the other listens; reads end inside the second line.
SPECIFICATION FairSpec
CONSTANTS
    Sessions = {s1, s2}
    LineEnds = {1, 4}
    MaxTyped = 4
INVARIANTS
    WriteDuty
    SameOrder
    Departure
    LinesKept
PROPERTY
    ClosedRests
CHECK_DEADLOCK FALSE
