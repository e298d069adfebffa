\* The documented listing: a second client races main's stop().
SPECIFICATION FairSpec
CONSTANTS
    Tasks = {t1, t2, t3}
    NoTask = NoTask
    Clients = {main, other}
    Main = main
    Listing = TRUE
INVARIANTS
    Delivered
    NoLostWakeup
PROPERTIES
    StopEnds
    AcceptedRuns
