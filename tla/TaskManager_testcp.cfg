\* test_cp.cc: the lock is not taken again after _process.
SPECIFICATION Spec
CONSTANTS
    Tasks = {t1, t2}
    NoTask = NoTask
    Clients = {main}
    Main = main
    Listing = FALSE
INVARIANT
    WorkerOwnsLock
