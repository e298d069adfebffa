SPECIFICATION FairSpec
CONSTANTS
    Workers = {w1, w2}
    MaxSpawns = 3
    MaxFaults = 2
INVARIANTS
    OneLeader
    NotDeaf
PROPERTIES
    LeaderQuits
\* The bound on spawns leaves nothing to do once every worker has ended.
CHECK_DEADLOCK FALSE
