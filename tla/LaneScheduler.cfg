SPECIFICATION FairSpec
CONSTANTS
    Workers = {w1, w2, w3}
    Keys = {k1, k2}
    States = {s1, s2, s3}
    NoState = NoState
    MaxWork = 2
INVARIANTS
    TypeOK
    LaneMutex
PROPERTY EveryWaitEnds
\* Every worker may have had all its work.
CHECK_DEADLOCK FALSE
