SPECIFICATION FairSpec
CONSTANTS
    Observers = {o1, o2}
    MaxQueued = 1
    MaxReplay = 1
    MaxProgress = 2
    MaxLost = 1
    MaxCrashes = 1
INVARIANTS
    TypeOK
    InOrder
    ToolsReachSubscribers
    EndsAreTold
PROPERTY EveryStreamEnds
\* The event ends, or waits for a client.
CHECK_DEADLOCK FALSE
