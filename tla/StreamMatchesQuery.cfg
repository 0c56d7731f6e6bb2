SPECIFICATION Spec
CONSTANTS
    Observers = {o1}
    MaxQueued = 1
    MaxReplay = 1
    MaxProgress = 1
    MaxLost = 1
    MaxCrashes = 0
INVARIANT StreamMatchesQuery
\* The event ends, or waits for a client.
CHECK_DEADLOCK FALSE
