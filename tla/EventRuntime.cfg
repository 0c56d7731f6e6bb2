SPECIFICATION Spec
CONSTANTS
    Events = {e1, e2}
    NoEvent = NoEvent
    WriterMayFail = TRUE
    QueueCap = 2
    MaxRuns = 4
    MaxFaults = 1
    MaxCrashes = 1
SYMMETRY Symmetry
INVARIANTS
    TypeOK
    StartedRunOwnership
    ReplyCommittedOnce
    ReexecutionNeedsLoss
PROPERTY ImplementsLifecycle
\* An idle process waits for clients and tickers.
CHECK_DEADLOCK FALSE
