SPECIFICATION FairSpec
CONSTANTS
    Events = {e1, e2}
    NoEvent = NoEvent
    WriterMayFail = TRUE
    QueueCap = 1
    MaxRuns = 4
    MaxFaults = 1
    MaxCrashes = 1
PROPERTY EveryEventSettles
\* An idle process waits for clients and tickers.
CHECK_DEADLOCK FALSE
