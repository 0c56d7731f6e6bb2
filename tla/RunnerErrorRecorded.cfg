SPECIFICATION Spec
CONSTANTS
    Events = {e1}
    NoEvent = NoEvent
    WriterMayFail = FALSE
    QueueCap = 1
    MaxRuns = 2
    MaxFaults = 1
    MaxCrashes = 0
PROPERTY RunnerErrorIsRecorded
CHECK_DEADLOCK FALSE
