SPECIFICATION FairSpec
CONSTANTS
    often = often
    seldom = seldom
    Jobs = {often, seldom}
    NoJob = NoJob
    Interval <- MCInterval
    Cooldown = 3
    MaxTime = 6
    MaxLosses = 1
    MaxCrashes = 1
    MaxInits = 1
    OldReplies = {reply}
INVARIANTS
    TypeOK
    EarlyNeedsLoss
PROPERTIES
    PlanKept
    EveryDueJobServed
    WorkspaceSound
\* At the last second modelled nothing may be due.
CHECK_DEADLOCK FALSE
