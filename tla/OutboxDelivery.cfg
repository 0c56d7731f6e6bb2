SPECIFICATION FairSpec
CONSTANTS
    Replies = {r1, r2}
    NoReply = NoReply
    Unroutable = {r2}
    MaxAttempts = 2
    MaxLate = 1
    MaxFaults = 2
    MaxCrashes = 1
INVARIANTS
    TypeOK
    DuplicateNeedsUncertainty
    GivenUpMeansExhausted
PROPERTIES
    ImplementsContract
    EveryReplySettles
