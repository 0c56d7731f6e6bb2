SPECIFICATION Spec
CONSTANTS
    Replies = {r1, r2}
    NoReply = NoReply
    Unroutable = {r2}
    MaxAttempts = 2
    MaxLate = 0
    MaxFaults = 0
    MaxCrashes = 0
INVARIANT AttemptsWithinMax
