SPECIFICATION MCSpec
CONSTANTS
    Calls = {c1, c2, b1, b2}
    BotCalls = {b1, b2}
    Keys = {k1, k2}
    Asked = {work}
    wanted = wanted
    Updates = {wanted}
    UpdateText <- MCText
    NoScope = NoScope
    NoKey = NoKey
    MaxStamp = 3
    MaxCrashes = 1
    Configs <- MCConfigs
    Expiry = 2
    MaxDelay = 1
    MaxNow = 3
SYMMETRY Symmetry
INVARIANTS
    TypeOK
    RetriesAgree
    SessionsDistinct
    GrantsBounded
    UpdatesAccounted
\* Every call may have been answered.
CHECK_DEADLOCK FALSE
