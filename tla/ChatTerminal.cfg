SPECIFICATION Spec
CONSTANTS
    Requests = {1, 2, 3}
    UpdatesCap = 4
    MaxDeltas = 1
    MaxFaults = 1
    NoStream = FALSE
    Conversations = {"a", "b"}
    Sessions = {1, 2, 3, 4}
    InConv <- MCInConv
    Mine = {1, 3, 4}
    NewOf <- MCNewOf
    AtStart = {1, 2}
    Options <- MCOptions
    PageLimit = 1
    HistoryLimit = 3
    Crossing = {2}
    Past <- MCPast
    MaxKeys = 3
INVARIANTS
    
    ToldCommitted
    
    ElsewhereNeedsStaleSession
    SendingIsHeard
PROPERTIES
    MissNeedsActivity
\* The user may stop pressing keys.
CHECK_DEADLOCK FALSE
