SPECIFICATION Spec
CONSTANTS
    Files <- MCFiles
    Disk0 <- MCDisk0
    Alias <- MCAlias
    SymbolicLinks <- MCLinks
    MaxLines = 3
    OwnerLines = {"o1"}
    Notes <- MCEvents
    MaxTrouble = 2
    MaxAttempts = 2
    Events <- MCEvents
    Arrival <- MCArrival
    Kind <- MCKind
    Channel <- MCChannel
    Session <- MCSession
    Replies <- MCReplies
    MaxRounds = 1
    HistoryLimit = 4
INVARIANTS TypeOK RequestAnswered PromptIsCurrent LinesKept NoteIsWritten
CHECK_DEADLOCK FALSE
