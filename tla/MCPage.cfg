SPECIFICATION PageFairSpec
CONSTANTS
    Entries <- MCEntries
    Core = {"DriveUnit"}
    AbsentAfter = 1
    WarmUps = 1
    Throws = {"warmup", "reading"}
    Answers = {"ok"}
    Parts <- MCParts
    MaxIssues = 2
    MaxSessions = 2
    None = None
INVARIANTS PageTypeOK LabelIsTrue ExperimentsWait OneStaleReport ScanReportsAll
PROPERTIES ScanEnds WriteSettles
CHECK_DEADLOCK FALSE
