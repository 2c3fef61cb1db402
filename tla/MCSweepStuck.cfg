SPECIFICATION FairSpec
CONSTANTS
    Entries <- MCEntries
    Core = {"DriveUnit"}
    AbsentAfter = 2
    WarmUps = 2
    Throws = {"warmup", "reading"}
PROPERTY ConnectingEnds
CHECK_DEADLOCK FALSE
