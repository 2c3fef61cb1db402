SPECIFICATION FairSpec
CONSTANTS
    Entries <- MCEntries
    Core = {"DriveUnit"}
    AbsentAfter = 2
    WarmUps = 2
    Throws = {"reading"}
INVARIANTS SkippedGaveNothing DashboardIsComplete LoadedMeansRead OneLateResult
PROPERTY ConnectingEnds
CHECK_DEADLOCK FALSE
