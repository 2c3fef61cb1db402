SPECIFICATION FairSpec
CONSTANTS
    Kinds = {"live", "mcsp"}
    MaxAttempts = 2
    MaxSessions = 3
    None = None
INVARIANTS TypeOK LiveStatusIsTrue
PROPERTY ConnectingEnds
CHECK_DEADLOCK FALSE
