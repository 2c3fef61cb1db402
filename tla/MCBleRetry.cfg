SPECIFICATION Spec
CONSTANTS
    Kinds = {"live", "mcsp"}
    MaxAttempts = 2
    MaxSessions = 2
    None = None

PROPERTY RetryKeepsSession
CHECK_DEADLOCK FALSE
