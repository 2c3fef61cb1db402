SPECIFICATION FairSpec
CONSTANTS
    Editable <- MCEditable
    Fixed <- MCFixed
    Speed = "maximumBikeSpeed"
    BikeValues <- MCBikeValues
    Defaults <- MCDefaults
    Typed <- OneTyped
    MaxAttempts = 2
    MaxEdits = 2
    None = None
INVARIANTS TypeOK SaveTouchesOnlyTyped DoneMeansServed
PROPERTY PendingSettles
CHECK_DEADLOCK FALSE
