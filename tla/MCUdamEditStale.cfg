SPECIFICATION Spec
CONSTANTS
    Editable <- MCEditable
    Fixed <- MCFixed
    Speed = "maximumBikeSpeed"
    BikeValues <- ExactBikeValues
    Defaults <- MCDefaults
    Typed <- OneTyped
    MaxAttempts = 2
    MaxEdits = 2
    None = None
INVARIANT NeverTouchesUntyped
CHECK_DEADLOCK FALSE
