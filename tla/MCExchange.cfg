SPECIFICATION Spec
CONSTANTS
    Callers = {sweep}
    Pings = {p1}
    Addrs = {a1}
    KeepAliveAddr = ka
    Ops = {"read", "rpc", "write", "subscribe"}
    Declines = {"SUBSCRIBE"}
    SeqMod = 3
    MaxAttempts = 2
    MaxDrain = 1
    MaxCalls = 2
    MaxPings = 1
    MaxQueue = 2
    None = None
INVARIANTS TypeOK Provenance AnswersOwnRequest UnsubscribesBeforeReturning
CHECK_DEADLOCK FALSE
