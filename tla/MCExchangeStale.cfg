SPECIFICATION Spec
CONSTANTS
    Callers = {sweep}
    Pings = {}
    Addrs = {a1}
    KeepAliveAddr = ka
    Ops = {"read", "write"}
    Declines = {}
    SeqMod = 3
    MaxAttempts = 2
    MaxDrain = 1
    MaxCalls = 2
    MaxPings = 1
    MaxQueue = 2
    None = None
INVARIANT ReadTakesOwnAnswer
CHECK_DEADLOCK FALSE
