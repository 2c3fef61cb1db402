SPECIFICATION FairSpec
CONSTANTS
    Callers = {sweep, click}
    Pings = {}
    Addrs = {a1}
    KeepAliveAddr = ka
    Ops = {"rpc", "subscribe"}
    Declines = {"SUBSCRIBE"}
    SeqMod = 3
    MaxAttempts = 2
    MaxDrain = 1
    MaxCalls = 1
    MaxPings = 1
    MaxQueue = 1
    None = None
INVARIANTS BusyIsReleased
PROPERTIES ImplementsCalls EveryExchangeReturns
CHECK_DEADLOCK FALSE
