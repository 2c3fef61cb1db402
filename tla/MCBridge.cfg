SPECIFICATION FairSpec
CONSTANTS
    Callers = {exchange, keepAlive}
    Opener = exchange
    exchange = exchange
    keepAlive = keepAlive
    Length <- MCLength
    Hosts = {"browser", "node"}
    ConfigSteps = 2
    Handshakes = 1
    MaxDrain = 2
    MaxTries = 2
    MaxPolls = 2
    MaxWrites = 2
    MaxArrivals = 2
    None = None
INVARIANTS TypeOK WholeFrames SuccessMeansForwarded
PROPERTIES ImplementsChannel CallsEnd OpenEnds
CHECK_DEADLOCK FALSE
