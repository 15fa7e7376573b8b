SPECIFICATION MCSpec
CONSTANTS
    MaxRuns = 2
    MaxConns = 2
    MaxFaults = 1
    SlowListeners = TRUE
    Legacy = TRUE
    Shutdown = TRUE
    MaxUdpRuns = 2
    Users = {u1, u2}
    Sockets = {k1, k2}
    ChannelSize = 1
    MaxConnections = 2
    PoolSize = 1
    MaxLost = 1
    Nobody = Nobody
    Offered = {"tcp", "kcp", "wss"}
    Ports = {1, 2}
    Names = {n1}
    Operators = {o1, o2}
    Forms <- MCForms
    Edits <- MCEdits
    Busy = {2}
    Keep = 1
    MaxOps = 2
INVARIANTS OneLiveRun  NoStaleEntry ConfigUsable WayBackKept
CHECK_DEADLOCK FALSE
