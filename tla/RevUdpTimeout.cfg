SPECIFICATION UdpFairSpec
CONSTANTS
    Users = {u1}
    Sockets = {k1, k2, k3}
    MaxUdpRuns = 1
    ChannelSize = 1
    MaxConnections = 1
    PoolSize = 1
    MaxLost = 2
    Nobody = Nobody
PROPERTY TimeoutFires
CHECK_DEADLOCK FALSE
