SPECIFICATION FairSpec
CONSTANTS
    ConnPoolSize = 1
    GrowthLimit = 2
    Window = 1
    GrowA = 4
    GrowB = 5
    ShrinkX = 3
    ShrinkY = 4
    LegacyMissThreshold = 2
    ChannelSize = 1
    FlowRoom = 1
    MaxUsers = 1
    MaxConns = 3
    MaxLost = 1
    MaxRuns = 2
    MaxOutages = 1
    Shutdown = TRUE
    OldServer = TRUE
INVARIANTS NobodyIsShort OpenNeverOver NonceOnceProven
PROPERTY Reconnects
CHECK_DEADLOCK FALSE
