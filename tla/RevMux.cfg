SPECIFICATION FairSpec
CONSTANTS
    Sessions = {s1, s2}
    MuxCon = 2
    ChannelSize = 1
    ConnPoolSize = 1
    MaxRuns = 2
    MaxUsers = 3
    MaxDials = 1
    MaxFlows = 1
    MaxLost = 1
INVARIANTS  RoomForAll
PROPERTY FullQueueMoves
CHECK_DEADLOCK FALSE
