SPECIFICATION FairSpec
CONSTANTS
  Users = {u1, u2, u3}
  MaxRuns = 2
  ChannelSize = 1
  MaxConnections = 2
  HandleLoops = 1
INVARIANTS Accounted LimitHolds
PROPERTIES NobodyWaitsForEver
CHECK_DEADLOCK FALSE
