SPECIFICATION FairSpec
CONSTANTS
    Nodes = {1, 2, 3, 4}
    Tunnels = {1}
    Wave = 2
    Tolerance = 0
    Requests = {r1, r2}
    MaxEvents = 4
    Faulty = {1}
INVARIANTS DriftIsReal  StopsAtTheFault ReportIsTrue
PROPERTY RolloutEnds
CHECK_DEADLOCK FALSE
