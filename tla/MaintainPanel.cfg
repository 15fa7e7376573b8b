SPECIFICATION MaintSpec
CONSTANTS
    Hosts = {"panel"}
    Retention = 2
    MaxUpdates = 1
    MaxRestores = 0
    MaxCrashes = 1
INVARIANT NeverWithoutTunnels
CHECK_DEADLOCK FALSE
