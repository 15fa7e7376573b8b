SPECIFICATION MCSpec
CONSTANTS
    WindowBits = 4
    MaxCounter = 10
    Hosts = {"menu"}
    Retention = 1
    MaxUpdates = 2
    MaxRestores = 2
    MaxCrashes = 2
    initMemory = 1
    handshakeAttempts = 1
    replyBuffer = 1
    previousGrace = 0
    rekeyAfterTime = 1
    rejectAfterTime = 2
    peerSilentAfter = 1
    MaxAttempts = 2
    MaxAnswers = 3
    MaxRestarts = 1
    MaxInFlight = 1
    StartsLegacy = {TRUE, FALSE}
    MaxConvs = 2
    Clients = {k1}
    Targets = {t1, t2}
    Forbidden = {t2}
    Limit = 1
    Slots = {1}
    MaxSessions = 2
    MaxCuts = 1
INVARIANTS NeverTwice NoFalseRefusal RingIsWindow  WayBack KeySurvives
           ConfirmedByPeer KeysAgree DialledIsHeld FlowsReachable
PROPERTIES PeerStaysConfirmed NewestWins Forwards
CHECK_DEADLOCK FALSE
