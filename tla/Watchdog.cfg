SPECIFICATION FairSpec
CONSTANTS
    Configs = {A, B}
    First = A
    Bad = Bad
    MaxEdits = 1
    MaxFaults = 2
    Threshold = 2
    Cooldown = 2
    StallChecks = 2
    RestartAfter = 2
    GiveUpAfter = 2
    QuietFor = 2
    MaxLives = 2
INVARIANTS LadderBounded
PROPERTIES StallAnswered 
