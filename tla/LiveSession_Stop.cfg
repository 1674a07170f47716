\* Expected to fail: see the README, "What the program does not keep".
SPECIFICATION FairSpec
CONSTANTS
    A = A
    B = B
    Watched <- MCWatched
    Capacity = 1
    ErrorLimit = 2
    MaxTime = 2
PROPERTY StopEndsSession
CHECK_DEADLOCK FALSE
