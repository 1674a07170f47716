\* Expected to fail: see the README, "What the program does not keep".
\* In place of BellEndsSession also StopWakesSleeper, StoppedFeedIsJoined and
\* OnlyARunOfErrorsHalts, one at a time.
SPECIFICATION FairSpec
CONSTANTS
    A = A
    B = B
    Watched <- MCWatched
    Capacity = 1
    ErrorLimit = 2
    MaxTime = 2
PROPERTY BellEndsSession
CHECK_DEADLOCK FALSE
