\* Expected to fail: see the README, "What the program does not keep".
\* In place of NewsOnce also FeedErrorsAreData.
SPECIFICATION Spec
CONSTANTS
    A = A
    B = B
    Watched <- MCWatched
    Capacity = 1
    ErrorLimit = 2
    MaxTime = 2
INVARIANT NewsOnce
CHECK_DEADLOCK FALSE
