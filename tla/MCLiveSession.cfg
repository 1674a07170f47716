\* The session ends in "stopped", "halted", "failed" or "terminated".
SPECIFICATION FairSpec
CONSTANTS
    A = A
    B = B
    Watched <- MCWatched
    Capacity = 1
    ErrorLimit = 2
    MaxTime = 2
INVARIANTS
    TypeOK
    FeedOnlyInSession
    NewsOnceASession
    NothingDropped
PROPERTIES
    DeadFeedEndsSession
    LeavesBusyLoop
    OpeningIsNotSleptThrough
    UnblockedFeedIsJoined
CHECK_DEADLOCK FALSE
