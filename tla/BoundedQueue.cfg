\* Two of each side and room for two, so a wakeup can be stolen, and one thread
\* that may close the queue at any time.  Values differ so that order shows.
\* Every thread may end "done" after a close, so the system may stop.
SPECIFICATION FairSpec
CONSTANTS
    Producers = {p1, p2}
    Consumers = {c1, c2}
    Closers = {k}
    Values = {x, y}
    Capacity = 2
INVARIANTS
    TypeOK
    ConsumersNotForgotten
    ProducersNotForgotten
    CloseReachesEveryone
PROPERTIES
    CloseFrees
    SleepersAreServed
    ImplementsChannel
CHECK_DEADLOCK FALSE
