SPECIFICATION Spec
CONSTANTS
    Capacity = 4
    MaxWindow = 3
    Fast = 2
    Slow = 3
    Window = 3
    EntryNum <- MCEntryNum
    ExitNum <- MCExitNum
    ZDen = 5
    Lookback = 2
    ThresholdNum = 1
    ThresholdDen = 2
    Bars <- MCBars
    MaxBars = 5
    Warmup = 5
INVARIANTS
    WarmUpIsExact
PROPERTIES
    TodayDoesNotCount
CHECK_DEADLOCK FALSE
