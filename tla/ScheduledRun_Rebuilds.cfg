\* Expected to fail: see the README, "What the program does not keep".
SPECIFICATION Spec
CONSTANTS
    Capacity = 4
    MaxWindow = 3
    Fast = 2
    Slow = 3
    Window = 3
    EntryNum <- MCEntryNum
    ExitNum <- MCExitNum
    ZDen = 5
    Lookback = 2
    ThresholdNum = 1
    ThresholdDen = 2
    Bars <- MCBars
    MaxBars = 5
    Warmup = 4
INVARIANT WarmUpRebuilds
CHECK_DEADLOCK FALSE
