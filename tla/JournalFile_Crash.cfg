\* Expected to fail: see the README, "What the program does not keep".
SPECIFICATION Spec
CONSTANTS
    A = A
    Symbols = {A}
    Registered <- MCRegistered
    Configs <- MCConfigs
    MaxShares = 2
    MaxLines = 4
PROPERTY CrashLosesOneBar
