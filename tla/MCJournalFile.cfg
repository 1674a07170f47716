SPECIFICATION Spec
CONSTANTS
    A = A
    Symbols = {A}
    Registered <- MCRegistered
    Configs <- MCConfigs
    MaxShares = 2
    MaxLines = 6
INVARIANTS
    ReportMatchesAccount
    ReaderSeesRun
