SPECIFICATION FairSpec
CONSTANTS
    A = A
    B = B
    C = C
    Symbols = {A, B}
    Prices = {1, 2}
    Weights = {0, 1}
    WeightScale = 1
    FractionNum = 1
    FractionDen = 2
    BandNum = 1
    BandDen = 5
    MaxPositions = 1
    DrawdownNum = 3
    DrawdownDen = 5
    StartingCash = 4
    Modes = {"once"}
    DryRuns = {TRUE, FALSE}
    MaxPolls = 2
    MaxOrders = 2
INVARIANTS
    BeliefExplained
    NeverStacks
PROPERTY
    OnceFinishes
