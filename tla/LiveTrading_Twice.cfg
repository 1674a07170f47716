\* Expected to fail: see the README, "What the program does not keep".
\* In place of NotBoughtTwice also WithinSlots.
SPECIFICATION Spec
CONSTANTS
    A = A
    B = B
    C = C
    Symbols = {A, B}
    Prices = {1, 2}
    Weights = {0, 1}
    WeightScale = 1
    FractionNum = 1
    FractionDen = 2
    BandNum = 1
    BandDen = 5
    MaxPositions = 1
    DrawdownNum = 3
    DrawdownDen = 5
    StartingCash = 4
    Modes = {"once"}
    DryRuns = {FALSE}
    MaxPolls = 2
    MaxOrders = 2
SYMMETRY MCSymmetry
INVARIANT NotBoughtTwice
