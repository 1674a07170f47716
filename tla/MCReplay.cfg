\* Weights are halves: -1 (short, flat), 1/2, and 3/2 (clamped to full).
SPECIFICATION Spec
CONSTANTS
    a = a
    b = b
    c = c
    Symbols <- MCSymbols
    Prices <- MCPrices
    Weights <- MCWeights
    WeightScale = 2
    FractionNum = 1
    FractionDen = 1
    MaxPositions = 2
    DrawdownNum = 1
    DrawdownDen = 3
    BandNum = 1
    BandDen = 5
    StartingCash = 13
    MaxBars = 4
SYMMETRY Symmetry
INVARIANTS
    TypeOK
    BooksAgree
    NeverThrows
    WithinSlots
    DrawdownRule
    MetricsTellTheRun
    ReportConserves
PROPERTIES
    RoundingStaysSmall
    FillSettles
    ImplementsLedger
CHECK_DEADLOCK FALSE
