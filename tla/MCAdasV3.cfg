SPECIFICATION MCSpec
CONSTANTS
    CreateMayFail <- MCCreateMayFail
    ReceiveMayFail = TRUE
    MaxSeconds = 2
    MaxCuts = 1
    MS_WRAP = 10000
    Distances <- MCDistances
    Sides <- MCSides
    Percents <- MCPercents
INVARIANTS
    BrakingIsMonotone
PROPERTIES
    ServedIfFusionFirst
    OnlyOwnStaleCuts
