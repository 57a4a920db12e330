SPECIFICATION Spec
CONSTANTS
    CreateMayFail = {}
    ReceiveMayFail = FALSE
    MaxSeconds = 1
    MaxCuts = 1
    MS_WRAP = 10000
PROPERTIES
    SensorsServed
