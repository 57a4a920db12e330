SPECIFICATION PageSpec
CONSTANTS
    MaxTimers = 2
    MaxCount = 2
INVARIANTS
    OneInterval
    NothingUncounted
PROPERTIES
    PulseFollowsFaults
    HighlightsEnd
