SPECIFICATION Spec
CONSTANTS
    ReceiveMayFail = TRUE
INVARIANTS
    BlockedIsHeld
PROPERTIES
    ServedIfChannelFirst
    EndsWithoutChannel
CHECK_DEADLOCK FALSE
