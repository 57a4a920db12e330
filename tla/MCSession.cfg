SPECIFICATION Spec
CONSTANTS
    NUM_ZONES = 2
    TOTAL_SENSORS = 3
    ZONE_PROXIMITY = 1
    ZONE_VEHICLE_VITALS = 1
    target_zone <- SmallFleet
    AttachMayFail = {0, 2}
    NoMsg = NoMsg
    TICKS_PER_SECOND = 1
    MaxTicks = 1
    MaxSetBacks = 0
    ConnectMayAsk = {1}
    SUMMARY_BATCH = 2
    THROTTLE_LIMIT = 1
    FAIL_START = 2
    FAIL_PERIOD = 2
    FAIL_DURATION = 1
    LAG_SENSOR = 0
    LAG_START = 1
    LAG_PERIOD = 2
    LAG_MS = 150
    CYCLE_WRAP = 2
    TimerMayFail = TRUE
    MaxPulses = 1
    SignalAllowed = TRUE
INVARIANTS
    OneSampleAtATime
    NoOrphanedSender
    RightZone
    IInv
    EndsOnlyOnRequest
PROPERTIES
    ImplementsCalls
    SendReturns
    StreamRuns
    ShutdownCompletes
