SPECIFICATION BuiltSpec
CONSTANTS
    NUM_ZONES = 2
    TOTAL_SENSORS = 1
    ZONE_PROXIMITY = 1
    ZONE_VEHICLE_VITALS = 1
    target_zone <- SmallFleet
    AttachMayFail = {2}
    NoMsg = NoMsg
    TICKS_PER_SECOND = 1
    MaxTicks = 1
    MaxSetBacks = 1
    ConnectMayAsk = {}
    SUMMARY_BATCH = 1
    THROTTLE_LIMIT = 0
    FAIL_START = 1
    FAIL_PERIOD = 1
    FAIL_DURATION = 1
    LAG_SENSOR = 0
    LAG_START = 0
    LAG_PERIOD = 1
    LAG_MS = 150
    CYCLE_WRAP = 1
    TimerMayFail = FALSE
    MaxPulses = 1
    SignalAllowed = FALSE
    SocketMayFail = TRUE
    Summarizers = {0}
PROPERTIES
    LaggedSampleFlagged
    AlarmsAreTheLost
    AlarmShown
