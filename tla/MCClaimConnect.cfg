SPECIFICATION Spec
CONSTANTS
    NUM_ZONES = 2
    TOTAL_SENSORS = 2
    ZONE_PROXIMITY = 1
    ZONE_VEHICLE_VITALS = 0
    target_zone <- SmallFleet
    AttachMayFail = {}
    NoMsg = NoMsg
    TICKS_PER_SECOND = 1
    MaxTicks = 1
    MaxSetBacks = 0
    ConnectMayAsk = {0, 1}
    SUMMARY_BATCH = 10
    THROTTLE_LIMIT = 15
    FAIL_START = 2
    FAIL_PERIOD = 2
    FAIL_DURATION = 1
    LAG_SENSOR = 0
    LAG_START = 1
    LAG_PERIOD = 2
    LAG_MS = 150
    CYCLE_WRAP = 2
    TimerMayFail = FALSE
    MaxPulses = 1
    SignalAllowed = FALSE
PROPERTIES
    StreamBegins
