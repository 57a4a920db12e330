SPECIFICATION Spec
CONSTANTS
    NUM_ZONES = 1
    TOTAL_SENSORS = 5
    ZONE_PROXIMITY = 0
    ZONE_VEHICLE_VITALS = 0
    target_zone <- SmallFleet
    AttachMayFail = {}
    NoMsg = NoMsg
    TICKS_PER_SECOND = 1
    MaxTicks = 1
    MaxSetBacks = 0
    ConnectMayAsk = {}
    SUMMARY_BATCH = 10
    THROTTLE_LIMIT = 15
    FAIL_START = 1
    FAIL_PERIOD = 1
    FAIL_DURATION = 0
    LAG_SENSOR = 0
    LAG_START = 0
    LAG_PERIOD = 1
    LAG_MS = 150
    CYCLE_WRAP = 1
    TimerMayFail = FALSE
    MaxPulses = 1
    SignalAllowed = FALSE
PROPERTIES
    OverloadThrottled
