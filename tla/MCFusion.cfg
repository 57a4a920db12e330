SPECIFICATION FusionSpec
CONSTANTS
    NUM_ZONES = 3
    TOTAL_SENSORS = 1
    ZONE_PROXIMITY = 1
    ZONE_VEHICLE_VITALS = 2
    target_zone <- MCFleet
    AttachMayFail = {3}
    TimerMayFail = TRUE
    MaxPulses = 2
INVARIANTS
    SeenNotFailed
PROPERTIES
    ImplementsMonitor
    SilenceIsNoticed
    SummaryAnswered
    EngineStops
