----------------------------- MODULE ZonalConfig -----------------------------
(***************************************************************************)
(* The static configuration of the v4 session (common/zonal_config.h): the *)
(* zones, the sensors and the zone every sensor reports to.                *)
(***************************************************************************)
EXTENDS Integers, FiniteSets

CONSTANTS
    NUM_ZONES,              \* number of zonal aggregators
    TOTAL_SENSORS,          \* number of simulated sensors
    ZONE_PROXIMITY,         \* the zone whose power failure is simulated
    ZONE_VEHICLE_VITALS,    \* the zone the watchdog does not monitor
    target_zone             \* HARDCODED_FLEET[sid].target_zone

\* Threads and names are numbered as main creates them: the zones first.
Zones   == 0 .. NUM_ZONES - 1
Sensors == 0 .. TOTAL_SENSORS - 1

ASSUME ConfigAssumption ==
    /\ NUM_ZONES \in Nat \ {0}
    /\ TOTAL_SENSORS \in Nat \ {0}
    /\ ZONE_PROXIMITY \in Zones
    /\ ZONE_VEHICLE_VITALS \in Zones
    /\ target_zone \in [Sensors -> Zones]
=============================================================================
