--------------------------- MODULE FleetGenerator ---------------------------
(***************************************************************************)
(* sensors/fleet_generator.c: the thread that plays every sensor in turn,  *)
(* one synchronous MsgSend at a time, and injects the simulated faults.    *)
(* The values and confidences of the samples are read by no code and are   *)
(* left out, with the sensor conflict that only changes values.            *)
(***************************************************************************)
EXTENDS ZoneIpc

CONSTANTS
    FAIL_START,             \* 15: first cycle of the proximity power failures
    FAIL_PERIOD,            \* 20: cycles from one failure to the next
    FAIL_DURATION,          \* 6: cycles a failure lasts
    LAG_SENSOR,             \* 3: the sensor whose clock lags
    LAG_START,              \* 4: first cycle with injections
    LAG_PERIOD,             \* 7: cycles from one lagged sample to the next
    LAG_MS,                 \* 150: the lag
    CYCLE_WRAP              \* bound: cycle_count goes back by this much

\* Every cycle from FAIL_START on behaves as the one CYCLE_WRAP cycles later.
ASSUME GeneratorAssumption ==
    /\ FAIL_START \in Nat \ {0}
    /\ FAIL_PERIOD \in Nat \ {0}
    /\ FAIL_DURATION \in Nat
    /\ LAG_START \in 0 .. FAIL_START
    /\ LAG_PERIOD \in Nat \ {0}
    /\ LAG_MS \in Nat
    /\ CYCLE_WRAP \in Nat \ {0}
    /\ CYCLE_WRAP % FAIL_PERIOD = 0
    /\ CYCLE_WRAP % LAG_PERIOD = 0

VARIABLES
    genPc,
    coids,                  \* coids[z]: the zone connected, -1 before that
    cycle_count,
    sid                     \* index of the loop of the moment

genVars == <<genPc, coids, cycle_count, sid>>

GenPcs == {"unborn", "open", "opening", "test", "sweep", "blocked", "exited"}

GenTypeOK ==
    /\ genPc \in GenPcs
    /\ coids \in [Zones -> Zones \cup {-1}]
    /\ cycle_count \in Nat
    /\ sid \in Nat

GenInit ==
    /\ genPc = "unborn"
    /\ coids = [z \in Zones |-> -1]
    /\ cycle_count = 0
    /\ sid = 0

\* name_open in the order of the zones.  On -1 the source sleeps and calls
\* it again, whatever the flag says: the step waits until the name is there.
\* Here the name service completes the call.
GenOpen ==
    /\ genPc = "open"
    /\ Attached(sid)
    /\ coids' = [coids EXCEPT ![sid] = sid]
    /\ IF sid + 1 < NUM_ZONES
       THEN sid' = sid + 1 /\ genPc' = "open"
       ELSE sid' = 0 /\ genPc' = "test"
    /\ UNCHANGED <<sessionVars, ipcVars, cycle_count>>

\* Here name_open has to ask the thread behind the name, and blocks on it.
GenAsk ==
    /\ genPc = "open"
    /\ Attached(sid)
    /\ sid \in ConnectMayAsk
    /\ ConnectSend(sid)
    /\ genPc' = "opening"
    /\ UNCHANGED <<sessionVars, clockVars, coids, cycle_count, sid>>

\* The channel is gone before an answer came: -1, sleep, again.
GenOpenFails ==
    /\ genPc = "opening"
    /\ ~Attached(sid)
    /\ genPc' = "open"
    /\ UNCHANGED <<sessionVars, ipcVars, coids, cycle_count, sid>>

NextCycle(c) == IF c + 1 = FAIL_START + CYCLE_WRAP THEN FAIL_START ELSE c + 1

\* while (g_keep_running)
GenTest ==
    /\ genPc = "test"
    /\ sid' = 0
    /\ IF g_keep_running
       THEN cycle_count' = NextCycle(cycle_count) /\ genPc' = "sweep"
       ELSE UNCHANGED cycle_count /\ genPc' = "exited"
    /\ UNCHANGED <<sessionVars, ipcVars, coids>>

\* Simulated power failure of the proximity zone: its sensors say nothing.
Silenced(z, c) ==
    /\ z = ZONE_PROXIMITY
    /\ c >= FAIL_START
    /\ (c - FAIL_START) % FAIL_PERIOD < FAIL_DURATION

Lagging(s, c) == s = LAG_SENSOR /\ c >= LAG_START /\ c % LAG_PERIOD = 0

Stamped(s) ==
    [sensor_id |-> s,
     timestamp |-> time_ms - (IF Lagging(s, cycle_count) THEN LAG_MS ELSE 0),
     lagged    |-> Lagging(s, cycle_count),
     epoch     |-> setbacks]

GenSkip ==
    /\ genPc = "sweep"
    /\ sid < TOTAL_SENSORS
    /\ Silenced(target_zone[sid], cycle_count)
    /\ sid' = sid + 1
    /\ UNCHANGED <<sessionVars, ipcVars, genPc, coids, cycle_count>>

\* A slip the routing property notices: every sample over one connection.
FirstConnection(s) == coids[0]

\* The connection the samples of sensor s go over.
Connection(s) == coids[target_zone[s]]

\* MsgSend; its result is not looked at, so a zone that is gone (-1 at once)
\* only loses the sample.
GenSend ==
    /\ genPc = "sweep"
    /\ sid < TOTAL_SENSORS
    /\ ~Silenced(target_zone[sid], cycle_count)
    /\ LET to == Connection(sid)
       IN  IF Attached(to)
           THEN MsgSend(to, Stamped(sid)) /\ genPc' = "blocked" /\ sid' = sid
           ELSE sid' = sid + 1 /\ UNCHANGED <<sendq, rcvid, connectq, genPc>>
    /\ UNCHANGED <<sessionVars, clockVars, coids, cycle_count>>

\* MsgSend returns: replied to, or failed by a signal or a destroyed channel.
GenResume ==
    /\ genPc = "blocked"
    /\ Returned(Connection(sid))
    /\ genPc' = "sweep"
    /\ sid' = sid + 1
    /\ UNCHANGED <<sessionVars, ipcVars, coids, cycle_count>>

\* The sweep is over: usleep, then back to the loop test.
GenSleep ==
    /\ genPc = "sweep"
    /\ sid = TOTAL_SENSORS
    /\ genPc' = "test"
    /\ UNCHANGED <<sessionVars, ipcVars, coids, cycle_count, sid>>

GenStep ==
    \/ GenOpen \/ GenAsk  \/ GenOpenFails
    \/ GenTest \/ GenSkip \/ GenSend
    \/ GenResume \/ GenSleep
=============================================================================
