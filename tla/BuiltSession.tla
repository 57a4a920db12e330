---------------------------- MODULE BuiltSession ----------------------------
(***************************************************************************)
(* The variant of v4 that v4_scaling/Makefile builds, with its telemetry.  *)
(*                                                                         *)
(* Its aggregators, generator and main take the steps of AdasSession, with *)
(* these differences: no thread tests a flag and no signal is handled, so  *)
(* g_keep_running stays TRUE and no thread but an unattached one ends; the *)
(* generator's failure and lag follow other constants (FAIL_START and      *)
(* FAIL_PERIOD 15, FAIL_DURATION 1; LAG_START 0, LAG_PERIOD 5); and        *)
(* sensor_drift_active is a history variable: the drift line is printed    *)
(* for every late sample.                                                  *)
(***************************************************************************)
EXTENDS AdasSession, BuiltEngine

CONSTANT Summarizers        \* zones that send summaries: none in the source

ASSUME SummarizersAssumption == Summarizers \subseteq Zones

builtVars == <<vars, reportVars>>

BuiltInit == Init /\ ReportInit

BuiltMain      == Main /\ UNCHANGED reportVars
BuiltZone(z)   == Zone(z) /\ UNCHANGED reportVars
BuiltGenerator == Generator /\ UNCHANGED reportVars
BuiltWatchdog  == Watchdog /\ UNCHANGED reportVars
BuiltClock     == Clock /\ UNCHANGED reportVars
BuiltCentral   == BuiltEngineStep /\ UNCHANGED <<ipcVars, aggVars, genVars, mainVars>>

\* A summary as the engine expects it, from whoever might send one.
BuiltSummarySend(z) ==
    /\ SummarySend(z)
    /\ UNCHANGED <<ipcVars, aggVars, genVars, mainVars, reportVars>>

\* The server and the network outlive the process.
BuiltNext ==
    \/ /\ ~exited
       /\ \/ BuiltMain
          \/ \E z \in Zones : BuiltZone(z)
          \/ BuiltGenerator \/ BuiltCentral \/ BuiltWatchdog \/ BuiltClock
          \/ \E z \in Summarizers : BuiltSummarySend(z)
    \/ TelemetryStep /\ UNCHANGED <<vars, dashboard_sock>>
    \/ exited /\ UNCHANGED builtVars

\* What the property needs, and no more: the engine runs and passes over no
\* message (see FusionEngine), its timer fires, and a report that is sent again
\* and again gets through some time, as the network is not down for ever.
BuiltFairness ==
    /\ WF_builtVars(~exited /\ BuiltCentral)
    /\ SF_builtVars(~exited /\ BuiltCentral /\ BuiltPulse)
    /\ WF_builtVars(~exited /\ BuiltWatchdog)
    /\ \A z \in Monitored :
          SF_builtVars(Emit(Report(z, 1)) /\ UNCHANGED <<vars, dashboard_sock>>)

BuiltSafety == BuiltInit /\ [][BuiltNext]_builtVars
BuiltSpec == BuiltSafety /\ BuiltFairness

-----------------------------------------------------------------------------
(* Properties.                                                             *)

\* The two variants agree on who is lost: the zones reported at a pulse are
\* those the latch of the other variant holds after it, although one says it
\* at every pulse and the other once.  No other step sends an alarm
\* (fusion_engine.c:91-98; src/core/fusion_engine.c:74-83, 88-94).
AlarmsAreTheLost ==
    [][LET new == {z \in Zones : Report(z, 1) \in datagrams' \ datagrams}
           lost == {z \in Zones : zone_failed_state'[z] = 1}
       IN  /\ new \subseteq lost
           /\ pulses' < pulses /\ dashboard_sock =>
                 \A z \in lost : Report(z, 1) \in datagrams']_builtVars

\* A zone that stays silent is shown on a page that stays, however many
\* datagrams are lost: nobody asks for a report again, and only the
\* repetition makes up for it (fusion_engine.c:91-98, 41; server.js:25-32).
AlarmShown ==
    \A z \in Monitored :
        <>[](/\ z \notin summaryq /\ timer = "armed" /\ dashboard_sock
             /\ udpServer = "bound" /\ connected)
            => []<><<Emit(Report(z, 1))>>_datagrams
=============================================================================
