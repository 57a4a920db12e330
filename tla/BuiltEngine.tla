---------------------------- MODULE BuiltEngine ----------------------------
(***************************************************************************)
(* v4_scaling/core/fusion_engine.c, the variant the Makefile builds.  It   *)
(* is the engine of FusionEngine with three differences: its loop has no   *)
(* flag to test (g_keep_running stays TRUE), a silent zone is reported at  *)
(* every pulse, and every event is reported to the dashboard.              *)
(*                                                                         *)
(* zone_failed_state is a history variable here: this variant keeps no     *)
(* latch, so the alarms can be held against the one of the other variant.  *)
(***************************************************************************)
EXTENDS FusionEngine, Telemetry

CONSTANT SocketMayFail      \* may socket() return -1?

VARIABLE dashboard_sock     \* is the socket of the reports open?

reportVars == <<telemetryVars, dashboard_sock>>

ReportInit == TelemetryInit /\ dashboard_sock = FALSE

\* The json of send_dashboard_data; zone -1 is "server".
Report(zone, faults) == [zone |-> zone, faults |-> faults]
Reports == [zone : Zones \cup {-1}, faults : 0 .. 1]

\* One call of send_dashboard_data for each report.  A socket that cannot be
\* opened is tried again by the next call; if that is a later report of the
\* same step, the earlier ones are lost as datagrams are.
send_dashboard_data(ms) ==
    \/ dashboard_sock' = (dashboard_sock \/ ms # {}) /\ sendto(ms)
    \/ /\ SocketMayFail /\ ~dashboard_sock
       /\ UNCHANGED reportVars

\* Slips that the properties notice, one mutation each.
AlarmOnce    == {z \in Monitored : last_zone_seen[z] = 0 /\ zone_failed_state[z] = 0}
AlarmAnybody == {z \in Zones : last_zone_seen[z] = 0}

\* The zones a pulse finds silent.
Alarmed == {z \in Monitored : last_zone_seen[z] = 0}

BuiltAttach  == CenAttach /\ send_dashboard_data({Report(-1, 0)})
BuiltPulse   == CenPulse /\ send_dashboard_data({Report(z, 1) : z \in Alarmed})
BuiltSummary(z) == CenSummary(z) /\ send_dashboard_data({Report(z, 0)})

\* The rest of the thread: while (1), and a name that cannot be attached.
BuiltIdle == (CenLoop \/ CenAttachFails) /\ UNCHANGED reportVars

BuiltEngineStep ==
    BuiltAttach \/ BuiltPulse \/ BuiltIdle \/ \E z \in Zones : BuiltSummary(z)
=============================================================================
