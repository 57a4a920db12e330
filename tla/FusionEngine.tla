---------------------------- MODULE FusionEngine ----------------------------
(***************************************************************************)
(* core/fusion_engine.c: the central thread.  It waits on one channel for  *)
(* the summaries of the zones and for the pulses of its watchdog timer,    *)
(* and keeps for every zone whether a summary came since the last pulse    *)
(* and whether the zone has been declared lost.                            *)
(*                                                                         *)
(* FusionSpec is the thread alone with an environment that may send any    *)
(* summary at any time and may raise the shutdown signal; AdasSession      *)
(* composes the same thread with the zones as they are.                    *)
(***************************************************************************)
EXTENDS SessionState

CONSTANTS
    TimerMayFail,           \* may timer_create return -1?
    MaxPulses               \* bound: watchdog pulses waiting on the channel

ASSUME FusionAssumption ==
    /\ TimerMayFail \in BOOLEAN
    /\ MaxPulses \in Nat \ {0}

VARIABLES
    cenPc,
    timer,                  \* the watchdog timer
    pulses,                 \* watchdog pulses waiting on the channel
    summaryq,               \* zones SEND-blocked with a summary
    last_zone_seen,
    zone_failed_state

cenLocals == <<last_zone_seen, zone_failed_state>>
cenVars == <<cenPc, timer, pulses, summaryq, cenLocals>>
fusionVars == <<sessionVars, cenVars>>

CenPcs == {"unborn", "start", "loop", "receive", "detach", "exited"}

CenTypeOK ==
    /\ cenPc \in CenPcs
    /\ timer \in {"none", "armed", "failed", "deleted"}
    /\ pulses \in 0 .. MaxPulses
    /\ summaryq \in SUBSET Zones
    /\ last_zone_seen \in [Zones -> 0 .. 1]
    /\ zone_failed_state \in [Zones -> 0 .. 1]

CenInit ==
    /\ cenPc = "unborn"
    /\ timer = "none"
    /\ pulses = 0
    /\ summaryq = {}
    /\ last_zone_seen = [z \in Zones |-> 0]
    /\ zone_failed_state = [z \in Zones |-> 0]

\* name_attach, then the timer.  A timer that cannot be created is reported
\* and the thread goes on without one.
CenAttach ==
    /\ cenPc = "start"
    /\ name_attach(Central)
    /\ \/ timer' = "armed"
       \/ TimerMayFail /\ timer' = "failed"
    /\ cenPc' = "loop"
    /\ UNCHANGED <<g_keep_running, pulses, summaryq, cenLocals>>

CenAttachFails ==
    /\ cenPc = "start"
    /\ Central \in AttachMayFail
    /\ cenPc' = "exited"
    /\ UNCHANGED <<sessionVars, timer, pulses, summaryq, cenLocals>>

\* while (g_keep_running)
CenLoop ==
    /\ cenPc = "loop"
    /\ cenPc' = IF g_keep_running THEN "receive" ELSE "detach"
    /\ UNCHANGED <<sessionVars, timer, pulses, summaryq, cenLocals>>

\* The timer expires (8 s after arming, then every 5 s): one more pulse.
WatchdogFires ==
    /\ timer = "armed"
    /\ pulses < MaxPulses
    /\ pulses' = pulses + 1
    /\ UNCHANGED <<sessionVars, cenPc, timer, summaryq, cenLocals>>

Monitored == Zones \ {ZONE_VEHICLE_VITALS}

\* Slips that the properties below notice, one mutation each.
VerdictOnAll(z)   == IF last_zone_seen[z] = 0 THEN 1 ELSE zone_failed_state[z]
KeepSeen          == UNCHANGED last_zone_seen
ReceiveAgain      == cenPc' = "receive"
ReplyForgotten(z) == UNCHANGED summaryq

\* What a watchdog pulse makes of zone z.
Verdict(z) ==
    IF z \in Monitored /\ last_zone_seen[z] = 0 THEN 1 ELSE zone_failed_state[z]

\* Reset for the next period.
ResetSeen == last_zone_seen' = [z \in Zones |-> 0]

\* Back to the loop test.
NextMessage == cenPc' = "loop"

\* MsgReply to the sender of z's summary.
SummaryReply(z) == summaryq' = summaryq \ {z}

\* MsgReceive returns a watchdog pulse.
CenPulse ==
    /\ cenPc = "receive"
    /\ pulses > 0
    /\ pulses' = pulses - 1
    /\ zone_failed_state' = [z \in Zones |-> Verdict(z)]
    /\ ResetSeen
    /\ NextMessage
    /\ UNCHANGED <<sessionVars, timer, summaryq>>

\* MsgReceive returns the summary of z, which is answered at once.
CenSummary(z) ==
    /\ cenPc = "receive"
    /\ z \in summaryq
    /\ SummaryReply(z)
    /\ zone_failed_state' = [zone_failed_state EXCEPT ![z] = 0]
    /\ last_zone_seen' = [last_zone_seen EXCEPT ![z] = 1]
    /\ NextMessage
    /\ UNCHANGED <<sessionVars, timer, pulses>>

\* timer_delete and name_detach; what still waits on the channel is failed.
CenDetach ==
    /\ cenPc = "detach"
    /\ timer' = IF timer = "armed" THEN "deleted" ELSE timer
    /\ name_detach(Central)
    /\ pulses' = 0
    /\ summaryq' = {}
    /\ cenPc' = "exited"
    /\ UNCHANGED <<g_keep_running, cenLocals>>

CenStep ==
    \/ CenAttach \/ CenAttachFails \/ CenLoop \/ CenPulse
    \/ \E z \in Zones : CenSummary(z)
    \/ CenDetach

-----------------------------------------------------------------------------
(* The thread alone.                                                       *)

\* pthread_create of the central thread.
CenSpawn ==
    /\ cenPc = "unborn"
    /\ cenPc' = "start"
    /\ UNCHANGED <<sessionVars, timer, pulses, summaryq, cenLocals>>

\* A zone's thread sends its summary: it is the sender of at most one.
SummarySend(z) ==
    /\ Attached(Central)
    /\ z \notin summaryq
    /\ summaryq' = summaryq \cup {z}
    /\ UNCHANGED <<sessionVars, cenPc, timer, pulses, cenLocals>>

\* SIGINT or SIGTERM.  Taken by the central thread in MsgReceive it also
\* makes MsgReceive return -1, which leaves the loop.
CenSignal ==
    /\ handle_shutdown
    /\ cenPc' \in {cenPc, IF cenPc = "receive" THEN "detach" ELSE cenPc}
    /\ UNCHANGED <<names, timer, pulses, summaryq, cenLocals>>

FusionInit == SessionInit /\ CenInit

FusionNext ==
    \/ CenSpawn
    \/ CenStep
    \/ WatchdogFires
    \/ \E z \in Zones : SummarySend(z)
    \/ CenSignal

\* The thread runs, its timer fires, and no message is passed over for ever:
\* MsgReceive takes them by priority and, within one, by arrival.
FusionFairness ==
    /\ WF_fusionVars(CenSpawn)
    /\ WF_fusionVars(CenAttach \/ CenAttachFails)
    /\ WF_fusionVars(CenLoop)
    /\ WF_fusionVars(CenDetach)
    /\ WF_fusionVars(WatchdogFires)
    /\ SF_fusionVars(CenPulse)
    /\ \A z \in Zones : SF_fusionVars(CenSummary(z))

FusionSpec == FusionInit /\ [][FusionNext]_fusionVars /\ FusionFairness

-----------------------------------------------------------------------------
(* Properties.                                                             *)

FusionTypeOK == SessionTypeOK /\ CenTypeOK

\* A zone that has been heard since the last pulse is not in its failed
\* state: the failsafe is never kept up for a zone that is back, and the
\* exempted zone never enters it (fusion_engine.c:74-83 against 88-94).
SeenNotFailed ==
    \A z \in Zones :
        /\ last_zone_seen[z] = 1 => zone_failed_state[z] = 0
        /\ zone_failed_state[z] = 1 => z \in Monitored

\* The watchdog of the source is the heartbeat monitor: with the flags read
\* as a count of missed checks, no interleaving of pulses and summaries
\* loses a beat, fails a zone too early or too late, or repeats an alarm.
HM == INSTANCE HeartbeatMonitor WITH
        misses <- [z \in Monitored |->
                     IF last_zone_seen[z] = 1 THEN 0
                     ELSE IF zone_failed_state[z] = 1 THEN 2 ELSE 1]

ImplementsMonitor == HM!Spec

\* A monitored zone that falls silent for good is in the failed state for
\* good, as long as the engine runs with its timer.
SilenceIsNoticed ==
    \A z \in Monitored :
        <>[](z \notin summaryq /\ g_keep_running /\ timer = "armed"
                /\ cenPc \in {"loop", "receive"})
            => <>[](zone_failed_state[z] = 1)

\* A zone that sends a summary is answered or told that the channel is gone:
\* no sender stays blocked on the fusion engine.
SummaryAnswered == \A z \in Zones : z \in summaryq ~> z \notin summaryq

\* After the shutdown signal the engine leaves its loop even when nobody
\* sends to it any more, because the watchdog wakes it.  (Without a timer it
\* may wait in MsgReceive for ever.)
EngineStops == ~g_keep_running ~> (cenPc = "exited" \/ timer = "failed")
=============================================================================
