---------------------------- MODULE FusionProofs ----------------------------
(***************************************************************************)
(* The fusion engine, alone: its invariant and its refinement of the       *)
(* heartbeat monitor, for any number of zones, pulses and summaries.       *)
(***************************************************************************)
EXTENDS FusionEngine, TLAPS

-----------------------------------------------------------------------------
(* The marks of the engine, whatever it is composed with.  A step of the   *)
(* whole either is one of the engine or leaves the marks alone.            *)

Misses(z) == IF last_zone_seen[z] = 1 THEN 0
             ELSE IF zone_failed_state[z] = 1 THEN 2 ELSE 1

\* No zone becomes heard and failed at once.
LEMMA MarksStep ==
    ASSUME CenTypeOK, SeenNotFailed, CenStep \/ UNCHANGED cenLocals
    PROVE  SeenNotFailed'
  <1> USE DEF CenTypeOK, SeenNotFailed
  <1>1. CASE CenPulse
    BY <1>1 DEF CenPulse, Verdict, ResetSeen, Monitored
  <1>2. ASSUME NEW z \in Zones, CenSummary(z) PROVE SeenNotFailed'
    BY <1>2 DEF CenSummary
  <1>3. CASE UNCHANGED cenLocals
    BY <1>3 DEF cenLocals
  <1> QED
    BY <1>1, <1>2, <1>3 DEF CenStep, CenAttach, CenAttachFails, CenLoop, CenDetach

\* The flags start as one missed check.
LEMMA MonitorInit == CenInit => HM!Init
  BY DEF CenInit, HM!Init, Monitored

\* Every step is a check, a beat or nothing to the monitor.
LEMMA MonitorStep ==
    ASSUME CenTypeOK, SeenNotFailed, CenStep \/ UNCHANGED cenLocals
    PROVE  [HM!Next]_([z \in Monitored |->
                         IF last_zone_seen[z] = 1 THEN 0
                         ELSE IF zone_failed_state[z] = 1 THEN 2 ELSE 1])
  <1> USE DEF CenTypeOK, SeenNotFailed, Misses
  <1>1. CASE CenPulse
    <2>1. HM!Check
      BY <1>1 DEF CenPulse, Verdict, ResetSeen, NextMessage, HM!Check, Monitored
    <2> QED
      BY <2>1 DEF HM!Next
  <1>2. ASSUME NEW z \in Zones, CenSummary(z), z \in Monitored
        PROVE  HM!Next
    <2>1. HM!Beat(z)
      BY <1>2 DEF CenSummary, SummaryReply, NextMessage, HM!Beat, Monitored
    <2> QED
      BY <1>2, <2>1 DEF HM!Next
  <1>3. ASSUME NEW z \in Zones, CenSummary(z), z \notin Monitored
        PROVE  \A y \in Monitored : Misses(y)' = Misses(y)
    BY <1>3 DEF CenSummary, SummaryReply, NextMessage, Monitored
  <1>4. CASE UNCHANGED cenLocals
    BY <1>4 DEF cenLocals
  <1> QED
    BY <1>1, <1>2, <1>3, <1>4 DEF CenStep, CenAttach, CenAttachFails, CenLoop, CenDetach

-----------------------------------------------------------------------------
(* Those who wait for the engine, and what the engine waits for.           *)

InLoop == cenPc \in {"loop", "receive", "detach"}

\* A blocked sender of a summary waits on a channel the engine still has; and
\* an engine that may wait in MsgReceive has a watchdog to wake it, unless the
\* timer could not be created.
EngineHeld ==
    /\ Attached(Central) <=> InLoop
    /\ summaryq # {} => InLoop
    /\ timer = "armed" => InLoop
    /\ InLoop => timer \in {"armed", "failed"}

\* The engine leaves its loop with the channel, the senders and the timer
\* taken care of.
LEMMA HeldStep ==
    ASSUME SessionTypeOK, CenTypeOK, EngineHeld, CenStep
    PROVE  EngineHeld'
  <1> USE DEF SessionTypeOK, CenTypeOK, EngineHeld, InLoop, Attached, NameIds, sessionVars
  <1>1. CASE CenAttach
    BY <1>1 DEF CenAttach, name_attach
  <1>2. CASE CenAttachFails
    BY <1>2 DEF CenAttachFails
  <1>3. CASE CenLoop
    BY <1>3 DEF CenLoop
  <1>4. CASE CenPulse
    BY <1>4 DEF CenPulse, NextMessage
  <1>5. ASSUME NEW z \in Zones, CenSummary(z) PROVE EngineHeld'
    BY <1>5 DEF CenSummary, SummaryReply, NextMessage
  <1>6. CASE CenDetach
    BY <1>6 DEF CenDetach, name_detach
  <1> QED
    BY <1>1, <1>2, <1>3, <1>4, <1>5, <1>6 DEF CenStep

-----------------------------------------------------------------------------
(* The engine alone, among any senders.                                    *)

FusionInv == FusionTypeOK /\ SeenNotFailed

\* Nobody else touches the marks.
LEMMA EngineAlone == [FusionNext]_fusionVars => CenStep \/ UNCHANGED cenLocals
  BY DEF FusionNext, CenSpawn, WatchdogFires, SummarySend, CenSignal, fusionVars, cenVars

\* The engine keeps its types, and no zone is both heard and failed.
THEOREM FusionInductive == FusionSpec => []FusionInv
  <1> USE FusionAssumption
      DEF FusionInv, FusionTypeOK, SessionTypeOK, CenTypeOK
  <1>1. FusionInit => FusionInv
    BY DEF FusionInit, SessionInit, CenInit, CenPcs, SeenNotFailed
  <1>2. FusionInv /\ [FusionNext]_fusionVars => FusionInv'
    <2> SUFFICES ASSUME FusionInv, [FusionNext]_fusionVars PROVE FusionTypeOK'
      BY EngineAlone, MarksStep
    <2> USE DEF sessionVars, cenLocals, NameIds, CenPcs
    <2>1. CASE CenSpawn
      BY <2>1 DEF CenSpawn
    <2>2. CASE CenAttach
      BY <2>2 DEF CenAttach, name_attach
    <2>3. CASE CenAttachFails
      BY <2>3 DEF CenAttachFails
    <2>4. CASE CenLoop
      BY <2>4 DEF CenLoop
    <2>5. CASE CenPulse
      BY <2>5 DEF CenPulse, Verdict, ResetSeen, NextMessage, Monitored
    <2>6. ASSUME NEW z \in Zones, CenSummary(z) PROVE FusionTypeOK'
      BY <2>6 DEF CenSummary, SummaryReply, NextMessage
    <2>7. CASE CenDetach
      BY <2>7 DEF CenDetach, name_detach
    <2>8. CASE WatchdogFires
      BY <2>8 DEF WatchdogFires
    <2>9. ASSUME NEW z \in Zones, SummarySend(z) PROVE FusionTypeOK'
      BY <2>9 DEF SummarySend
    <2>10. CASE CenSignal
      BY <2>10 DEF CenSignal, handle_shutdown
    <2>11. CASE UNCHANGED fusionVars
      BY <2>11 DEF fusionVars, cenVars
    <2> QED
      BY <2>1, <2>2, <2>3, <2>4, <2>5, <2>6, <2>7, <2>8, <2>9, <2>10, <2>11
         DEF FusionNext, CenStep
  <1> QED
    BY <1>1, <1>2, PTL DEF FusionSpec

\* No zone that has been heard since the last pulse is in its failed state.
THEOREM HeardIsNotFailed == FusionSpec => []SeenNotFailed
  <1>1. FusionInv => SeenNotFailed
    BY DEF FusionInv
  <1> QED
    BY <1>1, FusionInductive, PTL

\* No sender is blocked on a channel that is gone, and no engine waits without
\* its watchdog, whenever the signal comes (fusion_engine.c:25-37, 67, 111-117):
\* the safety half of SummaryAnswered and of EngineStops.
THEOREM EngineHolds == FusionSpec => []EngineHeld
  <1>1. FusionInit => EngineHeld
    BY DEF FusionInit, SessionInit, CenInit, EngineHeld, InLoop, Attached, NameIds
  <1>2. FusionInv /\ EngineHeld /\ [FusionNext]_fusionVars => EngineHeld'
    <2> SUFFICES ASSUME FusionInv, EngineHeld, [FusionNext]_fusionVars PROVE EngineHeld'
      OBVIOUS
    <2>1. CASE CenStep
      BY <2>1, HeldStep DEF FusionInv, FusionTypeOK
    <2> USE DEF EngineHeld, InLoop, Attached, sessionVars
    <2>2. CASE CenSpawn
      BY <2>2 DEF CenSpawn
    <2>3. CASE WatchdogFires
      BY <2>3 DEF WatchdogFires
    <2>4. ASSUME NEW z \in Zones, SummarySend(z) PROVE EngineHeld'
      BY <2>4 DEF SummarySend
    <2>5. CASE CenSignal
      BY <2>5 DEF CenSignal
    <2>6. CASE UNCHANGED fusionVars
      BY <2>6 DEF fusionVars, cenVars
    <2> QED
      BY <2>1, <2>2, <2>3, <2>4, <2>5, <2>6 DEF FusionNext
  <1> QED
    BY <1>1, <1>2, FusionInductive, PTL DEF FusionSpec

\* The watchdog of the fusion engine implements the heartbeat monitor: every
\* alarm it raises and every recovery it reports is one the monitor makes.
THEOREM MonitorImplemented == FusionSpec => ImplementsMonitor
  <1>1. FusionInv /\ [FusionNext]_fusionVars
          => [HM!Next]_([z \in Monitored |->
                           IF last_zone_seen[z] = 1 THEN 0
                           ELSE IF zone_failed_state[z] = 1 THEN 2 ELSE 1])
    BY EngineAlone, MonitorStep DEF FusionInv, FusionTypeOK
  <1>2. FusionInit => HM!Init
    BY MonitorInit DEF FusionInit
  <1> QED
    BY <1>1, <1>2, FusionInductive, PTL
       DEF FusionSpec, ImplementsMonitor, HM!Spec
=============================================================================
