---------------------------- MODULE BuiltProofs ----------------------------
(***************************************************************************)
(* The variant of v4 that is built: what it takes over from the session,   *)
(* and what its repeated alarms have to do with the latch of the other     *)
(* variant, for any number of zones and whoever sends summaries.           *)
(***************************************************************************)
EXTENDS BuiltSession, SessionProofs

BuiltInv == IInv /\ SeenNotFailed

\* Every step is one of the session's, or only queues a summary.
LEMMA BuiltStep ==
    ASSUME [BuiltNext]_builtVars
    PROVE  \/ [Next]_vars
           \/ \E z \in Zones : BuiltSummarySend(z)
  <1>1. CASE BuiltCentral /\ ~exited
    BY <1>1 DEF BuiltCentral, BuiltEngineStep, BuiltAttach, BuiltPulse, BuiltSummary,
                BuiltIdle, Engine, CenStep, Next
  <1>2. CASE ~BuiltCentral
    BY <1>2, SummarizersAssumption
       DEF BuiltNext, BuiltMain, BuiltZone, BuiltGenerator, BuiltWatchdog, BuiltClock,
           Next, builtVars
  <1>3. CASE BuiltCentral /\ exited
    BY <1>3 DEF BuiltNext, builtVars
  <1> QED
    BY <1>1, <1>2, <1>3

\* A queued summary disturbs nothing that the session relies on.
LEMMA SummaryKeeps ==
    ASSUME IInv, NEW z \in Zones, BuiltSummarySend(z)
    PROVE  IInv'
  <1> USE DEF IInv, BuiltSummarySend, SummarySend, sessionVars, ipcVars, clockVars, aggVars, aggData,
              genVars, mainVars, cenLocals
  <1>1. TypeOK'
    BY DEF TypeOK, SessionTypeOK, IpcTypeOK, AggTypeOK, GenTypeOK, CenTypeOK, NUM_THREADS
  <1>2. SpawnInv' /\ MutexInv' /\ BatchInv'
    BY DEF SpawnInv, MutexInv, BatchInv
  <1>3. SenderInv'
    BY DEF SenderInv, GenInv, QueueInv, ReplyInv, AttachInv, ServeInv, Attached, Listening,
           Serving
  <1>4. OwedInv' /\ StampInv'
    BY DEF OwedInv, StampInv, StampedBy, time_ms, Serving
  <1> QED
    BY <1>1, <1>2, <1>3, <1>4

\* The marks of the engine are touched by a pulse and a summary only, and
\* pulses are taken away by a pulse only.
LEMMA EngineFrame ==
    ASSUME IInv, [BuiltNext]_builtVars,
           ~BuiltPulse, ~ \E z \in Zones : BuiltSummary(z)
    PROVE  UNCHANGED cenLocals /\ pulses' >= pulses
  <1>1. pulses \in Nat
    BY FusionAssumption DEF IInv, TypeOK, CenTypeOK
  <1>2. CASE UNCHANGED cenVars
    BY <1>1, <1>2 DEF cenVars, cenLocals
  <1>3. CASE BuiltMain
    BY <1>1, <1>3 DEF BuiltMain, Main, MainSpawn, MainExit, cenVars, cenLocals
  <1>4. CASE BuiltWatchdog
    BY <1>1, <1>4 DEF BuiltWatchdog, Watchdog, WatchdogFires
  <1>5. CASE BuiltCentral
    BY <1>1, <1>5 DEF BuiltCentral, BuiltEngineStep, BuiltAttach, BuiltIdle, CenAttach,
                      CenLoop, CenAttachFails
  <1>6. ASSUME NEW z \in Zones, BuiltSummarySend(z)
        PROVE  UNCHANGED cenLocals /\ pulses' >= pulses
    BY <1>1, <1>6 DEF BuiltSummarySend, SummarySend
  <1> QED
    BY <1>2, <1>3, <1>4, <1>5, <1>6, SummarizersAssumption
       DEF BuiltNext, builtVars, vars, BuiltZone, BuiltGenerator, BuiltClock, Zone,
           Generator, Clock

\* Nobody but the engine touches its marks.
LEMMA BuiltMarks == [BuiltNext]_builtVars => CenStep \/ UNCHANGED cenLocals
  BY BuiltStep, SessionMarks DEF BuiltSummarySend, SummarySend

\* The invariant of the session holds in the built variant, and no zone is
\* both heard and lost.
THEOREM BuiltInductive == BuiltSafety => []BuiltInv
  <1>1. BuiltInit => BuiltInv
    BY InvInit DEF BuiltInit, BuiltInv, SeenNotFailed, Init, CenInit
  <1>2. BuiltInv /\ [BuiltNext]_builtVars => BuiltInv'
    <2> SUFFICES ASSUME BuiltInv, [BuiltNext]_builtVars PROVE BuiltInv'
      OBVIOUS
    <2>1. IInv'
      BY BuiltStep, InvStep, SummaryKeeps DEF BuiltInv
    <2>2. SeenNotFailed'
      BY BuiltMarks, MarksStep DEF BuiltInv, IInv, TypeOK
    <2> QED
      BY <2>1, <2>2 DEF BuiltInv
  <1> QED
    BY <1>1, <1>2, PTL DEF BuiltSafety

-----------------------------------------------------------------------------
(* What the built variant takes over from the session.                     *)

\* Nobody clears the flag.
LEMMA BuiltRuns == [BuiltNext]_builtVars => UNCHANGED g_keep_running
  BY DEF BuiltNext, BuiltMain, BuiltZone, BuiltGenerator, BuiltWatchdog, BuiltClock,
         BuiltCentral, BuiltEngineStep, BuiltAttach, BuiltPulse, BuiltSummary, BuiltIdle,
         BuiltSummarySend, Main, MainSpawn, MainExit, Zone, ZoneStep, ZoneAttach,
         ZoneAttachFails, ZoneLoop, ZoneReceive, ZoneReceiveOther, ZoneLock, ZoneProcess,
         ZoneReply, ZoneDetach, Generator, GenStep, GenOpen, GenAsk, GenOpenFails, GenTest,
         GenSkip, GenSend, GenResume, GenSleep, CenAttach, CenAttachFails, CenLoop,
         CenPulse, CenSummary, Watchdog, WatchdogFires, Clock, SummarySend, builtVars, vars,
         sessionVars

\* Without a signal: nobody leaves, and the process ends only if the name of
\* the central thread could not be attached.
BuiltForEver ==
    /\ g_keep_running
    /\ \A z \in Zones : aggPc[z] # "detach"
    /\ exited => names[Central] = "absent"

\* The built variant runs for ever, unless its central thread never starts:
\* no zone leaves, and nothing a zone or the generator does ends the process.
THEOREM BuiltNeverEnds == BuiltSafety => []BuiltForEver
  <1> DEFINE J == g_keep_running /\ StopInv /\ EndInv
  <1>1. BuiltInit => J
    BY DEF BuiltInit, Init, SessionInit, AggInit, CenInit, StopInv, EndInv, NameIds
  <1>2. BuiltInv /\ J /\ [BuiltNext]_builtVars => J'
    <2> SUFFICES ASSUME BuiltInv, J, [BuiltNext]_builtVars PROVE J'
      OBVIOUS
    <2>1. CASE [Next]_vars
      BY <2>1, BuiltRuns, StopStep, EndStep DEF BuiltInv, IInv
    <2>2. ASSUME NEW z \in Zones, BuiltSummarySend(z) PROVE J'
      BY <2>2 DEF BuiltSummarySend, SummarySend, sessionVars, aggVars, mainVars, StopInv, EndInv
    <2> QED
      BY <2>1, <2>2, BuiltStep
  <1>3. J => BuiltForEver
    BY DEF StopInv, EndInv, BuiltForEver
  <1> QED
    BY <1>1, <1>2, <1>3, BuiltInductive, PTL DEF BuiltSafety

\* Without a signal the zones never contend at all.
StrictlyOne == \A y, z \in Zones : Serving(y) /\ Serving(z) => y = z

\* What keeps the session safe keeps the built variant safe, whoever sends
\* summaries; and at most one zone ever works on a sample.
THEOREM BuiltSafe ==
    BuiltSafety => [](StrictlyOne /\ NeverThrottled /\ NoOrphanedSender /\ RightZone)
  <1>1. BuiltInv /\ BuiltForEver
          => StrictlyOne /\ NeverThrottled /\ NoOrphanedSender /\ RightZone
    BY Safe DEF BuiltInv, BuiltForEver, StrictlyOne, OneSampleAtATime
  <1> QED
    BY <1>1, BuiltInductive, BuiltNeverEnds, PTL

\* A lagged sample is marked as drifting in the built variant too, unless the
\* clock was set back between its stamp and its judgement.
THEOREM BuiltLag == BuiltSafety => LaggedSampleFlagged
  <1>1. BuiltInv /\ [BuiltNext]_builtVars => [Flagged]_vars
    <2> SUFFICES ASSUME BuiltInv, [BuiltNext]_builtVars PROVE [Flagged]_vars
      OBVIOUS
    <2>1. CASE [Next]_vars
      BY <2>1, FlagStep DEF BuiltInv
    <2>2. ASSUME NEW z \in Zones, BuiltSummarySend(z) PROVE Flagged
      BY <2>2 DEF BuiltSummarySend, aggVars, Flagged
    <2> QED
      BY <2>1, <2>2, BuiltStep
  <1> QED
    BY <1>1, BuiltInductive, PTL DEF BuiltSafety, LaggedSampleFlagged, Flagged

\* With the summaries of any set of zones under way, the engine of the built
\* variant implements the heartbeat monitor.
THEOREM BuiltMonitors == BuiltSafety => ImplementsMonitor
  <1>1. BuiltInit => HM!Init
    BY MonitorInit DEF BuiltInit, Init
  <1>2. BuiltInv /\ [BuiltNext]_builtVars
          => [HM!Next]_([z \in Monitored |->
                           IF last_zone_seen[z] = 1 THEN 0
                           ELSE IF zone_failed_state[z] = 1 THEN 2 ELSE 1])
    BY BuiltMarks, MonitorStep DEF BuiltInv, IInv, TypeOK
  <1> QED
    BY <1>1, <1>2, BuiltInductive, PTL DEF BuiltSafety, ImplementsMonitor, HM!Spec

\* In the built variant a summary is only ever queued on a channel the engine
\* has, so whoever sends one waits for an engine that is there; and the engine
\* keeps its watchdog, unless that could not be created
\* (v4_scaling/core/fusion_engine.c:53-70, 103-123).
THEOREM BuiltHolds == BuiltSafety => []EngineHeld
  <1>1. BuiltInit => EngineHeld
    BY DEF BuiltInit, Init, SessionInit, CenInit, EngineHeld, InLoop, Attached, NameIds
  <1>2. BuiltInv /\ EngineHeld /\ [BuiltNext]_builtVars => EngineHeld'
    <2> SUFFICES ASSUME BuiltInv, EngineHeld, [BuiltNext]_builtVars PROVE EngineHeld'
      OBVIOUS
    <2>1. CASE [Next]_vars
      BY <2>1, SessionHeld DEF BuiltInv, IInv
    <2>2. ASSUME NEW z \in Zones, BuiltSummarySend(z) PROVE EngineHeld'
      BY <2>2 DEF BuiltSummarySend, SummarySend, EngineHeld, InLoop, Attached, sessionVars
    <2> QED
      BY <2>1, <2>2, BuiltStep
  <1> QED
    BY <1>1, <1>2, BuiltInductive, PTL DEF BuiltSafety

\* The calls of the generator are calls of SampleCall; as nobody asks for a
\* shutdown, every one of them runs through all its stages.
THEOREM BuiltCalls == BuiltSafety => ImplementsCalls
  <1>1. BuiltInit => SC!Init
    BY CallInit DEF BuiltInit
  <1>2. BuiltInv /\ BuiltInv' /\ BuiltForEver /\ [BuiltNext]_builtVars
          => [SC!Next]_(SC!vars)
    <2> SUFFICES ASSUME BuiltInv, BuiltInv', BuiltForEver, [BuiltNext]_builtVars
                 PROVE  [SC!Next]_(SC!vars)
      OBVIOUS
    <2>1. CASE [Next]_vars
      BY <2>1, CallStep DEF BuiltInv, BuiltForEver, StopInv
    <2>2. ASSUME NEW z \in Zones, BuiltSummarySend(z) PROVE UNCHANGED SC!vars
      BY <2>2, CallFrame, OrphanFrame
         DEF BuiltSummarySend, SummarySend, sessionVars, ipcVars, aggVars, genVars, SC!vars
    <2> QED
      BY <2>1, <2>2, BuiltStep
  <1> QED
    BY <1>1, <1>2, BuiltInductive, BuiltNeverEnds, PTL
       DEF BuiltSafety, ImplementsCalls, SC!Spec

-----------------------------------------------------------------------------
(* Alarms.                                                                 *)

\* An alarm is put under way by a pulse only.
LEMMA AlarmFrame ==
    ASSUME [BuiltNext]_builtVars, ~BuiltPulse, NEW z \in Zones
    PROVE  Report(z, 1) \in datagrams' => Report(z, 1) \in datagrams
  <1>1. CASE UNCHANGED reportVars
    BY <1>1 DEF reportVars, telemetryVars
  <1>2. CASE TelemetryStep
    BY <1>2 DEF TelemetryStep, Emit, Lose, UdpError, PageComesOrGoes
  <1>3. ASSUME NEW y, send_dashboard_data({Report(y, 0)})
        PROVE  Report(z, 1) \in datagrams' => Report(z, 1) \in datagrams
    BY <1>3 DEF send_dashboard_data, sendto, Report, reportVars, telemetryVars
  <1> QED
    BY <1>1, <1>2, <1>3
       DEF BuiltNext, builtVars, BuiltMain, BuiltZone, BuiltGenerator, BuiltWatchdog,
           BuiltClock, BuiltCentral, BuiltEngineStep, BuiltAttach, BuiltSummary, BuiltIdle,
           BuiltSummarySend

\* The zones a pulse finds silent are those that are lost after it.
LEMMA SilentIsLost ==
    ASSUME BuiltInv, BuiltPulse, NEW z \in Zones
    PROVE  z \in Alarmed <=> zone_failed_state'[z] = 1
  BY DEF BuiltInv, SeenNotFailed, IInv, TypeOK, CenTypeOK, BuiltPulse, CenPulse, Verdict,
         Alarmed, Monitored

\* The repeated alarms of the built variant name exactly the zones that the
\* latch of the other variant holds.
THEOREM AlarmsCorrect == BuiltSafety => AlarmsAreTheLost
  <1> DEFINE new == {z \in Zones : Report(z, 1) \in datagrams' \ datagrams}
             lost == {z \in Zones : zone_failed_state'[z] = 1}
  <1>1. ASSUME BuiltInv, BuiltInv', [BuiltNext]_builtVars
        PROVE  /\ new \subseteq lost
               /\ pulses' < pulses /\ dashboard_sock =>
                     \A z \in lost : Report(z, 1) \in datagrams'
    <2>1. CASE BuiltPulse
      <3>1. \A z \in new : z \in Alarmed
        BY <2>1 DEF BuiltPulse, send_dashboard_data, sendto, Report, reportVars, telemetryVars
      <3>2. dashboard_sock => \A z \in Alarmed : Report(z, 1) \in datagrams'
        BY <2>1 DEF BuiltPulse, send_dashboard_data, sendto
      <3> QED
        BY <1>1, <2>1, <3>1, <3>2, SilentIsLost
    <2>2. CASE ~BuiltPulse
      <3>1. new = {}
        BY <1>1, <2>2, AlarmFrame
      <3>2. pulses' >= pulses
        <4>1. pulses \in Nat
          BY <1>1, FusionAssumption DEF BuiltInv, IInv, TypeOK, CenTypeOK
        <4>2. ASSUME NEW z \in Zones, BuiltSummary(z) PROVE pulses' = pulses
          BY <4>2 DEF BuiltSummary, CenSummary
        <4> QED
          BY <1>1, <2>2, <4>1, <4>2, EngineFrame DEF BuiltInv
      <3>3. pulses \in Int /\ pulses' \in Int
        BY <1>1, FusionAssumption DEF BuiltInv, IInv, TypeOK, CenTypeOK
      <3> QED
        BY <3>1, <3>2, <3>3
    <2> QED
      BY <2>1, <2>2
  <1> QED
    BY <1>1, BuiltInductive, PTL DEF BuiltSafety, AlarmsAreTheLost
=============================================================================
