--------------------------- MODULE SessionProofs ---------------------------
(***************************************************************************)
(* Safety of the session for every fleet, every number of zones and every  *)
(* period of the injected faults.                                          *)
(***************************************************************************)
EXTENDS AdasSession, FusionProofs

-----------------------------------------------------------------------------
(* Type correctness.                                                       *)

\* The parts of the type invariant, as one fact about the next state.
LEMMA TypeParts ==
    ASSUME SessionTypeOK', IpcTypeOK', AggTypeOK', GenTypeOK', CenTypeOK',
           (spawned \in 0 .. NUM_THREADS)', (exited \in BOOLEAN)'
    PROVE  TypeOK'
  BY DEF TypeOK

\* The initial state is well typed.
LEMMA InitType == Init => TypeOK
  <1> SUFFICES ASSUME Init PROVE TypeOK
    OBVIOUS
  <1>1. SessionTypeOK
    BY DEF Init, SessionInit, SessionTypeOK
  <1>2. IpcTypeOK
    BY ConfigAssumption, IpcAssumption DEF Init, IpcInit, IpcTypeOK
  <1>3. AggTypeOK
    BY ConfigAssumption DEF Init, AggInit, AggTypeOK, AggPcs, Free
  <1>4. GenTypeOK
    BY DEF Init, GenInit, GenTypeOK, GenPcs
  <1>5. CenTypeOK
    BY FusionAssumption DEF Init, CenInit, CenTypeOK, CenPcs
  <1>6. spawned \in 0 .. NUM_THREADS
    BY ConfigAssumption DEF Init, NUM_THREADS
  <1>7. exited \in BOOLEAN
    BY DEF Init
  <1> QED
    BY <1>1, <1>2, <1>3, <1>4, <1>5, <1>6, <1>7 DEF TypeOK

\* time_ms is an integer.
LEMMA TimeType == ASSUME now \in Nat PROVE time_ms \in Int
  BY IpcAssumption DEF time_ms, time_at

\* A stamped sample is one.
LEMMA StampedType ==
    ASSUME IpcTypeOK, NEW s \in Sensors PROVE Stamped(s) \in Sample
  <1>1. Lagging(s, cycle_count) \in BOOLEAN
    BY DEF Lagging
  <1>2. time_ms - (IF Lagging(s, cycle_count) THEN LAG_MS ELSE 0) \in Int
    BY TimeType, GeneratorAssumption DEF IpcTypeOK
  <1>3. setbacks \in Nat
    BY DEF IpcTypeOK
  <1> QED
    BY <1>1, <1>2, <1>3 DEF Stamped, Sample

\* A step of main keeps the types.
LEMMA MainType == ASSUME TypeOK, Main PROVE TypeOK'
  <1>1. CASE MainSpawn
    <2>1. SessionTypeOK' /\ IpcTypeOK'
      BY <1>1 DEF MainSpawn, TypeOK, SessionTypeOK, IpcTypeOK, sessionVars, ipcVars,
                  clockVars
    <2>2. spawned \in Nat /\ (spawned < NUM_ZONES => spawned \in Zones)
      BY ConfigAssumption DEF TypeOK, NUM_THREADS, Zones
    <2>3. aggPc' \in [Zones -> AggPcs] /\ genPc' \in GenPcs /\ cenPc' \in CenPcs
      BY <1>1, <2>2 DEF MainSpawn, TypeOK, AggTypeOK, GenTypeOK, CenTypeOK,
                        ZoneGoto, AggPcs, GenPcs, CenPcs
    <2>4. AggTypeOK'
      BY <1>1, <2>3 DEF MainSpawn, TypeOK, AggTypeOK, aggData
    <2>5. GenTypeOK' /\ CenTypeOK'
      BY <1>1, <2>3 DEF MainSpawn, TypeOK, GenTypeOK, CenTypeOK, cenLocals
    <2>6. (spawned \in 0 .. NUM_THREADS)' /\ exited' = exited
      BY <1>1, ConfigAssumption DEF MainSpawn, TypeOK, NUM_THREADS
    <2> QED
      BY <2>1, <2>4, <2>5, <2>6 DEF TypeOK
  <1>2. CASE MainExit
    BY <1>2
       DEF MainExit, TypeOK, SessionTypeOK, IpcTypeOK, AggTypeOK, GenTypeOK, CenTypeOK,
           sessionVars, ipcVars, clockVars, aggVars, genVars, cenVars, cenLocals
  <1> QED
    BY <1>1, <1>2 DEF Main

\* A step of an aggregator keeps the types of what it touches.
LEMMA ZoneType ==
    ASSUME TypeOK, NEW z \in Zones, Zone(z)
    PROVE  TypeOK'
  <1> USE DEF TypeOK, SessionTypeOK, IpcTypeOK, AggTypeOK, sessionVars, ipcVars, clockVars,
              aggData, ZoneGoto
  <1>1. GenTypeOK' /\ CenTypeOK' /\ (spawned \in 0 .. NUM_THREADS)'
            /\ (exited \in BOOLEAN)'
    BY DEF Zone, GenTypeOK, CenTypeOK, genVars, cenVars, cenLocals, mainVars,
           NUM_THREADS
  <1>2. SessionTypeOK' /\ IpcTypeOK' /\ AggTypeOK'
    <2>1. CASE ZoneAttach(z)
      BY <2>1 DEF ZoneAttach, name_attach, NameIds, AggPcs
    <2>2. CASE ZoneAttachFails(z)
      BY <2>2 DEF ZoneAttachFails, AggPcs
    <2>3. CASE ZoneLoop(z)
      BY <2>3 DEF ZoneLoop, AggPcs
    <2>4. CASE ZoneReceive(z)
      BY <2>4, TimeType DEF ZoneReceive, MsgReceive, AggPcs
    <2>5. CASE ZoneLock(z)
      BY <2>5 DEF ZoneLock, AggPcs
    <2>6. CASE ZoneProcess(z)
      <3>1. sensor_drift_active' \in [Sensors -> BOOLEAN]
        <4>1. Drifting(z) \in BOOLEAN
          BY DEF Drifting
        <4> QED
          BY <2>6, <4>1 DEF ZoneProcess, Throttle, Cluster
      <3>2. raw_msg_count' \in [Zones -> Nat] /\ dropped_frames' \in [Zones -> Nat]
        BY <2>6 DEF ZoneProcess, Throttle, Cluster, BatchStart
      <3>3. aggPc' \in [Zones -> AggPcs] /\ state_mutex' \in Zones \cup {Free}
        BY <2>6 DEF ZoneProcess, AggPcs
      <3> QED
        BY <2>6, <3>1, <3>2, <3>3 DEF ZoneProcess
    <2>7. CASE ZoneReply(z)
      BY <2>7 DEF ZoneReply, MsgReply, AggPcs
    <2>8. CASE ZoneDetach(z)
      BY <2>8 DEF ZoneDetach, name_detach, ChannelDestroy, NameIds, AggPcs
    <2>9. CASE ZoneReceiveOther(z)
      BY <2>9 DEF ZoneReceiveOther, ConnectReceive, AggPcs
    <2> QED
      BY <2>1, <2>2, <2>3, <2>4, <2>5, <2>6, <2>7, <2>8, <2>9 DEF Zone, ZoneStep
  <1> QED
    BY <1>1, <1>2

\* A step of the generator keeps the types.
LEMMA GeneratorType == ASSUME TypeOK, GenInv, Generator PROVE TypeOK'
  <1> USE DEF TypeOK, SessionTypeOK, IpcTypeOK, GenTypeOK, sessionVars, ipcVars, clockVars
  <1>1. AggTypeOK' /\ CenTypeOK' /\ (spawned \in 0 .. NUM_THREADS)'
            /\ (exited \in BOOLEAN)'
    BY DEF Generator, AggTypeOK, CenTypeOK, aggVars, aggData, cenVars, cenLocals,
           mainVars, NUM_THREADS
  <1>2. SessionTypeOK' /\ IpcTypeOK' /\ GenTypeOK'
    <2>1. CASE GenOpen
      BY <2>1 DEF GenOpen, GenInv, GenPcs
    <2>2. CASE GenTest
      BY <2>2, GeneratorAssumption DEF GenTest, NextCycle, GenPcs
    <2>3. CASE GenSkip
      BY <2>3 DEF GenSkip, GenPcs
    <2>4. CASE GenSend
      <3>1. sid \in Sensors
        BY <2>4, ConfigAssumption DEF GenSend, Sensors
      <3>2. Stamped(sid) \in Sample
        BY <3>1, StampedType
      <3>3. IpcTypeOK'
        BY <2>4, <3>2 DEF GenSend, MsgSend
      <3>4. genPc' \in GenPcs /\ sid' \in Nat
        BY <2>4, <3>1 DEF GenSend, GenPcs, Sensors
      <3> QED
        BY <2>4, <3>3, <3>4 DEF GenSend
    <2>5. CASE GenResume
      BY <2>5 DEF GenResume, GenPcs
    <2>6. CASE GenSleep
      BY <2>6 DEF GenSleep, GenPcs
    <2>7. CASE GenAsk
      BY <2>7 DEF GenAsk, ConnectSend, GenInv, GenPcs
    <2>8. CASE GenOpenFails
      BY <2>8 DEF GenOpenFails, GenPcs
    <2> QED
      BY <2>1, <2>2, <2>3, <2>4, <2>5, <2>6, <2>7, <2>8 DEF Generator, GenStep
  <1> QED
    BY <1>1, <1>2

\* A step of the fusion engine, or of its timer, keeps the types.
LEMMA EngineType == ASSUME TypeOK, Engine \/ Watchdog PROVE TypeOK'
  <1> USE DEF TypeOK, SessionTypeOK, CenTypeOK, sessionVars, cenLocals
  <1>1. IpcTypeOK' /\ AggTypeOK' /\ GenTypeOK' /\ (spawned \in 0 .. NUM_THREADS)'
            /\ (exited \in BOOLEAN)'
    BY DEF Engine, Watchdog, IpcTypeOK, AggTypeOK, GenTypeOK, ipcVars, clockVars, aggVars,
           aggData, genVars, mainVars, NUM_THREADS
  <1>2. SessionTypeOK' /\ CenTypeOK'
    <2>1. CASE CenAttach
      BY <2>1 DEF CenAttach, name_attach, NameIds, CenPcs
    <2>2. CASE CenAttachFails
      BY <2>2 DEF CenAttachFails, CenPcs
    <2>3. CASE CenLoop
      BY <2>3 DEF CenLoop, CenPcs
    <2>4. CASE CenPulse
      BY <2>4, FusionAssumption DEF CenPulse, Verdict, ResetSeen, NextMessage, CenPcs
    <2>5. ASSUME NEW z \in Zones, CenSummary(z)
          PROVE  SessionTypeOK' /\ CenTypeOK'
      BY <2>5 DEF CenSummary, SummaryReply, NextMessage, CenPcs
    <2>6. CASE CenDetach
      BY <2>6, FusionAssumption DEF CenDetach, name_detach, NameIds, CenPcs
    <2>7. CASE WatchdogFires
      BY <2>7, FusionAssumption DEF WatchdogFires
    <2> QED
      BY <2>1, <2>2, <2>3, <2>4, <2>5, <2>6, <2>7 DEF Engine, Watchdog, CenStep
  <1> QED
    BY <1>1, <1>2

\* The clock and the signal keep the types.
LEMMA EnvironmentType == ASSUME TypeOK, Clock \/ Signal PROVE TypeOK'
  <1>1. CASE Clock
    BY <1>1
       DEF Clock, Tick, SetBack, TypeOK, SessionTypeOK, IpcTypeOK, AggTypeOK, GenTypeOK,
           CenTypeOK, sessionVars, aggVars, aggData, genVars, cenVars, cenLocals, mainVars,
           NUM_THREADS
  <1>2. CASE Signal
    <2> USE <1>2 DEF Signal
    <2>1. SessionTypeOK' /\ (spawned \in 0 .. NUM_THREADS)' /\ (exited \in BOOLEAN)'
      BY DEF handle_shutdown, TypeOK, SessionTypeOK, mainVars, NUM_THREADS
    <2>2. IpcTypeOK'
      BY DEF InterruptNone, InterruptZone, InterruptCentral, InterruptSend, InterruptOpen,
             TypeOK, IpcTypeOK, ipcVars, clockVars
    <2>3. AggTypeOK'
      BY DEF InterruptNone, InterruptZone, InterruptCentral, InterruptSend, InterruptOpen,
             TypeOK, AggTypeOK, aggVars, aggData, ZoneGoto, AggPcs
    <2>4. GenTypeOK'
      BY DEF InterruptNone, InterruptZone, InterruptCentral, InterruptSend, InterruptOpen,
             TypeOK, GenTypeOK, genVars, GenPcs
    <2>5. CenTypeOK'
      BY DEF InterruptNone, InterruptZone, InterruptCentral, InterruptSend, InterruptOpen,
             TypeOK, CenTypeOK, cenVars, cenLocals, CenPcs
    <2> QED
      BY <2>1, <2>2, <2>3, <2>4, <2>5 DEF TypeOK
  <1> QED
    BY <1>1, <1>2

\* Every step keeps the types.
LEMMA TypeStep == ASSUME TypeOK, GenInv, [Next]_vars PROVE TypeOK'
  <1>1. CASE Next
    BY <1>1, MainType, ZoneType, GeneratorType, EngineType, EnvironmentType
       DEF Next, TypeOK, SessionTypeOK, IpcTypeOK, AggTypeOK, GenTypeOK, CenTypeOK,
           NUM_THREADS, vars, sessionVars, ipcVars, clockVars, aggVars, genVars, cenVars,
           cenLocals, mainVars
  <1>2. CASE UNCHANGED vars
    BY <1>2
       DEF TypeOK, SessionTypeOK, IpcTypeOK, AggTypeOK, GenTypeOK, CenTypeOK, NUM_THREADS,
           vars, sessionVars, ipcVars, clockVars, aggVars, genVars, cenVars, cenLocals,
           mainVars
  <1> QED
    BY <1>1, <1>2

-----------------------------------------------------------------------------
(* The mutex and the batch.                                                *)

\* The order of pthread_create is kept.
LEMMA SpawnStep == ASSUME TypeOK, SpawnInv, [Next]_vars PROVE SpawnInv'
  <1> USE ConfigAssumption DEF SpawnInv, TypeOK, AggTypeOK, Zones, Central, NUM_THREADS
  <1>1. CASE MainSpawn
    BY <1>1 DEF MainSpawn, ZoneGoto
  <1>2. CASE MainExit
    BY <1>2 DEF MainExit, aggVars, genVars, cenVars
  <1>3. ASSUME NEW z \in Zones, Zone(z) PROVE SpawnInv'
    BY <1>3 DEF Zone, ZoneStep, ZoneAttach, ZoneAttachFails, ZoneLoop, ZoneReceive,
                ZoneReceiveOther, ZoneLock, ZoneProcess, ZoneReply, ZoneDetach, ZoneGoto,
                genVars, cenVars, mainVars
  <1>4. CASE Generator
    BY <1>4 DEF Generator, GenStep, GenOpen, GenAsk, GenOpenFails, GenTest, GenSkip,
                GenSend, GenResume, GenSleep, aggVars, cenVars, mainVars
  <1>5. CASE Engine
    BY <1>5 DEF Engine, CenStep, CenAttach, CenAttachFails, CenLoop, CenPulse,
                CenSummary, CenDetach, aggVars, genVars, mainVars
  <1>6. CASE Watchdog \/ Clock
    BY <1>6 DEF Watchdog, WatchdogFires, Clock, aggVars, genVars, cenVars, mainVars
  <1>7. CASE Signal
    BY <1>7 DEF Signal, InterruptNone, InterruptZone, InterruptCentral, InterruptSend,
                InterruptOpen, ZoneGoto, aggVars, genVars, cenVars, mainVars
  <1>8. CASE UNCHANGED vars
    BY <1>8 DEF vars, aggVars, genVars, cenVars, mainVars
  <1> QED
    BY <1>1, <1>2, <1>3, <1>4, <1>5, <1>6, <1>7, <1>8 DEF Next, Main

\* Only the zones' own steps, their creation and a signal touch the state of
\* the aggregators, and the last two only their pc.
LEMMA AggFrame ==
    ASSUME TypeOK, SpawnInv, [Next]_vars,
           ~ \E z \in Zones : Zone(z)
    PROVE  /\ UNCHANGED aggData
           /\ \/ UNCHANGED aggPc
              \/ \E z \in Zones : aggPc[z] = "unborn" /\ ZoneGoto(z, "start")
              \/ \E z \in Zones : aggPc[z] = "receive" /\ ZoneGoto(z, "detach")
  <1>1. CASE MainSpawn
    <2>1. spawned < NUM_ZONES => spawned \in Zones /\ aggPc[spawned] = "unborn"
      BY ConfigAssumption DEF TypeOK, SpawnInv, NUM_THREADS, Zones
    <2> QED
      BY <1>1, <2>1 DEF MainSpawn
  <1>2. CASE MainExit
    BY <1>2 DEF MainExit, aggVars, aggData
  <1>3. CASE Generator \/ Engine \/ Watchdog \/ Clock
    BY <1>3 DEF Generator, Engine, Watchdog, Clock, aggVars, aggData
  <1>4. CASE Signal
    BY <1>4 DEF Signal, InterruptNone, InterruptZone, InterruptCentral, InterruptSend,
                InterruptOpen, aggVars, aggData
  <1>5. CASE UNCHANGED vars
    BY <1>5 DEF vars, aggVars, aggData
  <1> QED
    BY <1>1, <1>2, <1>3, <1>4, <1>5 DEF Next, Main

\* state_mutex is held exactly in the critical section.
LEMMA MutexStep ==
    ASSUME TypeOK, SpawnInv, MutexInv, [Next]_vars
    PROVE  MutexInv'
  <1> USE ConfigAssumption DEF MutexInv, TypeOK, AggTypeOK, ZoneGoto
  <1>1. ASSUME NEW z \in Zones, Zone(z) PROVE MutexInv'
    <2>1. Free \notin Zones
      BY DEF Free, Zones
    <2>2. CASE ZoneLock(z)
      BY <2>1, <2>2 DEF ZoneLock
    <2>3. CASE ZoneProcess(z)
      BY <2>1, <2>3 DEF ZoneProcess
    <2>4. CASE ZoneAttach(z) \/ ZoneAttachFails(z) \/ ZoneLoop(z)
      BY <2>4 DEF ZoneAttach, ZoneAttachFails, ZoneLoop, aggData
    <2>5. CASE ZoneReceive(z) \/ ZoneReceiveOther(z) \/ ZoneReply(z) \/ ZoneDetach(z)
      BY <2>5 DEF ZoneReceive, ZoneReceiveOther, ZoneReply, ZoneDetach, aggData
    <2> QED
      BY <1>1, <2>2, <2>3, <2>4, <2>5 DEF Zone, ZoneStep
  <1>2. CASE ~ \E z \in Zones : Zone(z)
    BY <1>2, AggFrame DEF aggData
  <1> QED
    BY <1>1, <1>2

\* The counters of a zone stay below the batch.
LEMMA BatchStep ==
    ASSUME TypeOK, SpawnInv, BatchInv, [Next]_vars
    PROVE  BatchInv'
  <1> USE AggregatorAssumption DEF BatchInv, TypeOK, AggTypeOK
  <1>1. ASSUME NEW z \in Zones, Zone(z) PROVE BatchInv'
    <2>1. CASE ZoneProcess(z)
      <3>1. raw_msg_count[z] <= THROTTLE_LIMIT
        OBVIOUS
      <3>2. Cluster(z)
        BY <2>1, <3>1 DEF ZoneProcess
      <3> QED
        BY <3>2 DEF Cluster, BatchFull, BatchStart
    <2>2. CASE UNCHANGED <<raw_msg_count, dropped_frames>>
      BY <2>2
    <2> QED
      BY <1>1, <2>1, <2>2
         DEF Zone, ZoneStep, ZoneAttach, ZoneAttachFails, ZoneLoop, ZoneReceive,
             ZoneReceiveOther, ZoneLock, ZoneReply, ZoneDetach, aggData
  <1>2. CASE ~ \E z \in Zones : Zone(z)
    BY <1>2, AggFrame DEF aggData
  <1> QED
    BY <1>1, <1>2

\* While the session runs, whoever serves owes a reply.
LEMMA OwedStep ==
    ASSUME TypeOK, SpawnInv, OwedInv, [Next]_vars
    PROVE  OwedInv'
  <1> USE DEF OwedInv, Serving, TypeOK, IpcTypeOK, AggTypeOK, ZoneGoto
  <1>1. ASSUME NEW z \in Zones, Zone(z) PROVE OwedInv'
    <2>1. CASE ZoneReceive(z)
      BY <2>1 DEF ZoneReceive, MsgReceive, sessionVars
    <2>2. CASE ZoneReply(z)
      BY <2>2 DEF ZoneReply, MsgReply, sessionVars
    <2>3. CASE ZoneLock(z) \/ ZoneProcess(z)
      BY <2>3 DEF ZoneLock, ZoneProcess, sessionVars, ipcVars
    <2>4. CASE ZoneAttach(z) \/ ZoneAttachFails(z) \/ ZoneLoop(z) \/ ZoneDetach(z)
      BY <2>4 DEF ZoneAttach, ZoneAttachFails, ZoneLoop, ZoneDetach, ChannelDestroy,
                  sessionVars, ipcVars
    <2>5. CASE ZoneReceiveOther(z)
      BY <2>5 DEF ZoneReceiveOther, ConnectReceive, sessionVars
    <2> QED
      BY <1>1, <2>1, <2>2, <2>3, <2>4, <2>5 DEF Zone, ZoneStep
  <1>2. CASE Signal
    BY <1>2 DEF Signal, handle_shutdown
  <1>3. CASE ~Signal /\ ~ \E z \in Zones : Zone(z)
    <2>1. UNCHANGED <<g_keep_running, rcvid>>
      BY <1>3 DEF Next, Main, MainSpawn, MainExit, Generator, GenStep, GenOpen, GenAsk,
                  GenOpenFails, GenTest, GenSkip, GenSend, MsgSend, ConnectSend, GenResume,
                  GenSleep, Engine, CenStep, CenAttach, CenAttachFails, CenLoop, CenPulse,
                  CenSummary, CenDetach, Watchdog, WatchdogFires, Clock, Tick, SetBack,
                  vars, sessionVars, ipcVars
    <2> QED
      BY <1>3, <2>1, AggFrame
  <1> QED
    BY <1>1, <1>2, <1>3

-----------------------------------------------------------------------------
(* The generator and the aggregators: who waits for whom.                  *)

\* The generator's own bookkeeping, whoever steps.
LEMMA GenInvStep ==
    ASSUME TypeOK, SpawnInv, GenInv, [Next]_vars
    PROVE  GenInv'
  <1> USE ConfigAssumption DEF GenInv, TypeOK, GenTypeOK
  <1>1. CASE Generator
    <2> USE DEF Zones, Sensors
    <2>1. CASE GenOpen \/ GenAsk \/ GenOpenFails
      BY <2>1 DEF GenOpen, GenAsk, GenOpenFails
    <2>2. CASE GenTest
      BY <2>2 DEF GenTest
    <2>3. CASE GenSkip \/ GenSend
      BY <2>3 DEF GenSkip, GenSend
    <2>4. CASE GenResume \/ GenSleep
      BY <2>4 DEF GenResume, GenSleep
    <2> QED
      BY <1>1, <2>1, <2>2, <2>3, <2>4 DEF Generator, GenStep
  <1>2. CASE MainSpawn
    <2>1. CASE UNCHANGED genPc
      BY <1>2, <2>1 DEF MainSpawn
    <2>2. CASE ~ UNCHANGED genPc
      <3>1. genPc = "unborn" /\ genPc' = "open"
        BY <1>2, <2>2 DEF MainSpawn, SpawnInv, NUM_THREADS, Central
      <3> QED
        BY <1>2, <3>1 DEF MainSpawn, Zones
    <2> QED
      BY <2>1, <2>2
  <1>3. CASE UNCHANGED genVars
    BY <1>3 DEF genVars
  <1>4. CASE InterruptOpen
    BY <1>4 DEF InterruptOpen
  <1> QED
    BY <1>1, <1>2, <1>3, <1>4
       DEF Next, Main, MainExit, Zone, Engine, Watchdog, Clock, Signal, InterruptNone,
           InterruptZone, InterruptCentral, InterruptSend, InterruptOpen, vars

\* A step of the aggregator of z: it takes the sample that waits for it,
\* serves it, answers it, or fails the sender by leaving.
LEMMA ZoneSender ==
    ASSUME TypeOK, SenderInv, NEW z \in Zones, Zone(z)
    PROVE  QueueInv' /\ ReplyInv' /\ AttachInv' /\ ServeInv'
  <1> USE DEF SenderInv, QueueInv, ReplyInv, AttachInv, ServeInv, Listening, TypeOK, SessionTypeOK,
              IpcTypeOK, AggTypeOK, Serving, Attached, ZoneGoto
  <1>1. UNCHANGED <<genPc, sid>>
    BY DEF Zone, genVars
  <1>2. z # Central
    BY ConfigAssumption DEF Zones, Central
  <1>3. CASE ZoneAttach(z)
    BY <1>1, <1>3 DEF ZoneAttach, name_attach, NameIds, ipcVars, aggData
  <1>4. CASE ZoneAttachFails(z) \/ ZoneLoop(z)
    BY <1>1, <1>4 DEF ZoneAttachFails, ZoneLoop, ipcVars, sessionVars, aggData
  <1>5. CASE ZoneReceive(z)
    <2>1. sendq[z] # NoMsg /\ z = target_zone[sid] /\ sendq[z].sensor_id = sid
      BY <1>5 DEF ZoneReceive, MsgReceive
    <2> QED
      BY <1>1, <1>5, <2>1 DEF ZoneReceive, MsgReceive, sessionVars
  <1>6. CASE ZoneLock(z) \/ ZoneProcess(z)
    BY <1>1, <1>6 DEF ZoneLock, ZoneProcess, ipcVars, sessionVars
  <1>7. CASE ZoneReply(z)
    BY <1>1, <1>7 DEF ZoneReply, MsgReply, sessionVars
  <1>8. CASE ZoneDetach(z)
    BY <1>1, <1>8 DEF ZoneDetach, name_detach, ChannelDestroy, NameIds, aggData
  <1>9. CASE ZoneReceiveOther(z)
    BY <1>1, <1>9 DEF ZoneReceiveOther, ConnectReceive, sessionVars, aggData
  <1> QED
    BY <1>3, <1>4, <1>5, <1>6, <1>7, <1>8, <1>9 DEF Zone, ZoneStep

\* A step of the generator: it starts a MsgSend when nothing waits, and goes
\* on when nothing waits for it any more.
LEMMA GeneratorSender ==
    ASSUME TypeOK, SenderInv, Generator
    PROVE  QueueInv' /\ ReplyInv' /\ AttachInv' /\ ServeInv'
  <1> USE DEF SenderInv, QueueInv, ReplyInv, AttachInv, ServeInv, Listening, TypeOK,
              IpcTypeOK, AggTypeOK, Serving, Attached
  <1>1. UNCHANGED <<aggPc, msg>>
    BY DEF Generator, aggVars
  <1>2. CASE GenOpen \/ GenAsk \/ GenOpenFails \/ GenTest \/ GenSkip \/ GenSleep
    BY <1>1, <1>2 DEF GenOpen, GenAsk, GenOpenFails, ConnectSend, GenTest, GenSkip,
                      GenSleep, ipcVars, sessionVars
  <1>3. CASE GenSend
    <2>1. sid \in Sensors /\ target_zone[sid] \in Zones
      BY <1>3, ConfigAssumption DEF GenSend, GenTypeOK, Sensors
    <2>2. coids[target_zone[sid]] = target_zone[sid]
      BY <1>3, <2>1 DEF GenSend, GenInv
    <2>3. \A z \in Zones : sendq[z] = NoMsg /\ ~rcvid[z]
      BY <1>3 DEF GenSend
    <2>4. Stamped(sid).sensor_id = sid
      BY DEF Stamped
    <2> QED
      BY <1>1, <1>3, <2>1, <2>2, <2>3, <2>4 DEF GenSend, MsgSend, Connection, sessionVars
  <1>4. CASE GenResume
    <2>1. sid \in Sensors /\ target_zone[sid] \in Zones
      BY <1>4, ConfigAssumption DEF GenResume, GenInv
    <2>2. \A z \in Zones : sendq[z] = NoMsg /\ ~rcvid[z]
      BY <1>4, <2>1 DEF GenResume, GenInv, Returned, Connection
    <2> QED
      BY <1>1, <1>4, <2>2 DEF GenResume, ipcVars, sessionVars
  <1> QED
    BY <1>2, <1>3, <1>4 DEF Generator, GenStep

\* The fusion engine attaches and detaches its own name only.
LEMMA EngineNames ==
    ASSUME TypeOK, Engine
    PROVE  \A z \in Zones : names'[z] = names[z]
  <1>1. \A z \in Zones : z # Central
    BY ConfigAssumption DEF Zones, Central
  <1>2. CASE UNCHANGED names
    BY <1>2
  <1>3. CASE name_attach(Central) \/ name_detach(Central)
    BY <1>1, <1>3 DEF name_attach, name_detach, TypeOK, SessionTypeOK, NameIds
  <1> QED
    BY <1>2, <1>3 DEF Engine, CenStep, CenAttach, CenAttachFails, CenLoop, CenPulse,
                      CenSummary, CenDetach, sessionVars

\* Main, the fusion engine, the clock and the signal: a pc moves outside the
\* serving ones, or the generator is taken out of MsgSend.
LEMMA OthersSender ==
    ASSUME TypeOK, SpawnInv, SenderInv,
           Main \/ Engine \/ Watchdog \/ Clock \/ Signal \/ UNCHANGED vars
    PROVE  QueueInv' /\ ReplyInv' /\ AttachInv' /\ ServeInv'
  <1> USE DEF SenderInv, QueueInv, ReplyInv, AttachInv, ServeInv, Listening, TypeOK, SessionTypeOK,
              IpcTypeOK, AggTypeOK, Serving, Attached
  <1>1. CASE MainSpawn
    <2>1. genPc = "blocked" => genPc' = "blocked"
      BY <1>1, ConfigAssumption DEF MainSpawn, SpawnInv, NUM_THREADS, Central
    <2>2. spawned < NUM_ZONES => spawned \in Zones /\ aggPc[spawned] = "unborn"
      BY <1>1, ConfigAssumption DEF MainSpawn, SpawnInv, NUM_THREADS, Zones
    <2> QED
      BY <1>1, <2>1, <2>2 DEF MainSpawn, ZoneGoto, ipcVars, sessionVars, aggData
  <1>2. CASE MainExit
    BY <1>2 DEF MainExit, ipcVars, sessionVars, aggVars, genVars
  <1>3. CASE Engine
    <2>1. \A z \in Zones : names'[z] = names[z]
      BY <1>3, EngineNames
    <2> QED
      BY <1>3, <2>1 DEF Engine, ipcVars, aggVars, genVars
  <1>4. CASE Watchdog
    BY <1>4 DEF Watchdog, WatchdogFires, ipcVars, sessionVars, aggVars, genVars
  <1>5. CASE Clock
    BY <1>5 DEF Clock, Tick, SetBack, sessionVars, aggVars, genVars
  <1>6. CASE Signal
    <2>1. CASE InterruptNone \/ InterruptCentral
      BY <1>6, <2>1 DEF Signal, InterruptNone, InterruptCentral, ipcVars, aggVars, genVars
    <2>2. CASE \E z \in Zones : InterruptZone(z)
      BY <1>6, <2>2 DEF Signal, InterruptZone, ZoneGoto, ipcVars, aggData, genVars
    <2>3. CASE InterruptSend
      BY <1>6, <2>3 DEF Signal, InterruptSend, aggVars, genVars
    <2>4. CASE InterruptOpen
      BY <1>6, <2>4 DEF Signal, InterruptOpen, aggVars
    <2> QED
      BY <1>6, <2>1, <2>2, <2>3, <2>4 DEF Signal
  <1>7. CASE UNCHANGED vars
    BY <1>7 DEF vars, ipcVars, sessionVars, aggVars, genVars
  <1> QED
    BY <1>1, <1>2, <1>3, <1>4, <1>5, <1>6, <1>7 DEF Main

-----------------------------------------------------------------------------
(* The stamps of the samples.                                              *)

\* Whole seconds do not go back with a clock that does not.
LEMMA TimeMonotone ==
    ASSUME NEW s \in Nat, NEW t \in Nat, s <= t
    PROVE  time_at(s) \in Int /\ time_at(s) <= time_at(t)
  <1> DEFINE q == s \div TICKS_PER_SECOND
             r == t \div TICKS_PER_SECOND
             n == TICKS_PER_SECOND
  <1>1. q \in Nat /\ r \in Nat /\ n \in Nat \ {0}
    BY IpcAssumption
  <1>2. n * q <= s /\ t < n * (r + 1)
    BY IpcAssumption
  <1>3. n * q < n * (r + 1)
    BY <1>1, <1>2
  <1>4. q < r + 1
    BY <1>1, <1>3
  <1> QED
    BY <1>1, <1>4 DEF time_at

\* A step of the clock goes on, or sets it back and says so.
LEMMA ClockStep ==
    ASSUME TypeOK, [Next]_vars
    PROVE  /\ setbacks' \in Nat /\ setbacks <= setbacks'
           /\ setbacks' = setbacks => time_ms' \in Int /\ time_ms <= time_ms'
  <1> USE DEF TypeOK, IpcTypeOK
  <1>1. UNCHANGED clockVars \/ Tick \/ SetBack
    BY DEF Next, Main, MainSpawn, MainExit, Zone, ZoneStep, ZoneAttach, ZoneAttachFails,
           ZoneLoop, ZoneReceive, ZoneReceiveOther, ZoneLock, ZoneProcess, ZoneReply,
           ZoneDetach, Generator, GenStep, GenOpen, GenAsk, GenOpenFails, GenTest, GenSkip,
           GenSend, GenResume, GenSleep, Engine, Watchdog, Clock, Signal, InterruptNone,
           InterruptZone, InterruptCentral, InterruptSend, InterruptOpen, vars, ipcVars
  <1>2. CASE UNCHANGED clockVars
    BY <1>2, TimeType DEF clockVars, time_ms
  <1>3. CASE Tick
    BY <1>3, TimeMonotone DEF Tick, time_ms
  <1>4. CASE SetBack
    BY <1>4 DEF SetBack
  <1> QED
    BY <1>1, <1>2, <1>3, <1>4

\* What is not ahead of one reading is not ahead of a later one, unless the
\* clock has been set back in between.
LEMMA StampKept ==
    ASSUME TypeOK, [Next]_vars, NEW m \in Sample
    PROVE  /\ StampedBy(m, time_ms) => StampedBy(m, time_ms)'
           /\ \A t \in Int : StampedBy(m, t) =>
                 /\ m.epoch <= setbacks'
                 /\ m.epoch = setbacks'
                      => m.timestamp + (IF m.lagged THEN LAG_MS ELSE 0) <= t
  <1>1. m.epoch \in Nat /\ m.timestamp \in Int /\ m.lagged \in BOOLEAN
    BY DEF Sample
  <1>2. setbacks \in Nat /\ time_ms \in Int
    BY TimeType DEF TypeOK, IpcTypeOK
  <1> QED
    BY <1>1, <1>2, ClockStep, GeneratorAssumption DEF StampedBy

\* Stamps are kept by every step: a sample is stamped when it is sent, and
\* the aggregator reads its clock when it takes it.
LEMMA StampStep ==
    ASSUME TypeOK, SpawnInv, SenderInv, StampInv, [Next]_vars
    PROVE  StampInv'
  <1> USE DEF TypeOK, IpcTypeOK, AggTypeOK
  <1> DEFINE Queued(z) == sendq[z] # NoMsg => StampedBy(sendq[z], time_ms)
             Held(z) == msg[z] # NoMsg => StampedBy(msg[z], now_ms[z])
  <1>1. SUFFICES ASSUME NEW z \in Zones PROVE Queued(z)' /\ Held(z)'
    BY DEF StampInv
  <1>2. Queued(z) /\ Held(z)
    BY DEF StampInv
  <1>3. (sendq'[z] = sendq[z] \/ sendq'[z] = NoMsg) => Queued(z)'
    BY <1>2, StampKept DEF StampedBy
  <1>4. (msg'[z] = msg[z] /\ now_ms'[z] = now_ms[z]) \/ msg'[z] = NoMsg => Held(z)'
    <2>1. now_ms[z] \in Int
      OBVIOUS
    <2> QED
      BY <1>2, <2>1, StampKept DEF StampedBy
  <1>5. ASSUME NEW y \in Zones, Zone(y) PROVE Queued(z)' /\ Held(z)'
    <2>1. CASE ZoneReceive(y) /\ y = z
      <3>1. /\ sendq'[z] = NoMsg /\ msg'[z] = sendq[z] /\ now_ms'[z] = time_ms
            /\ sendq[z] # NoMsg /\ setbacks' = setbacks
        BY <2>1 DEF ZoneReceive, MsgReceive, clockVars
      <3> QED
        BY <1>2, <1>3, <3>1 DEF StampedBy
    <2>2. CASE ~(ZoneReceive(y) /\ y = z)
      <3>1. sendq'[z] = sendq[z] \/ sendq'[z] = NoMsg
        BY <1>5, <2>2
           DEF Zone, ZoneStep, ZoneAttach, ZoneAttachFails, ZoneLoop, ZoneReceive,
               ZoneReceiveOther, ZoneLock, ZoneProcess, ZoneReply, ZoneDetach, MsgReceive,
               ConnectReceive, MsgReply, ChannelDestroy, ipcVars
      <3>2. (msg'[z] = msg[z] /\ now_ms'[z] = now_ms[z]) \/ msg'[z] = NoMsg
        BY <1>5, <2>2
           DEF Zone, ZoneStep, ZoneAttach, ZoneAttachFails, ZoneLoop, ZoneReceive,
               ZoneReceiveOther, ZoneLock, ZoneProcess, ZoneReply, ZoneDetach, aggData
      <3> QED
        BY <1>3, <1>4, <3>1, <3>2
    <2> QED
      BY <2>1, <2>2
  <1>6. CASE Generator
    <2>1. msg'[z] = msg[z] /\ now_ms'[z] = now_ms[z]
      BY <1>6 DEF Generator, aggVars
    <2>2. CASE sendq'[z] = sendq[z]
      BY <1>3, <1>4, <2>1, <2>2
    <2>3. CASE sendq'[z] # sendq[z]
      <3>1. sendq'[z] = Stamped(sid) /\ UNCHANGED clockVars
        BY <1>6, <2>3
           DEF Generator, GenStep, GenOpen, GenAsk, GenOpenFails, ConnectSend, GenTest,
               GenSkip, GenSend, MsgSend, GenResume, GenSleep, ipcVars
      <3>2. StampedBy(Stamped(sid), time_ms)
        BY TimeType, GeneratorAssumption DEF StampedBy, Stamped
      <3> QED
        BY <1>4, <2>1, <3>1, <3>2 DEF StampedBy, clockVars, time_ms
    <2> QED
      BY <2>2, <2>3
  <1>7. CASE ~(\E y \in Zones : Zone(y)) /\ ~Generator
    <2>1. UNCHANGED <<msg, now_ms>>
      BY <1>7, AggFrame DEF aggData
    <2>2. sendq'[z] = sendq[z] \/ sendq'[z] = NoMsg
      BY <1>7
         DEF Next, Main, MainSpawn, MainExit, Engine, Watchdog, Clock, Tick, SetBack,
             Signal, InterruptNone, InterruptZone, InterruptCentral, InterruptSend,
             InterruptOpen, vars, ipcVars
    <2> QED
      BY <1>3, <1>4, <2>1, <2>2
  <1> QED
    BY <1>5, <1>6, <1>7

-----------------------------------------------------------------------------
(* The results.                                                            *)

\* The invariant holds at the start.
LEMMA InvInit == Init => IInv
  <1> SUFFICES ASSUME Init PROVE IInv
    OBVIOUS
  <1>1. SpawnInv
    BY DEF Init, AggInit, CenInit, GenInit, SpawnInv
  <1>2. MutexInv
    BY DEF Init, AggInit, MutexInv, Free, Zones
  <1>3. BatchInv
    BY AggregatorAssumption DEF Init, AggInit, BatchInv
  <1>4. SenderInv
    BY DEF Init, SessionInit, IpcInit, AggInit, GenInit, SenderInv, GenInv, QueueInv,
           ReplyInv, AttachInv, ServeInv, Serving, Listening, Attached, NameIds
  <1>5. OwedInv /\ StampInv
    BY DEF Init, IpcInit, AggInit, OwedInv, Serving, StampInv
  <1> QED
    BY <1>1, <1>2, <1>3, <1>4, <1>5, InitType DEF IInv

\* Every step keeps the invariant, part by part.
LEMMA InvStep == IInv /\ [Next]_vars => IInv'
  <1> SUFFICES ASSUME IInv, [Next]_vars PROVE IInv'
    OBVIOUS
  <1>1. TypeOK' /\ SpawnInv' /\ MutexInv' /\ BatchInv' /\ GenInv'
    BY TypeStep, SpawnStep, MutexStep, BatchStep, GenInvStep DEF IInv, SenderInv
  <1>2. QueueInv' /\ ReplyInv' /\ AttachInv' /\ ServeInv'
    BY ZoneSender, GeneratorSender, OthersSender DEF IInv, Next
  <1>3. OwedInv' /\ StampInv'
    BY OwedStep, StampStep DEF IInv
  <1> QED
    BY <1>1, <1>2, <1>3 DEF IInv, SenderInv

\* The inductive invariant.
THEOREM Inductive == SafetySpec => []IInv
  BY InvInit, InvStep, PTL DEF SafetySpec

\* Every state of the session is well typed.
THEOREM TypeCorrect == SafetySpec => []TypeOK
  <1>1. IInv => TypeOK
    BY DEF IInv
  <1> QED
    BY <1>1, Inductive, PTL

\* What the invariant says of the mutex, the batch and the calls.
LEMMA Safe ==
    ASSUME IInv
    PROVE  OneSampleAtATime /\ NeverThrottled /\ NoOrphanedSender /\ RightZone
  <1>1. OneSampleAtATime
    BY DEF IInv, SenderInv, ReplyInv, OwedInv, MutexInv, OneSampleAtATime
  <1>2. NeverThrottled
    BY AggregatorAssumption DEF IInv, BatchInv, NeverThrottled, TypeOK, AggTypeOK
  <1>3. NoOrphanedSender
    <2> SUFFICES ASSUME genPc = "blocked" PROVE NoOrphanedSender
      BY DEF NoOrphanedSender
    <2>1. sid \in Sensors /\ target_zone[sid] \in Zones
      BY ConfigAssumption DEF IInv, SenderInv, GenInv
    <2>2. coids[target_zone[sid]] = target_zone[sid]
      BY <2>1 DEF IInv, SenderInv, GenInv
    <2> QED
      BY <2>1, <2>2
         DEF IInv, SenderInv, QueueInv, ReplyInv, AttachInv, NoOrphanedSender, Returned,
             Connection
  <1>4. RightZone
    BY DEF IInv, SenderInv, QueueInv, ReplyInv, ServeInv, RightZone
  <1> QED
    BY <1>1, <1>2, <1>3, <1>4

\* Zones contend for the mutex only after the signal, and then it keeps them
\* apart, for any number of zones.
THEOREM OneAtATime == SafetySpec => []OneSampleAtATime
  BY Safe, Inductive, PTL

\* The throttling branch is never taken, for any fleet and any batch that
\* fits under the limit.
THEOREM ThrottleUnreachable == SafetySpec => []NeverThrottled
  BY Safe, Inductive, PTL

\* The generator is never left blocked on a thread that cannot wake it.
THEOREM SenderCorrect == SafetySpec => []NoOrphanedSender
  BY Safe, Inductive, PTL

\* Samples reach the zone of their sensor only, one call at a time.
THEOREM RoutingCorrect == SafetySpec => []RightZone
  BY Safe, Inductive, PTL

\* The mark of the sensor of a lagged sample at the end of the critical section.
Flagged ==
    \A z \in Zones :
        /\ aggPc[z] = "critical" /\ aggPc'[z] = "reply"
        /\ msg[z].lagged /\ msg[z].epoch = setbacks
        => sensor_drift_active'[msg[z].sensor_id]

\* An aggregator that leaves the critical section has judged its sample.
LEMMA FlagStep == ASSUME IInv, [Next]_vars PROVE Flagged
  <1> SUFFICES ASSUME NEW z \in Zones, aggPc[z] = "critical", aggPc'[z] = "reply",
                      msg[z].lagged, msg[z].epoch = setbacks
               PROVE  sensor_drift_active'[msg[z].sensor_id]
    BY DEF Flagged
  <1> USE DEF IInv, TypeOK, IpcTypeOK, AggTypeOK
  <1>1. ZoneProcess(z)
    <2>1. PICK y \in Zones : Zone(y)
      BY AggFrame DEF ZoneGoto
    <2>2. y = z
      BY <2>1 DEF Zone, ZoneStep, ZoneAttach, ZoneAttachFails, ZoneLoop, ZoneReceive,
                  ZoneReceiveOther, ZoneLock, ZoneProcess, ZoneReply, ZoneDetach, ZoneGoto
    <2> QED
      BY <2>1, <2>2
         DEF Zone, ZoneStep, ZoneAttach, ZoneAttachFails, ZoneLoop, ZoneReceive,
             ZoneReceiveOther, ZoneLock, ZoneReply, ZoneDetach
  <1>2. msg[z] \in Sample /\ StampedBy(msg[z], now_ms[z])
    BY DEF SenderInv, ServeInv, Serving, StampInv
  <1>3. Drifting(z)
    <2>1. msg[z].timestamp + LAG_MS <= now_ms[z]
      BY <1>2 DEF StampedBy
    <2>2. msg[z].timestamp \in Int /\ now_ms[z] \in Int
      BY <1>2 DEF Sample
    <2> QED
      BY <2>1, <2>2, SessionAssumption, GeneratorAssumption DEF Drifting, DRIFT_MS
  <1>4. Cluster(z)
    BY <1>1, AggregatorAssumption DEF ZoneProcess, BatchInv
  <1> QED
    BY <1>2, <1>3, <1>4 DEF Cluster, Sample

\* A sample with the injected lag is marked as drifting unless the clock was
\* set back between its stamp and its judgement, for every lag above the
\* threshold, every resolution of the clock and any number of settings of it.
THEOREM LagCorrect == SafetySpec => LaggedSampleFlagged
  <1>1. IInv /\ [Next]_vars => [Flagged]_vars
    BY FlagStep
  <1> QED
    BY <1>1, Inductive, PTL DEF SafetySpec, LaggedSampleFlagged, Flagged

\* What ends the process: the central thread has ended, which it does on the
\* flag, or if its name was not attached from the start.
EndInv ==
    /\ cenPc \in {"unborn", "start"} => names[Central] = "absent"
    /\ cenPc = "detach" => ~g_keep_running
    /\ cenPc = "exited" => ~g_keep_running \/ names[Central] = "absent"
    /\ exited => cenPc = "exited"

\* The central thread ends for one of these reasons, and the process after it.
LEMMA EndStep == ASSUME TypeOK, SpawnInv, EndInv, [Next]_vars PROVE EndInv'
  <1> USE DEF EndInv, TypeOK, SessionTypeOK, CenTypeOK, NameIds
  <1>0. \A z \in Zones : z # Central
    BY ConfigAssumption DEF Zones, Central
  <1>1. CASE MainSpawn
    BY <1>1 DEF MainSpawn, SpawnInv, sessionVars
  <1>2. CASE MainExit
    BY <1>2 DEF MainExit, sessionVars, cenVars
  <1>3. ASSUME NEW z \in Zones, Zone(z) PROVE EndInv'
    <2>1. UNCHANGED <<g_keep_running, cenPc, exited>> /\ names'[Central] = names[Central]
      BY <1>3, <1>0
         DEF Zone, ZoneStep, ZoneAttach, ZoneAttachFails, ZoneLoop, ZoneReceive,
             ZoneReceiveOther, ZoneLock, ZoneProcess, ZoneReply, ZoneDetach, name_attach,
             name_detach, sessionVars, cenVars, mainVars
    <2> QED
      BY <2>1
  <1>4. CASE Generator
    BY <1>4 DEF Generator, GenStep, GenOpen, GenAsk, GenOpenFails, GenTest, GenSkip,
                GenSend, GenResume, GenSleep, sessionVars, cenVars, mainVars
  <1>5. CASE Engine
    <2> USE <1>5 DEF Engine, sessionVars, mainVars
    <2>1. CASE CenAttach \/ CenAttachFails
      BY <2>1 DEF CenAttach, CenAttachFails, name_attach, NameIds
    <2>2. CASE CenLoop \/ CenDetach
      BY <2>2 DEF CenLoop, CenDetach, name_detach
    <2>3. CASE CenPulse \/ \E z \in Zones : CenSummary(z)
      BY <2>3 DEF CenPulse, CenSummary, NextMessage
    <2> QED
      BY <2>1, <2>2, <2>3 DEF CenStep
  <1>6. CASE Watchdog \/ Clock
    BY <1>6 DEF Watchdog, WatchdogFires, Clock, sessionVars, cenVars, mainVars
  <1>7. CASE Signal
    BY <1>7 DEF Signal, handle_shutdown, InterruptNone, InterruptZone, InterruptCentral,
                InterruptSend, InterruptOpen, cenVars, mainVars
  <1>8. CASE UNCHANGED vars
    BY <1>8 DEF vars, sessionVars, cenVars, mainVars
  <1> QED
    BY <1>1, <1>2, <1>3, <1>4, <1>5, <1>6, <1>7, <1>8 DEF Next, Main

\* The process ends only on a signal or without a central thread, whatever
\* happens to the zones and the generator.
THEOREM EndsCorrect == SafetySpec => []EndsOnlyOnRequest
  <1>1. Init => EndInv
    BY DEF Init, SessionInit, CenInit, EndInv, NameIds
  <1>2. IInv /\ EndInv /\ [Next]_vars => EndInv'
    BY EndStep DEF IInv
  <1>3. EndInv => EndsOnlyOnRequest
    BY DEF EndInv, EndsOnlyOnRequest
  <1> QED
    BY <1>1, <1>2, <1>3, Inductive, PTL DEF SafetySpec

\* The engine stays in order among zones, a generator and a signal that may
\* interrupt it in MsgReceive.
LEMMA SessionHeld ==
    ASSUME TypeOK, SpawnInv, EngineHeld, [Next]_vars PROVE EngineHeld'
  <1> USE DEF TypeOK, SessionTypeOK, CenTypeOK, NameIds
  <1>0. \A z \in Zones : z # Central
    BY ConfigAssumption DEF Zones, Central
  <1>1. CASE Engine
    BY <1>1, HeldStep DEF Engine
  <1> USE DEF EngineHeld, InLoop, Attached
  <1>2. CASE MainSpawn
    BY <1>2 DEF MainSpawn, SpawnInv, sessionVars
  <1>3. CASE MainExit
    BY <1>3 DEF MainExit, sessionVars, cenVars
  <1>4. ASSUME NEW z \in Zones, Zone(z) PROVE EngineHeld'
    <2>1. UNCHANGED cenVars /\ names'[Central] = names[Central]
      BY <1>4, <1>0
         DEF Zone, ZoneStep, ZoneAttach, ZoneAttachFails, ZoneLoop, ZoneReceive,
             ZoneReceiveOther, ZoneLock, ZoneProcess, ZoneReply, ZoneDetach, name_attach,
             name_detach, sessionVars
    <2> QED
      BY <2>1 DEF cenVars
  <1>5. CASE Generator
    BY <1>5 DEF Generator, GenStep, GenOpen, GenAsk, GenOpenFails, GenTest, GenSkip,
                GenSend, GenResume, GenSleep, sessionVars, cenVars
  <1>6. CASE Watchdog \/ Clock
    BY <1>6 DEF Watchdog, WatchdogFires, Clock, sessionVars, cenVars
  <1>7. CASE Signal
    BY <1>7 DEF Signal, handle_shutdown, InterruptNone, InterruptZone, InterruptCentral,
                InterruptSend, InterruptOpen, cenVars
  <1>8. CASE UNCHANGED vars
    BY <1>8 DEF vars, sessionVars, cenVars
  <1> QED
    BY <1>1, <1>2, <1>3, <1>4, <1>5, <1>6, <1>7, <1>8 DEF Next, Main

\* The watchdog is missing only where its creation may fail.
TimerInv == timer = "failed" => TimerMayFail

\* An engine that waits has its channel, and the watchdog that will wake it
\* unless the timer could not be created.
CanBeWoken ==
    cenPc = "receive" =>
        Attached(Central) /\ (timer = "armed" \/ (TimerMayFail /\ timer = "failed"))

\* Once the flag is cleared the engine does not begin to wait again.
LastWait == [][~g_keep_running /\ cenPc # "receive" => cenPc' # "receive"]_vars

\* What the engine does to its timer and to its pc, and nobody else does.
LEMMA TimerStep ==
    ASSUME TimerInv, SpawnInv, TypeOK, [Next]_vars
    PROVE  TimerInv' /\ (~g_keep_running /\ cenPc # "receive" => cenPc' # "receive")
  <1>1. CASE Engine
    BY <1>1 DEF Engine, CenStep, CenAttach, CenAttachFails, CenLoop, CenPulse, CenSummary,
                CenDetach, NextMessage, TimerInv
  <1>2. CASE ~Engine
    <2>1. UNCHANGED timer /\ (cenPc' = cenPc \/ cenPc' \in {"start", "detach"})
      BY <1>2
         DEF Next, Main, MainSpawn, MainExit, Zone, Generator, Watchdog, WatchdogFires,
             Clock, Signal, InterruptNone, InterruptZone, InterruptCentral, InterruptSend,
             InterruptOpen, vars, cenVars
    <2> QED
      BY <2>1 DEF TimerInv
  <1> QED
    BY <1>1, <1>2

\* Wherever the signal strikes, the engine that main joins waits at most once
\* more, and if it waits, it has its channel and an armed watchdog; a timer
\* that could not be created is the one exception.  The safety half of
\* ShutdownCompletes (fusion_engine.c:25-37, 51-54, 67-68, 115-117).
THEOREM EngineWakes == SafetySpec => []CanBeWoken /\ LastWait
  <1>1. Init => EngineHeld /\ TimerInv
    BY DEF Init, SessionInit, CenInit, EngineHeld, InLoop, Attached, NameIds, TimerInv
  <1>2. IInv /\ EngineHeld /\ [Next]_vars => EngineHeld'
    BY SessionHeld DEF IInv
  <1>3. IInv /\ TimerInv /\ [Next]_vars
          => TimerInv' /\ [~g_keep_running /\ cenPc # "receive" => cenPc' # "receive"]_vars
    BY TimerStep DEF IInv
  <1>4. EngineHeld /\ TimerInv => CanBeWoken
    BY DEF EngineHeld, InLoop, TimerInv, CanBeWoken
  <1> QED
    BY <1>1, <1>2, <1>3, <1>4, Inductive, PTL DEF SafetySpec, LastWait

-----------------------------------------------------------------------------
(* The calls of the generator are calls of SampleCall.                     *)

\* An aggregator leaves its loop on the flag or on the signal that clears it.
StopInv == \A z \in Zones : aggPc[z] = "detach" => ~g_keep_running

\* Nobody but the aggregator and the signal brings it there.
LEMMA StopStep ==
    ASSUME TypeOK, SpawnInv, StopInv, [Next]_vars
    PROVE  StopInv'
  <1> USE DEF StopInv, TypeOK, AggTypeOK, ZoneGoto
  <1>1. ASSUME NEW z \in Zones, Zone(z) PROVE StopInv'
    BY <1>1 DEF Zone, ZoneStep, ZoneAttach, ZoneAttachFails, ZoneLoop, ZoneReceive,
                ZoneReceiveOther, ZoneLock, ZoneProcess, ZoneReply, ZoneDetach, sessionVars
  <1>2. CASE Signal
    BY <1>2 DEF Signal, handle_shutdown
  <1>3. CASE MainSpawn
    BY <1>3 DEF MainSpawn, sessionVars
  <1>4. CASE UNCHANGED <<g_keep_running, aggPc>>
    BY <1>4
  <1> QED
    BY <1>1, <1>2, <1>3, <1>4
       DEF Next, Main, MainExit, Generator, GenStep, GenOpen, GenAsk, GenOpenFails, GenTest,
           GenSkip, GenSend, GenResume, GenSleep, Engine, CenStep, CenAttach,
           CenAttachFails, CenLoop, CenPulse, CenSummary, CenDetach, Watchdog,
           WatchdogFires, Clock, vars, sessionVars, aggVars

\* name_open has asked an aggregator that has taken the question.
Asked == genPc = "opening" /\ sid \notin connectq

\* Until the signal, whoever waits in name_open waits on a channel that is there.
OpenInv == genPc = "opening" /\ g_keep_running => Attached(sid)

\* No zone leaves before the signal, and only the signal ends the wait.
LEMMA OpenStep ==
    ASSUME IInv, StopInv, OpenInv, [Next]_vars
    PROVE  OpenInv' /\ (Asked /\ g_keep_running' => Asked')
  <1> USE DEF OpenInv, Asked
  <1>1. genPc = "opening" => sid \in Zones
    BY DEF IInv, SenderInv, GenInv
  <1>2. CASE Generator
    <2>1. UNCHANGED <<names, g_keep_running>>
      BY <1>2 DEF Generator, GenStep, GenOpen, GenAsk, GenOpenFails, GenTest, GenSkip,
                  GenSend, GenResume, GenSleep, sessionVars
    <2> QED
      BY <1>2, <2>1
         DEF Generator, GenStep, GenOpen, GenAsk, GenOpenFails, GenTest, GenSkip, GenSend,
             GenResume, GenSleep, Attached
  <1>3. ASSUME NEW z \in Zones, Zone(z)
        PROVE  OpenInv' /\ (Asked /\ g_keep_running' => Asked')
    <2>1. UNCHANGED <<genPc, sid, g_keep_running>> /\ connectq' \subseteq connectq
      BY <1>3
         DEF Zone, ZoneStep, ZoneAttach, ZoneAttachFails, ZoneLoop, ZoneReceive,
             ZoneReceiveOther, ConnectReceive, ZoneLock, ZoneProcess, ZoneReply, ZoneDetach,
             name_attach, name_detach, MsgReceive, MsgReply, ChannelDestroy, genVars, ipcVars,
             sessionVars
    <2>2. CASE ZoneDetach(z)
      <3>1. ~g_keep_running
        BY <2>2 DEF ZoneDetach, StopInv
      <3> QED
        BY <2>1, <3>1
    <2>3. CASE ZoneAttach(z)
      BY <1>1, <2>1, <2>3
         DEF ZoneAttach, name_attach, Attached, IInv, TypeOK, SessionTypeOK
    <2>4. CASE ~ZoneDetach(z) /\ ~ZoneAttach(z)
      <3>1. UNCHANGED names
        BY <1>3, <2>4
           DEF Zone, ZoneStep, ZoneAttachFails, ZoneLoop, ZoneReceive, ZoneReceiveOther,
               ZoneLock, ZoneProcess, ZoneReply, sessionVars
      <3> QED
        BY <2>1, <3>1 DEF Attached
    <2> QED
      BY <2>2, <2>3, <2>4
  <1>4. CASE Engine
    <2>1. UNCHANGED <<genPc, sid, connectq>> /\ \A z \in Zones : names'[z] = names[z]
      BY <1>4, EngineNames DEF Engine, genVars, ipcVars, IInv
    <2>2. UNCHANGED g_keep_running
      BY <1>4 DEF Engine, CenStep, CenAttach, CenAttachFails, CenLoop, CenPulse, CenSummary,
                  CenDetach, name_attach, name_detach, sessionVars
    <2> QED
      BY <1>1, <2>1, <2>2 DEF Attached
  <1>5. CASE Signal
    BY <1>5 DEF Signal, handle_shutdown
  <1>6. CASE Main
    <2>1. genPc = "opening" => genPc' = genPc
      BY <1>6, ConfigAssumption
         DEF Main, MainSpawn, MainExit, genVars, IInv, TypeOK, SpawnInv, NUM_THREADS, Central
    <2>2. UNCHANGED <<sid, connectq, names, g_keep_running>>
            /\ (genPc' = "opening" => genPc = "opening")
      BY <1>6 DEF Main, MainSpawn, MainExit, genVars, ipcVars, sessionVars
    <2> QED
      BY <2>1, <2>2 DEF Attached
  <1>7. CASE Watchdog \/ Clock \/ UNCHANGED vars
    BY <1>7 DEF Watchdog, WatchdogFires, Clock, Tick, SetBack, vars, genVars, ipcVars,
                sessionVars, Attached
  <1> QED
    BY <1>2, <1>3, <1>4, <1>5, <1>6, <1>7 DEF Next

\* What one unanswered message means for every fleet: if name_open has to ask
\* an aggregator, and the aggregator takes the question, the generator never
\* gets past it as long as the session runs, so no sensor is ever sampled
\* (fleet_generator.c:24-29, zonal_aggregator.c:51-55).
THEOREM ConnectStarves == SafetySpec => [][Asked /\ g_keep_running' => Asked']_vars
  <1>1. Init => StopInv /\ OpenInv
    BY DEF Init, AggInit, GenInit, StopInv, OpenInv
  <1>2. IInv /\ StopInv /\ [Next]_vars => StopInv'
    BY StopStep DEF IInv
  <1>3. IInv /\ StopInv /\ OpenInv /\ [Next]_vars
          => OpenInv' /\ [Asked /\ g_keep_running' => Asked']_vars
    BY OpenStep
  <1> QED
    BY <1>1, <1>2, <1>3, Inductive, PTL DEF SafetySpec

\* The generator is blocked on the zone of the sensor whose turn it is.
LEMMA CallZone ==
    ASSUME IInv, genPc = "blocked"
    PROVE  /\ sid \in Sensors /\ target_zone[sid] \in Zones
           /\ Connection(sid) = target_zone[sid]
  BY ConfigAssumption DEF IInv, SenderInv, GenInv, Connection

\* The stages of a call, one by one.
LEMMA Stages ==
    /\ genPc # "blocked" <=> CallStage = "idle"
    /\ genPc = "blocked" =>
         LET z == Connection(sid)
         IN  /\ sendq[z] # NoMsg => CallStage = "queued"
             /\ Returned(z) => CallStage = "returned"
             /\ rcvid[z] /\ sendq[z] = NoMsg =>
                   CallStage = IF aggPc[z] = "reply" THEN "judged" ELSE "taken"
  BY DEF CallStage, Returned

\* The two variables of a call are left alone by whoever leaves these alone.
LEMMA CallFrame ==
    ASSUME UNCHANGED <<genPc, sid, coids, sendq, rcvid, aggPc>>
    PROVE  CallStage' = CallStage /\ Caller' = Caller
  BY DEF CallStage, Caller, Connection, Returned

\* Likewise the abandoned samples.
LEMMA OrphanFrame ==
    ASSUME UNCHANGED <<aggPc, rcvid, msg>>
    PROVE  Orphans' = Orphans
  BY DEF Orphans

\* GenSend and GenResume begin and end a call; the rest of the generator is
\* not seen.
LEMMA GeneratorCalls ==
    ASSUME IInv, IInv', Generator
    PROVE  [SC!Next]_(SC!vars)
  <1>0. UNCHANGED <<g_keep_running, sensor_drift_active, aggPc, msg>>
    BY DEF Generator, GenStep, GenOpen, GenAsk, GenOpenFails, GenTest, GenSkip, GenSend,
           GenResume, GenSleep, sessionVars, aggVars
  <1>1. CASE genPc # "blocked" /\ genPc' # "blocked"
    <2>1. UNCHANGED <<sendq, rcvid>>
      BY <1>1 DEF Generator, GenStep, GenOpen, GenAsk, GenOpenFails, ConnectSend, GenTest,
                  GenSkip, GenSend, GenResume, GenSleep, ipcVars
    <2>2. CallStage' = CallStage /\ Caller' = Caller
      BY <1>1 DEF CallStage, Caller
    <2>3. Orphans' = Orphans
      BY <1>0, <2>1, OrphanFrame
    <2> QED
      BY <1>0, <2>2, <2>3 DEF SC!vars, Caller
  <1>2. CASE genPc # "blocked" /\ genPc' = "blocked"
    <2>1. GenSend /\ Attached(Connection(sid)) /\ MsgSend(Connection(sid), Stamped(sid))
            /\ sid' = sid /\ coids' = coids
      BY <1>2 DEF Generator, GenStep, GenOpen, GenAsk, GenOpenFails, GenTest, GenSkip,
                  GenSend, GenResume, GenSleep
    <2>2. sid \in Sensors /\ Connection(sid)' = Connection(sid) /\ Connection(sid) \in Zones
      <3>1. sid \in Sensors
        BY <2>1, ConfigAssumption DEF GenSend, Sensors, IInv, TypeOK, GenTypeOK
      <3>2. coids[target_zone[sid]] = target_zone[sid] /\ target_zone[sid] \in Zones
        BY <2>1, <3>1, ConfigAssumption DEF GenSend, IInv, SenderInv, GenInv
      <3> QED
        BY <2>1, <3>1, <3>2 DEF Connection
    <2>3. Stamped(sid) # NoMsg
      <3>1. Stamped(sid) \in Sample
        BY <2>2, StampedType DEF IInv, TypeOK
      <3> QED
        BY <3>1, IpcAssumption DEF Sample
    <2>4. sendq'[Connection(sid)] # NoMsg
      BY <2>1, <2>2, <2>3 DEF MsgSend, IInv, TypeOK, IpcTypeOK
    <2>5. CallStage = "idle" /\ CallStage' = "queued"
      <3>1. CallStage = "idle"
        BY <1>2, Stages
      <3>2. sendq'[coids'[target_zone[sid']]] # NoMsg
        BY <2>1, <2>4 DEF Connection
      <3> QED
        BY <1>2, <3>1, <3>2 DEF CallStage, Connection, Returned
    <2>6. Caller = -1 /\ Caller' = sid
      BY <1>2, <2>1 DEF Caller
    <2>7. Orphans' = Orphans
      BY <1>0, <2>1, OrphanFrame DEF MsgSend
    <2>8. SC!Invoke(sid)
      BY <1>0, <2>5, <2>6, <2>7 DEF SC!Invoke, SC!NoCall, SC!Call, SC!NoSensor, Caller
    <2> QED
      BY <2>2, <2>8 DEF SC!Next
  <1>3. CASE genPc = "blocked"
    <2>1. GenResume
      BY <1>3 DEF Generator, GenStep, GenOpen, GenAsk, GenOpenFails, GenTest, GenSkip,
                  GenSend, GenResume, GenSleep
    <2>2. CallStage = "returned" /\ CallStage' = "idle" /\ Caller' = -1
      BY <1>3, <2>1, Stages DEF GenResume, CallStage, Caller
    <2>3. Orphans' = Orphans
      BY <1>0, <2>1, OrphanFrame DEF GenResume, ipcVars
    <2>4. SC!Resume
      BY <1>0, <2>2, <2>3 DEF SC!Resume, SC!NoCall, SC!Call, SC!NoSensor, Caller
    <2> QED
      BY <2>4 DEF SC!Next
  <1> QED
    BY <1>1, <1>2, <1>3

\* What the steps of an aggregator do to the set of abandoned samples: only
\* the end of the critical section takes one out of it.
LEMMA ZoneOrphans ==
    ASSUME IInv, NEW z \in Zones, Zone(z)
    PROVE  Orphans' = IF ZoneProcess(z) /\ ~rcvid[z] THEN Orphans \ {msg[z].sensor_id}
                                                     ELSE Orphans
  <1> USE DEF Orphans
  <1>0. /\ aggPc \in [Zones -> AggPcs] /\ rcvid \in [Zones -> BOOLEAN]
        /\ msg \in [Zones -> Sample \cup {NoMsg}]
    BY DEF IInv, TypeOK, IpcTypeOK, AggTypeOK
  <1>1. \A y \in Zones \ {z} :
            aggPc'[y] = aggPc[y] /\ rcvid'[y] = rcvid[y] /\ msg'[y] = msg[y]
    BY <1>0 DEF Zone, ZoneStep, ZoneAttach, ZoneAttachFails, ZoneLoop, ZoneReceive,
                ZoneReceiveOther, ZoneLock, ZoneProcess, ZoneReply, ZoneDetach, ZoneGoto,
                MsgReceive, ConnectReceive, MsgReply, ChannelDestroy, ipcVars, aggData
  <1>2. CASE ZoneProcess(z)
    <2>1. aggPc[z] = "critical" /\ aggPc'[z] = "reply" /\ UNCHANGED <<rcvid, msg>>
      BY <1>0, <1>2 DEF ZoneProcess, ZoneGoto, ipcVars
    <2>2. \A y \in Zones \ {z} :
              aggPc[y] \in {"lock", "critical"} => msg[y].sensor_id # msg[z].sensor_id
      BY <2>1 DEF IInv, SenderInv, ServeInv, Serving
    <2> QED
      BY <1>0, <1>1, <1>2, <2>1, <2>2
  <1>3. CASE ~ZoneProcess(z)
    <2>1. /\ aggPc[z] \in {"lock", "critical"} /\ ~rcvid[z]
               <=> aggPc'[z] \in {"lock", "critical"} /\ ~rcvid'[z]
          /\ aggPc[z] \in {"lock", "critical"} => msg'[z] = msg[z]
      BY <1>0, <1>3
         DEF Zone, ZoneStep, ZoneAttach, ZoneAttachFails, ZoneLoop, ZoneReceive,
             ZoneReceiveOther, ZoneLock, ZoneReply, ZoneDetach, ZoneGoto, MsgReceive,
             ConnectReceive, MsgReply, ChannelDestroy, ipcVars, aggData
    <2> QED
      BY <1>0, <1>1, <1>3, <2>1
  <1> QED
    BY <1>2, <1>3

\* A step of the aggregator of z moves the call that waits on z, and no other.
LEMMA ZoneStage ==
    ASSUME IInv, NEW z \in Zones, Zone(z),
           genPc # "blocked" \/ Connection(sid) # z \/ Returned(z)
    PROVE  CallStage' = CallStage
  <1>1. UNCHANGED <<genPc, sid, coids>>
    BY DEF Zone, genVars
  <1>2. /\ aggPc \in [Zones -> AggPcs] /\ rcvid \in [Zones -> BOOLEAN]
        /\ sendq \in [Zones -> Sample \cup {NoMsg}]
    BY DEF IInv, TypeOK, IpcTypeOK, AggTypeOK
  <1>3. CASE genPc # "blocked"
    BY <1>1, <1>3 DEF CallStage
  <1>4. CASE genPc = "blocked" /\ Connection(sid) # z
    <2> DEFINE y == Connection(sid)
    <2>1. y \in Zones
      BY <1>4, CallZone
    <2>2. aggPc'[y] = aggPc[y] /\ rcvid'[y] = rcvid[y] /\ sendq'[y] = sendq[y]
      BY <1>2, <1>4, <2>1
         DEF Zone, ZoneStep, ZoneAttach, ZoneAttachFails, ZoneLoop, ZoneReceive,
             ZoneReceiveOther, ZoneLock, ZoneProcess, ZoneReply, ZoneDetach, ZoneGoto,
             MsgReceive, ConnectReceive, MsgReply, ChannelDestroy, ipcVars
    <2> QED
      BY <1>1, <2>2 DEF CallStage, Returned, Connection
  <1>5. CASE genPc = "blocked" /\ Connection(sid) = z /\ Returned(z)
    <2>1. sendq'[z] = NoMsg /\ ~rcvid'[z]
      BY <1>2, <1>5
         DEF Zone, ZoneStep, ZoneAttach, ZoneAttachFails, ZoneLoop, ZoneReceive,
             ZoneReceiveOther, ZoneLock, ZoneProcess, ZoneReply, ZoneDetach, MsgReceive,
             ConnectReceive, MsgReply, ChannelDestroy, ipcVars, Returned
    <2> QED
      BY <1>1, <1>5, <2>1 DEF CallStage, Returned, Connection
  <1> QED
    BY <1>3, <1>4, <1>5

\* The aggregator takes, judges and answers the call that waits on it, or
\* leaves it; without a caller, it judges what was left in its hands.
LEMMA ZoneCalls ==
    ASSUME IInv, StopInv, NEW z \in Zones, Zone(z)
    PROVE  [SC!Next]_(SC!vars)
  <1>0. /\ aggPc \in [Zones -> AggPcs] /\ rcvid \in [Zones -> BOOLEAN]
        /\ msg \in [Zones -> Sample \cup {NoMsg}] /\ sendq \in [Zones -> Sample \cup {NoMsg}]
    BY DEF IInv, TypeOK, IpcTypeOK, AggTypeOK
  <1>1. UNCHANGED <<g_keep_running, genPc, sid, coids>> /\ Caller' = Caller
    <2>1. UNCHANGED genVars
      BY DEF Zone
    <2>2. UNCHANGED g_keep_running
      BY DEF Zone, ZoneStep, ZoneAttach, ZoneAttachFails, ZoneLoop, ZoneReceive,
             ZoneReceiveOther, ZoneLock, ZoneProcess, ZoneReply, ZoneDetach, sessionVars
    <2> QED
      BY <2>1, <2>2 DEF genVars, Caller
  <1>2. CASE ZoneProcess(z)
    <2>1. /\ aggPc[z] = "critical" /\ aggPc'[z] = "reply" /\ Serving(z)
          /\ UNCHANGED <<sendq, rcvid>> /\ Cluster(z)
      <3>1. ~(raw_msg_count[z] > THROTTLE_LIMIT)
        BY AggregatorAssumption DEF IInv, BatchInv, TypeOK, AggTypeOK
      <3> QED
        BY <1>0, <1>2, <3>1 DEF ZoneProcess, ZoneGoto, ipcVars, Serving
    <2> DEFINE s == msg[z].sensor_id
    <2>2. s \in Sensors
      BY <1>0, <2>1 DEF IInv, SenderInv, ServeInv, Sample
    <2>3. SC!Verdict(s)
      <3>1. Drifting(z) \in BOOLEAN
        BY DEF Drifting
      <3> QED
        BY <2>1, <3>1 DEF Cluster, SC!Verdict
    <2>4. CASE rcvid[z]
      <3>1. genPc = "blocked" /\ Connection(sid) = z /\ s = sid /\ sendq[z] = NoMsg
        BY <2>4, CallZone DEF IInv, SenderInv, ReplyInv
      <3>2. CallStage = "taken"
        BY <2>1, <2>4, <3>1, Stages
      <3>3. CallStage' = "judged"
        BY <1>1, <2>1, <2>4, <3>1 DEF CallStage, Connection, Returned
      <3>4. Orphans' = Orphans
        BY <2>4, ZoneOrphans
      <3>5. SC!Judge
        BY <1>1, <2>3, <3>1, <3>2, <3>3, <3>4 DEF SC!Judge, SC!Proceed, SC!Call, Caller
      <3> QED
        BY <3>5 DEF SC!Next
    <2>5. CASE ~rcvid[z]
      <3>1. ~g_keep_running /\ s \in Orphans
        BY <2>1, <2>5 DEF IInv, OwedInv, Orphans
      <3>2. Orphans' = Orphans \ {s}
        BY <1>2, <2>5, ZoneOrphans
      <3>3. CallStage' = CallStage
        BY <1>1, <2>1, <2>5 DEF CallStage, Connection, Returned
      <3>4. SC!JudgeAbandoned(s)
        BY <1>1, <2>3, <3>1, <3>2, <3>3 DEF SC!JudgeAbandoned
      <3> QED
        BY <2>2, <3>4 DEF SC!Next
    <2> QED
      BY <2>4, <2>5
  <1>3. CASE ~ZoneProcess(z)
    <2>1. Orphans' = Orphans /\ sensor_drift_active' = sensor_drift_active
      BY <1>3, ZoneOrphans
         DEF Zone, ZoneStep, ZoneAttach, ZoneAttachFails, ZoneLoop, ZoneReceive,
             ZoneReceiveOther, ZoneLock, ZoneReply, ZoneDetach, aggData
    <2>2. CASE CallStage' = CallStage
      BY <1>1, <2>1, <2>2 DEF SC!vars
    <2>3. CASE CallStage' # CallStage
      <3>1. genPc = "blocked" /\ Connection(sid) = z /\ ~Returned(z)
        BY <2>3, ZoneStage
      <3>2. CASE ZoneReceive(z)
        <4>1. sendq[z] # NoMsg /\ sendq'[z] = NoMsg /\ rcvid'[z] /\ aggPc'[z] = "lock"
                /\ aggPc[z] = "receive"
          BY <1>0, <3>2 DEF ZoneReceive, MsgReceive, ZoneGoto
        <4>2. CallStage = "queued" /\ CallStage' = "taken"
          BY <1>1, <3>1, <4>1, Stages DEF CallStage, Connection, Returned
        <4>3. sid \notin Orphans
          <5>1. z = target_zone[sid]
            BY <3>1, CallZone
          <5>2. \A y \in Zones : aggPc[y] \in {"lock", "critical"} =>
                                    target_zone[msg[y].sensor_id] = y
            BY DEF IInv, SenderInv, ServeInv, Serving
          <5> QED
            BY <4>1, <5>1, <5>2 DEF Orphans
        <4>4. SC!Take
          BY <1>1, <2>1, <3>1, <4>2, <4>3 DEF SC!Take, SC!Proceed, SC!Call, Caller
        <4> QED
          BY <4>4 DEF SC!Next
      <3>3. CASE ZoneReply(z)
        <4>1. sendq'[z] = sendq[z] /\ ~rcvid'[z] /\ aggPc[z] = "reply"
          BY <1>0, <3>3 DEF ZoneReply, MsgReply
        <4>2. rcvid[z] /\ sendq[z] = NoMsg
          <5>1. sendq[z] # NoMsg => CallStage = "queued" /\ CallStage' = "queued"
            BY <1>1, <3>1, <4>1, Stages DEF CallStage, Connection, Returned
          <5> QED
            BY <2>3, <3>1, <5>1 DEF Returned
        <4>3. CallStage = "judged" /\ CallStage' = "returned"
          BY <1>1, <3>1, <4>1, <4>2, Stages DEF CallStage, Connection, Returned
        <4>4. SC!Answer
          BY <1>1, <2>1, <3>1, <4>3 DEF SC!Answer, SC!Proceed, SC!Call
        <4> QED
          BY <4>4 DEF SC!Next
      <3>4. CASE ZoneDetach(z)
        <4>1. sendq'[z] = NoMsg /\ rcvid'[z] = rcvid[z] /\ aggPc[z] = "detach"
          BY <1>0, <3>4 DEF ZoneDetach, ChannelDestroy
        <4>2. ~rcvid[z] /\ sendq[z] # NoMsg /\ ~g_keep_running
          BY <3>1, <4>1 DEF Returned, IInv, SenderInv, ReplyInv, Serving, StopInv
        <4>3. CallStage = "queued" /\ CallStage' = "returned"
          BY <1>1, <3>1, <4>1, <4>2, Stages DEF CallStage, Connection, Returned
        <4>4. SC!Withdraw
          BY <1>1, <2>1, <3>1, <4>2, <4>3 DEF SC!Withdraw, SC!Proceed, SC!Call
        <4> QED
          BY <4>4 DEF SC!Next
      <3>5. CASE ~ZoneReceive(z) /\ ~ZoneReply(z) /\ ~ZoneDetach(z)
        <4>1. UNCHANGED <<sendq, rcvid>>
          BY <1>3, <3>5 DEF Zone, ZoneStep, ZoneAttach, ZoneAttachFails, ZoneLoop,
                            ZoneReceiveOther, ConnectReceive, ZoneLock, ipcVars
        <4>2. rcvid[z] => aggPc[z] # "reply" /\ aggPc'[z] # "reply"
          BY <1>0, <1>3, <3>5
             DEF Zone, ZoneStep, ZoneAttach, ZoneAttachFails, ZoneLoop, ZoneReceiveOther,
                 ZoneLock, ZoneGoto, IInv, SenderInv, ReplyInv, Serving
        <4>3. CallStage' = CallStage
          BY <1>1, <3>1, <4>1, <4>2 DEF CallStage, Connection, Returned
        <4> QED
          BY <2>3, <4>3
      <3> QED
        BY <3>2, <3>3, <3>4, <3>5
    <2> QED
      BY <2>2, <2>3
  <1> QED
    BY <1>2, <1>3

\* The signal may take the caller out of its call, wherever that stands.
LEMMA SignalCalls ==
    ASSUME IInv, Signal
    PROVE  [SC!Next]_(SC!vars)
  <1>0. /\ aggPc \in [Zones -> AggPcs] /\ rcvid \in [Zones -> BOOLEAN]
        /\ sendq \in [Zones -> Sample \cup {NoMsg}]
    BY DEF IInv, TypeOK, IpcTypeOK, AggTypeOK
  <1>1. /\ UNCHANGED <<sid, coids, msg, sensor_drift_active>>
        /\ genPc' = genPc \/ InterruptOpen
        /\ (genPc' = "blocked" <=> genPc = "blocked") /\ Caller' = Caller
        /\ g_keep_running' = FALSE
    BY DEF Caller, Signal, InterruptNone, InterruptZone, InterruptCentral, InterruptSend,
           InterruptOpen, aggVars, aggData, genVars, handle_shutdown
  <1>2. CASE InterruptNone \/ InterruptCentral
    <2>1. CallStage' = CallStage /\ Orphans' = Orphans
      BY <1>1, <1>2, CallFrame, OrphanFrame
         DEF InterruptNone, InterruptCentral, ipcVars, aggVars, genVars
    <2>2. SC!Shutdown
      BY <1>1, <2>1 DEF SC!Shutdown
    <2> QED
      BY <2>2 DEF SC!Next
  <1>3. ASSUME NEW z \in Zones, InterruptZone(z)
        PROVE  [SC!Next]_(SC!vars)
    <2>1. /\ aggPc[z] = "receive" /\ aggPc' = [aggPc EXCEPT ![z] = "detach"]
          /\ UNCHANGED <<sendq, rcvid>>
      BY <1>3 DEF InterruptZone, ZoneGoto, ipcVars
    <2>2. ~rcvid[z]
      BY <2>1 DEF IInv, SenderInv, ReplyInv, Serving
    <2>3. CallStage' = CallStage
      <3>1. genPc = "blocked" => Connection(sid) \in Zones
        BY CallZone
      <3> QED
        BY <1>0, <1>1, <2>1, <2>2, <3>1 DEF CallStage, Connection, Returned
    <2>4. Orphans' = Orphans
      BY <1>0, <1>1, <2>1 DEF Orphans
    <2>5. SC!Shutdown
      BY <1>1, <2>3, <2>4 DEF SC!Shutdown
    <2> QED
      BY <2>5 DEF SC!Next
  <1>4. CASE InterruptSend
    <2> DEFINE z == Connection(sid)
    <2>1. /\ genPc = "blocked" /\ UNCHANGED aggPc
          /\ sendq' = [sendq EXCEPT ![z] = NoMsg] /\ rcvid' = [rcvid EXCEPT ![z] = FALSE]
      BY <1>4 DEF InterruptSend, aggVars
    <2>2. z \in Zones /\ z = target_zone[sid] /\ sid \in Sensors
      BY <2>1, CallZone
    <2>3. sendq'[z] = NoMsg /\ rcvid'[z] = FALSE
      BY <1>0, <2>1, <2>2
    <2>4. CallStage' = "returned"
      <3>1. sendq'[coids'[target_zone[sid']]] = NoMsg /\ ~rcvid'[coids'[target_zone[sid']]]
        BY <1>1, <2>3 DEF Connection
      <3> QED
        BY <1>1, <2>1, <3>1 DEF CallStage, Connection, Returned
    <2>5. CASE rcvid[z] /\ aggPc[z] # "reply"
      <3>1. sendq[z] = NoMsg /\ aggPc[z] \in {"lock", "critical"} /\ msg[z].sensor_id = sid
        BY <2>2, <2>5 DEF IInv, SenderInv, ReplyInv, Serving
      <3>2. CallStage = "taken"
        BY <2>1, <2>5, <3>1, Stages
      <3>3. Orphans' = Orphans \cup {sid}
        BY <1>0, <1>1, <2>1, <2>2, <3>1 DEF Orphans
      <3>4. SC!Shutdown
        BY <1>1, <2>1, <2>4, <3>2, <3>3 DEF SC!Shutdown, SC!Proceed, SC!Call, Caller
      <3> QED
        BY <3>4 DEF SC!Next
    <2>6. CASE ~(rcvid[z] /\ aggPc[z] # "reply")
      <3>1. Orphans' = Orphans
        BY <1>0, <1>1, <2>1, <2>2, <2>6 DEF Orphans
      <3>2. CallStage \in {"queued", "judged", "returned"}
        <4>1. sendq[z] # NoMsg \/ Returned(z) \/ (rcvid[z] /\ sendq[z] = NoMsg)
          BY <1>0, <2>2 DEF Returned
        <4> QED
          BY <2>1, <2>6, <4>1, Stages
      <3>3. SC!Shutdown
        BY <1>1, <2>1, <2>4, <3>1, <3>2 DEF SC!Shutdown, SC!Proceed, SC!Call
      <3> QED
        BY <3>3 DEF SC!Next
    <2> QED
      BY <2>5, <2>6
  <1>5. CASE InterruptOpen
    <2>1. CallStage' = CallStage
      BY <1>5 DEF InterruptOpen, CallStage
    <2>2. Orphans' = Orphans
      BY <1>5, OrphanFrame DEF InterruptOpen, aggVars
    <2>3. SC!Shutdown
      BY <1>1, <2>1, <2>2 DEF SC!Shutdown
    <2> QED
      BY <2>3 DEF SC!Next
  <1> QED
    BY <1>2, <1>3, <1>4, <1>5 DEF Signal

\* Main, the fusion engine and the clock are not seen.
LEMMA OtherCalls ==
    ASSUME IInv, IInv', Main \/ Engine \/ Watchdog \/ Clock \/ UNCHANGED vars
    PROVE  UNCHANGED SC!vars
  <1>1. CASE MainSpawn
    <2>1. /\ UNCHANGED <<g_keep_running, sid, coids, sendq, rcvid, msg, sensor_drift_active>>
          /\ \/ UNCHANGED aggPc
             \/ /\ spawned \in Zones /\ aggPc[spawned] = "unborn"
                /\ aggPc' = [aggPc EXCEPT ![spawned] = "start"]
          /\ genPc = "blocked" <=> genPc' = "blocked"
      BY <1>1, ConfigAssumption
         DEF MainSpawn, IInv, TypeOK, SpawnInv, NUM_THREADS, Central, Zones, ZoneGoto,
             sessionVars, ipcVars, aggData
    <2>2. \A y \in Zones :
             /\ aggPc[y] \in {"lock", "critical"} <=> aggPc'[y] \in {"lock", "critical"}
             /\ aggPc[y] = "reply" <=> aggPc'[y] = "reply"
      BY <2>1 DEF IInv, TypeOK, AggTypeOK
    <2>3. Orphans' = Orphans
      BY <2>1, <2>2 DEF Orphans
    <2>4. CallStage' = CallStage /\ Caller' = Caller
      <3>1. genPc = "blocked" => Connection(sid) \in Zones
        BY CallZone
      <3> QED
        BY <2>1, <2>2, <3>1 DEF CallStage, Connection, Returned, Caller
    <2> QED
      BY <2>1, <2>3, <2>4 DEF SC!vars
  <1>2. CASE UNCHANGED <<g_keep_running, sendq, rcvid, aggVars, genVars>>
    BY <1>2, CallFrame, OrphanFrame DEF SC!vars, aggVars, genVars
  <1> QED
    BY <1>1, <1>2
       DEF Main, MainExit, Engine, CenStep, CenAttach, CenAttachFails, CenLoop, CenPulse,
           CenSummary, CenDetach, Watchdog, WatchdogFires, Clock, Tick, SetBack, vars,
           sessionVars, ipcVars

\* At the start nobody calls.
LEMMA CallInit == Init => SC!Init
  <1> SUFFICES ASSUME Init PROVE SC!Init
    OBVIOUS
  <1>1. CallStage = "idle" /\ Caller = -1
    BY DEF Init, GenInit, CallStage, Caller
  <1>2. Orphans = {}
    BY DEF Init, AggInit, Orphans
  <1> QED
    BY <1>1, <1>2
       DEF Init, SessionInit, AggInit, SC!Init, SC!NoCall, SC!Call, SC!NoSensor

\* Every step of the session is one of SampleCall, or none.
LEMMA CallStep ==
    ASSUME IInv, IInv', StopInv, [Next]_vars
    PROVE  [SC!Next]_(SC!vars)
  <1>1. CASE Main \/ Engine \/ Watchdog \/ Clock \/ UNCHANGED vars
    BY <1>1, OtherCalls
  <1> QED
    BY <1>1, GeneratorCalls, ZoneCalls, SignalCalls DEF Next

\* Every call of the generator returns after its sample has been judged, and
\* every sample is judged once, for any number of zones and sensors; only the
\* signal ends a call early, and what it leaves behind is judged before the
\* next sample of that sensor is received.
THEOREM CallsImplemented == SafetySpec => ImplementsCalls
  <1>1. Init => StopInv
    BY DEF Init, AggInit, StopInv
  <1>2. IInv /\ StopInv /\ [Next]_vars => StopInv'
    BY StopStep DEF IInv
  <1>3. IInv /\ IInv' /\ StopInv /\ [Next]_vars => [SC!Next]_(SC!vars)
    BY CallStep
  <1> QED
    BY <1>1, <1>2, <1>3, CallInit, Inductive, PTL DEF SafetySpec, ImplementsCalls, SC!Spec

-----------------------------------------------------------------------------
(* The fusion engine within the session.                                   *)

\* Nobody but the engine touches its marks.
LEMMA SessionMarks == [Next]_vars => CenStep \/ UNCHANGED cenLocals
  BY DEF Next, Main, MainSpawn, MainExit, Zone, Generator, Engine, Watchdog, WatchdogFires,
         Clock, Signal, InterruptNone, InterruptZone, InterruptCentral, InterruptSend,
         InterruptOpen, vars, cenVars

\* Composed with the zones and under the signal, the engine still implements
\* the heartbeat monitor.
THEOREM SessionMonitors == SafetySpec => [](SeenNotFailed) /\ ImplementsMonitor
  <1>1. Init => SeenNotFailed /\ HM!Init
    BY MonitorInit DEF Init, CenInit, SeenNotFailed
  <1>2. IInv /\ SeenNotFailed /\ [Next]_vars
          => /\ SeenNotFailed'
             /\ [HM!Next]_([z \in Monitored |->
                              IF last_zone_seen[z] = 1 THEN 0
                              ELSE IF zone_failed_state[z] = 1 THEN 2 ELSE 1])
    BY SessionMarks, MarksStep, MonitorStep DEF IInv, TypeOK
  <1> QED
    BY <1>1, <1>2, Inductive, PTL DEF SafetySpec, ImplementsMonitor, HM!Spec

\* No zone of the session sends a summary, so nobody is ever heard.
NothingHeard == summaryq = {} /\ \A z \in Zones : last_zone_seen[z] = 0

\* Every pulse declares every monitored zone lost, working or not.
PulseFailsAll ==
    [][pulses' < pulses /\ cenPc' = "loop"
         => \A z \in Monitored : zone_failed_state'[z] = 1]_vars

\* No zone that has been declared lost comes back.
LostForEver ==
    [][\A z \in Zones : zone_failed_state[z] = 1 => zone_failed_state'[z] = 1]_vars

\* What the missing summaries mean for every fleet: from the first pulse on,
\* the failsafe of every monitored zone is on for ever, however well the
\* zones do (zonal_aggregator.c:89; fusion_engine.c:74-83, 88-94).
THEOREM FalseAlarms == SafetySpec => []NothingHeard /\ PulseFailsAll /\ LostForEver
  <1> DEFINE FailsAll == pulses' < pulses /\ cenPc' = "loop"
                           => \A z \in Monitored : zone_failed_state'[z] = 1
             Lost == \A z \in Zones : zone_failed_state[z] = 1 => zone_failed_state'[z] = 1
  <1>1. Init => NothingHeard
    BY DEF Init, CenInit, NothingHeard
  <1>2. ASSUME IInv, NothingHeard, [Next]_vars
        PROVE  NothingHeard' /\ FailsAll /\ Lost
    <2> USE <1>2 DEF NothingHeard
    <2>0. CenTypeOK /\ pulses \in Nat
      BY FusionAssumption DEF IInv, TypeOK, CenTypeOK
    <2>1. CASE CenPulse
      BY <2>0, <2>1 DEF CenPulse, Verdict, ResetSeen, Monitored, CenTypeOK
    <2>2. CASE CenDetach
      BY <2>0, <2>2 DEF CenDetach, cenLocals, CenTypeOK
    <2>3. CASE UNCHANGED <<summaryq, cenLocals>> /\ pulses' \in {pulses, pulses + 1}
      BY <2>0, <2>3 DEF cenLocals
    <2> QED
      BY <2>0, <2>1, <2>2, <2>3
         DEF Next, Main, MainSpawn, MainExit, Zone, Generator, Engine, CenStep, CenAttach,
             CenAttachFails, CenLoop, CenSummary, Watchdog, WatchdogFires, Clock, Signal,
             InterruptNone, InterruptZone, InterruptCentral, InterruptSend, InterruptOpen,
             vars, cenVars
  <1>3. IInv /\ NothingHeard /\ [Next]_vars => NothingHeard' /\ [FailsAll]_vars /\ [Lost]_vars
    BY <1>2
  <1> QED
    BY <1>1, <1>3, Inductive, PTL DEF SafetySpec, PulseFailsAll, LostForEver
=============================================================================
