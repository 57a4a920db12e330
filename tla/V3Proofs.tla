------------------------------ MODULE V3Proofs ------------------------------
(***************************************************************************)
(* Safety of the v3 process for every range of its clock, and of its       *)
(* decision logic for every object.                                        *)
(***************************************************************************)
EXTENDS AdasV3, DecisionLogic, TLAPS

\* Who is connected to whom: a sensor that runs has a server, whose channel it
\* found under CHID; nobody is queued who is not blocked on a channel that is
\* there; only the health monitor keeps a sensor it has received; and only the
\* fusion engine cuts weights.
ConnectInv ==
    /\ \A i \in spawned + 1 .. 5 : Launch[i] \in Sensors => sensorPc[Launch[i]] = "unborn"
    /\ Live("health") => chid["health"] # chid["fusion"]
    /\ \A s \in Sensors :
          /\ sensorPc[s] \in {"unborn", "connect"} => coid[s] = NoServer
          /\ sensorPc[s] \in {"ready", "blocked"} => coid[s] # NoServer
          /\ coid[s] = "health" => chid["health"] = CHID
          /\ coid[s] = "fusion" => chid["fusion"] \in {CHID, -1}
          /\ s \in sendq => sensorPc[s] = "blocked" /\ Live(coid[s])
          /\ sensorPc[s] = "blocked" /\ s \notin sendq => coid[s] = "health"
          /\ cuts[s] > 0 => coid[s] = "fusion"

V3Inv == TypeOK /\ ConnectInv

\* The invariant holds at the start.
LEMMA V3Start == Init => V3Inv
  <1> SUFFICES ASSUME Init PROVE V3Inv
    OBVIOUS
  <1>1. TypeOK
    BY V3Assumption DEF Init, TypeOK, Launch, Servers, SensorPcs, NoServer
  <1>2. ConnectInv
    BY DEF Init, ConnectInv, Live, NoServer, Servers, CHID
  <1> QED
    BY <1>1, <1>2 DEF V3Inv

\* A step keeps the types.
LEMMA V3Types == ASSUME V3Inv, [Next]_vars PROVE TypeOK'
  <1> USE V3Assumption DEF V3Inv, TypeOK, SensorGoto, SensorPcs
  <1>1. CASE MainSpawn
    BY <1>1 DEF MainSpawn, Launch
  <1>2. ASSUME NEW o \in Servers, Create(o) PROVE TypeOK'
    <2>1. FreeChid \in -1 .. 2
      BY DEF FreeChid
    <2> QED
      BY <1>2, <2>1 DEF Create, ChannelCreate, ChannelCreateFails
  <1>3. ASSUME NEW s \in Sensors, SensorStep(s) PROVE TypeOK'
    <2>1. CASE SensorConnect(s)
      BY <2>1 DEF SensorConnect
    <2>2. CASE SensorSend(s)
      BY <2>2 DEF SensorSend
    <2> QED
      BY <1>3, <2>1, <2>2 DEF SensorStep
  <1>4. ASSUME NEW s \in Sensors, Receive(s) PROVE TypeOK'
    <2>1. CASE FusionReceive(s)
      <3>1. cuts' \in [Sensors -> 0 .. MaxCuts]
        BY <2>1 DEF FusionReceive, Cut
      <3> QED
        BY <2>1, <3>1 DEF FusionReceive, MsgReceive, Reply
    <2>2. CASE HealthReceive(s)
      BY <2>2 DEF HealthReceive, MsgReceive
    <2> QED
      BY <1>4, <2>1, <2>2 DEF Receive
  <1>5. CASE FusionBreak
    <2>1. chid' \in [Servers -> -1 .. 2]
      <3>1. -1 \in -1 .. 2 /\ chid \in [Servers -> -1 .. 2]
        OBVIOUS
      <3>2. chid' = [chid EXCEPT !["fusion"] = -1]
        BY <1>5 DEF FusionBreak
      <3> QED
        BY <3>1, <3>2, Zenon
    <2>2. sensorPc' \in [Sensors -> SensorPcs] /\ sendq' \in SUBSET Sensors
      BY <1>5 DEF FusionBreak
    <2> QED
      BY <1>5, <2>1, <2>2 DEF FusionBreak
  <1>6. CASE Clock
    BY <1>6 DEF Clock, Tick, SetBack
  <1>7. CASE UNCHANGED vars
    BY <1>7 DEF vars
  <1> QED
    BY <1>1, <1>2, <1>3, <1>4, <1>5, <1>6, <1>7 DEF Next

\* A sensor that has been created stays created.
LEMMA Created ==
    ASSUME V3Inv, NEW s \in Sensors, sensorPc[s] # "unborn"
    PROVE  \A i \in spawned + 1 .. 5 : Launch[i] # s
  BY DEF V3Inv, ConnectInv

\* A step keeps the connections.
LEMMA V3Connections == ASSUME V3Inv, [Next]_vars PROVE ConnectInv'
  <1> USE DEF V3Inv, TypeOK, ConnectInv, SensorGoto, Live, CHID
  <1>0. "health" \in Servers /\ "fusion" \in Servers /\ NoServer \notin Servers
    BY DEF Servers, NoServer
  <1>1. CASE MainSpawn
    <2>1. spawned + 1 \in 1 .. 5 /\ Len(Launch) = 5
      BY <1>1 DEF MainSpawn, Launch
    <2>2. \A i \in 1 .. 5 : i # spawned + 1 => Launch[i] # Launch[spawned + 1]
      <3>1. \A i, j \in 1 .. 5 : i # j => Launch[i] # Launch[j]
        BY DEF Launch
      <3> QED
        BY <2>1, <3>1, Zenon
    <2>3. \A i \in spawned' + 1 .. 5 : Launch[i] \in Sensors => sensorPc'[Launch[i]] = "unborn"
      BY <1>1, <2>1, <2>2 DEF MainSpawn
    <2>4. Launch[spawned + 1] \in Sensors => sensorPc[Launch[spawned + 1]] = "unborn"
      BY <2>1
    <2>5. \A s \in Sensors : sensorPc'[s] = sensorPc[s]
                             \/ (sensorPc[s] = "unborn" /\ sensorPc'[s] = "connect")
      BY <1>1, <2>4 DEF MainSpawn
    <2> QED
      BY <1>1, <2>3, <2>5 DEF MainSpawn
  <1>2. ASSUME NEW o \in Servers, Create(o) PROVE ConnectInv'
    <2>1. chid[o] = 0 /\ \A p \in Servers \ {o} : chid'[p] = chid[p]
      BY <1>2 DEF Create, ChannelCreate, ChannelCreateFails
    <2>2. chid'[o] = -1 \/ (chid'[o] \in {1, 2} /\ \A p \in Servers : chid[p] # chid'[o])
      <3>1. \A p \in Servers : chid[p] # FreeChid
        BY <2>1 DEF FreeChid, Servers
      <3> QED
        BY <1>2, <3>1 DEF Create, ChannelCreate, ChannelCreateFails, FreeChid
    <2>3. \A s \in Sensors : coid[s] # o
      BY <1>0, <2>1 DEF Servers
    <2>4. \A s \in Sensors : s \in sendq => coid[s] \in Servers \ {o}
      BY <1>0, <2>3
    <2> QED
      BY <1>0, <1>2, <2>1, <2>2, <2>3, <2>4
         DEF Create, ChannelCreate, ChannelCreateFails, Servers
  <1>3. ASSUME NEW s \in Sensors, SensorStep(s) PROVE ConnectInv'
    <2>1. \A i \in spawned + 1 .. 5 : Launch[i] # s
      BY <1>3, Created DEF SensorStep, SensorConnect, SensorSend
    <2>2. CASE SensorConnect(s)
      BY <1>0, <2>1, <2>2 DEF SensorConnect, Servers
    <2>3. CASE SensorSend(s)
      BY <1>0, <2>1, <2>3 DEF SensorSend
    <2> QED
      BY <1>3, <2>2, <2>3 DEF SensorStep
  <1>4. ASSUME NEW s \in Sensors, Receive(s) PROVE ConnectInv'
    <2>1. \A i \in spawned + 1 .. 5 : Launch[i] # s
      BY <1>4, Created DEF Receive, FusionReceive, HealthReceive, MsgReceive
    <2>2. CASE FusionReceive(s)
      <3>1. \A r \in Sensors : cuts'[r] > 0 => cuts[r] > 0 \/ r = s
        BY <2>2 DEF FusionReceive, Cut
      <3> QED
        BY <1>0, <2>1, <2>2, <3>1 DEF FusionReceive, MsgReceive, Reply
    <2>3. CASE HealthReceive(s)
      BY <2>3 DEF HealthReceive, MsgReceive
    <2> QED
      BY <1>4, <2>2, <2>3 DEF Receive
  <1>5. CASE FusionBreak
    <2>1. \A s \in Sensors : sensorPc'[s] = sensorPc[s] \/ (s \in sendq /\ sensorPc'[s] = "exited")
      BY <1>5 DEF FusionBreak
    <2>2. \A i \in spawned' + 1 .. 5 : Launch[i] \in Sensors => sensorPc'[Launch[i]] = "unborn"
      BY <1>5, <2>1 DEF FusionBreak
    <2> QED
      BY <1>0, <1>5, <2>2 DEF FusionBreak, Servers
  <1>6. CASE Clock \/ UNCHANGED vars
    BY <1>6 DEF Clock, vars
  <1> QED
    BY <1>1, <1>2, <1>3, <1>4, <1>5, <1>6 DEF Next

\* The inductive invariant of the process.
THEOREM V3Inductive == Spec => []V3Inv
  <1>1. V3Inv /\ [Next]_vars => V3Inv'
    BY V3Types, V3Connections DEF V3Inv
  <1> QED
    BY <1>1, V3Start, PTL DEF Spec

\* A sensor loses weight only for its own sample and only if the clock moved
\* since the sample was stamped, whatever the clock does in between.
THEOREM CutsCorrect == Spec => OnlyOwnStaleCuts
  <1> DEFINE Own ==
        \A s \in Sensors :
            cuts'[s] # cuts[s] => /\ s \in sendq /\ s \notin sendq'
                                  /\ now # stamp[s]
  <1>1. ASSUME V3Inv, [Next]_vars PROVE Own
    <2> SUFFICES ASSUME NEW s \in Sensors, cuts'[s] # cuts[s]
                 PROVE  s \in sendq /\ s \notin sendq' /\ now # stamp[s]
      OBVIOUS
    <2>1. PICK r \in Sensors : FusionReceive(r) /\ Stale(r) /\ Cut(r)
      BY <1>1
         DEF Next, MainSpawn, Create, ChannelCreate, ChannelCreateFails, SensorStep,
             SensorConnect, SensorSend, Receive, FusionReceive, FusionBreak, HealthReceive,
             Clock, vars
    <2>2. r = s
      BY <1>1, <2>1 DEF Cut, V3Inv, TypeOK
    <2>3. now # stamp[s]
      <3> SUFFICES ASSUME now = stamp[s] PROVE FALSE
        OBVIOUS
      <3>1. (now - stamp[s]) * 1000 = 0
        BY <1>1 DEF V3Inv, TypeOK
      <3>2. 0 % MS_WRAP = 0 /\ ~(0 > 100)
        BY V3Assumption
      <3> QED
        BY <2>1, <2>2, <3>1, <3>2 DEF Stale, DelayMs
    <2> QED
      BY <2>1, <2>2, <2>3 DEF FusionReceive, MsgReceive
  <1>2. V3Inv /\ [Next]_vars => [Own]_vars
    BY <1>1
  <1> QED
    BY <1>2, V3Inductive, PTL DEF Spec, OnlyOwnStaleCuts

-----------------------------------------------------------------------------
(* What the race for the first channel decides.                            *)

\* The health monitor has the channel the sensors look for, and no sensor got
\* through to the fusion engine before.
HealthWon == chid["health"] = CHID /\ \A s \in Sensors : coid[s] # "fusion"

\* Then this is so for ever, a sensor that sends stays blocked, and no sample
\* is ever looked at.
NeverServed ==
    [][HealthWon => /\ HealthWon'
                    /\ \A s \in Sensors :
                          /\ cuts'[s] = 0
                          /\ sensorPc[s] = "blocked" => sensorPc'[s] = "blocked"]_vars

\* If the health monitor won the race, no sensor that sends is ever answered,
\* whichever calls of the servers fail and whenever the sensors start
\* (radar_proc.c:13; health_monitor.c:14, 26; main_orchestrator.c:50-61).
THEOREM HealthFirstStarves == Spec => NeverServed
  <1> DEFINE Starves ==
        HealthWon => /\ HealthWon'
                     /\ \A s \in Sensors :
                           /\ cuts'[s] = 0
                           /\ sensorPc[s] = "blocked" => sensorPc'[s] = "blocked"
  <1>1. V3Inv /\ V3Inv' /\ [Next]_vars => [Starves]_vars
    <2> SUFFICES ASSUME V3Inv, V3Inv', [Next]_vars, HealthWon
                 PROVE  /\ HealthWon'
                        /\ \A s \in Sensors :
                              /\ cuts'[s] = 0
                              /\ sensorPc[s] = "blocked" => sensorPc'[s] = "blocked"
      OBVIOUS
    <2> USE DEF HealthWon, V3Inv, TypeOK
    <2>0. "health" \in Servers /\ "fusion" \in Servers
      BY DEF Servers
    <2>1. chid'["health"] = CHID
      BY <2>0
         DEF Next, MainSpawn, Create, ChannelCreate, ChannelCreateFails, SensorStep,
             SensorConnect, SensorSend, Receive, FusionReceive, FusionBreak, HealthReceive,
             Clock, vars, CHID
    <2>2. \A s \in Sensors : coid'[s] # "fusion"
      <3>1. ASSUME NEW s \in Sensors, SensorConnect(s) PROVE \A r \in Sensors : coid'[r] # "fusion"
        <4>1. chid["fusion"] # CHID
          BY DEF ConnectInv, Live, CHID
        <4> QED
          BY <3>1, <4>1 DEF SensorConnect
      <3> QED
        BY <3>1
           DEF Next, MainSpawn, Create, ChannelCreate, ChannelCreateFails, SensorStep,
               SensorSend, Receive, FusionReceive, FusionBreak, HealthReceive, Clock, vars
    <2>3. \A s \in Sensors : cuts'[s] = 0
      BY <2>2 DEF ConnectInv
    <2>4. ASSUME NEW s \in Sensors, sensorPc[s] = "blocked" PROVE sensorPc'[s] = "blocked"
      <3>1. CASE MainSpawn
        <4>1. spawned + 1 \in spawned + 1 .. 5
          BY <3>1 DEF MainSpawn, Launch
        <4> QED
          BY <2>4, <3>1, <4>1, Created DEF MainSpawn, SensorGoto
      <3>2. CASE ~MainSpawn
        BY <2>4, <3>2
           DEF Next, Create, ChannelCreate, ChannelCreateFails, SensorStep, SensorConnect,
               SensorSend, Receive, FusionReceive, MsgReceive, FusionBreak, HealthReceive,
               Clock, vars, SensorGoto
      <3> QED
        BY <3>1, <3>2
    <2> QED
      BY <2>1, <2>2, <2>3, <2>4
  <1> QED
    BY <1>1, V3Inductive, PTL DEF Spec, NeverServed

\* A blocked sensor that is connected to the fusion engine is queued for it.
QueuedForFusion ==
    \A s \in Sensors : sensorPc[s] = "blocked" /\ coid[s] = "fusion" => s \in sendq

\* A sensor that gives up found no channel, or lost the fusion engine.
GivesUp ==
    [][\A s \in Sensors :
          sensorPc[s] # "exited" /\ sensorPc'[s] = "exited" =>
              \/ sensorPc[s] = "connect" /\ \A o \in Servers : chid[o] # CHID
              \/ coid[s] = "fusion" /\ chid'["fusion"] = -1]_vars

\* The safety half of ServedIfFusionFirst: a sensor that is connected to the
\* fusion engine is never in the hands of anyone who will not answer, and
\* leaves only with the engine; one that comes before both channels leaves at
\* once, whatever main's sleep was for (main_orchestrator.c:60-61;
\* fusion_engine.c:33, 66, 70; radar_proc.c:16-20, 39-42).
THEOREM FusionFirstServes == Spec => []QueuedForFusion /\ GivesUp
  <1> DEFINE Gives == \A s \in Sensors :
          sensorPc[s] # "exited" /\ sensorPc'[s] = "exited" =>
              \/ sensorPc[s] = "connect" /\ \A o \in Servers : chid[o] # CHID
              \/ coid[s] = "fusion" /\ chid'["fusion"] = -1
  <1>1. V3Inv => QueuedForFusion
    BY DEF V3Inv, ConnectInv, QueuedForFusion
  <1>2. V3Inv /\ [Next]_vars => [Gives]_vars
    <2> SUFFICES ASSUME V3Inv, [Next]_vars, NEW s \in Sensors,
                        sensorPc[s] # "exited", sensorPc'[s] = "exited"
                 PROVE  \/ sensorPc[s] = "connect" /\ \A o \in Servers : chid[o] # CHID
                        \/ coid[s] = "fusion" /\ chid'["fusion"] = -1
      OBVIOUS
    <2> USE DEF V3Inv, TypeOK, SensorGoto
    <2>0. "health" \in Servers /\ "fusion" \in Servers
      BY DEF Servers
    <2>1. CASE FusionBreak
      BY <2>0, <2>1 DEF FusionBreak
    <2>2. CASE ~FusionBreak
      <3>1. PICK r \in Sensors : SensorStep(r)
        BY <2>2 DEF Next, MainSpawn, Create, ChannelCreate, ChannelCreateFails, Receive,
                    FusionReceive, HealthReceive, Reply, Clock, vars
      <3>2. r = s
        BY <3>1 DEF SensorStep, SensorConnect, SensorSend
      <3>3. CASE SensorConnect(s)
        BY <3>3 DEF SensorConnect
      <3>4. CASE SensorSend(s)
        <4>1. ~Live(coid[s]) /\ UNCHANGED chid /\ sensorPc[s] = "ready"
          BY <3>4 DEF SensorSend
        <4>2. coid[s] = "fusion" /\ chid["fusion"] = -1
          BY <2>0, <4>1 DEF ConnectInv, Live, CHID, Servers
        <4> QED
          BY <4>1, <4>2
      <3> QED
        BY <3>1, <3>2, <3>3, <3>4 DEF SensorStep
    <2> QED
      BY <2>1, <2>2
  <1> QED
    BY <1>1, <1>2, V3Inductive, PTL DEF Spec, GivesUp

-----------------------------------------------------------------------------
(* The decision logic.                                                     *)

\* An object that is near gets one reaction, a phantom never brakes, and
\* nearer or more reliable never means less braking, for every integer.
THEOREM DecisionCorrect == DecisionSpec => []BrakingIsMonotone
  <1>1. ASSUME obj \in fused_object_t
        PROVE  BrakingIsMonotone
    <2> SUFFICES ASSUME NEW p \in fused_object_t
                 PROVE  LET act == process_adas_decisions(obj)
                        IN  /\ obj.x < 15 => act.AEB # act.FCW
                            /\ ~(act.AEB /\ act.PHANTOM)
                            /\ act.AEB /\ p.x <= obj.x /\ p.reliability >= obj.reliability
                                 => process_adas_decisions(p).AEB
      BY <1>1 DEF BrakingIsMonotone
    <2>1. /\ obj.x \in Int /\ obj.reliability \in Int
          /\ p.x \in Int /\ p.reliability \in Int
      BY <1>1, DecisionAssumption DEF fused_object_t
    <2>2. Brakes(obj) => ~(obj.reliability < 40)
      BY <2>1 DEF Brakes
    <2>3. Brakes(obj) /\ p.x <= obj.x /\ p.reliability >= obj.reliability => Brakes(p)
      BY <2>1 DEF Brakes
    <2>4. obj.x < 15 => (Brakes(obj) <=> ~Warns(obj))
      BY <2>1 DEF Warns
    <2> QED
      BY <2>2, <2>3, <2>4 DEF process_adas_decisions, Brakes, Warns
  <1>2. DecisionInit => obj \in fused_object_t
    BY DEF DecisionInit
  <1>3. obj \in fused_object_t /\ [DecisionNext]_obj => (obj \in fused_object_t)'
    BY DEF DecisionNext, fused_object_t
  <1> QED
    BY <1>1, <1>2, <1>3, PTL DEF DecisionSpec
=============================================================================
