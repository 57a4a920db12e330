------------------------------- MODULE AdasV3 -------------------------------
(***************************************************************************)
(* The v3 process: a health monitor, a fusion engine, and three sensor     *)
(* threads that talk to "CHID 1".                                          *)
(*                                                                         *)
(* Each server creates a channel of its own when its thread first runs;    *)
(* the kernel gives it the lowest number that is free, from 1 on.  Main    *)
(* starts the health monitor before the fusion engine and sleeps a second  *)
(* before it starts the sensors; none of this makes one thread wait for    *)
(* another, so the servers may get their channels in either order, and     *)
(* after the sensors ask for them.  Nobody sends heartbeat pulses, so the  *)
(* health monitor wakes for messages only.                                 *)
(***************************************************************************)
EXTENDS Integers, Sequences

CONSTANTS
    CreateMayFail,          \* servers whose ChannelCreate may return -1
    ReceiveMayFail,         \* may MsgReceive return -1 to the fusion engine?
    MaxSeconds,             \* bound: the clock stays within 0 .. MaxSeconds
    MaxCuts,                \* bound: weight reductions that are counted
    MS_WRAP                 \* 2^64 ns in ms: what unsigned time wraps at

Servers == {"health", "fusion"}
Sensors == {"radar", "vision", "lidar"}

ASSUME V3Assumption ==
    /\ CreateMayFail \subseteq Servers
    /\ ReceiveMayFail \in BOOLEAN
    /\ MaxSeconds \in Nat
    /\ MaxCuts \in Nat \ {0}
    /\ MS_WRAP \in Nat
    /\ MS_WRAP > MaxSeconds * 1000 + 100

\* The order of pthread_create in main.
Launch == <<"health", "fusion", "radar", "vision", "lidar">>

CHID == 1                   \* the channel id the sensors hard-code

VARIABLES
    spawned,                \* threads main has created
    chid,                   \* chid[o]: o's channel, 0 before it asks, -1 without
    coid,                   \* coid[s]: the server s is connected to, or none
    sensorPc,
    sendq,                  \* sensors SEND-blocked on the channel of their server
    stamp,                  \* msg.timestamp_ns, in seconds
    cuts,                   \* times sensor_weights[id] was multiplied by 0.9
    now                     \* time(NULL)

vars == <<spawned, chid, coid, sensorPc, sendq, stamp, cuts, now>>

Started(t) == \E i \in 1 .. spawned : Launch[i] = t
Live(o)    == chid[o] > 0
NoServer   == "none"

SensorPcs == {"unborn", "connect", "ready", "blocked", "exited"}

TypeOK ==
    /\ spawned \in 0 .. Len(Launch)
    /\ chid \in [Servers -> -1 .. 2]
    /\ coid \in [Sensors -> Servers \cup {NoServer}]
    /\ sensorPc \in [Sensors -> SensorPcs]
    /\ sendq \in SUBSET Sensors
    /\ stamp \in [Sensors -> 0 .. MaxSeconds]
    /\ cuts \in [Sensors -> 0 .. MaxCuts]
    /\ now \in 0 .. MaxSeconds

Init ==
    /\ spawned = 0
    /\ chid = [o \in Servers |-> 0]
    /\ coid = [s \in Sensors |-> NoServer]
    /\ sensorPc = [s \in Sensors |-> "unborn"]
    /\ sendq = {}
    /\ stamp = [s \in Sensors |-> 0]
    /\ cuts = [s \in Sensors |-> 0]
    /\ now = 0

SensorGoto(s, pc) == sensorPc' = [sensorPc EXCEPT ![s] = pc]

MainSpawn ==
    /\ spawned < Len(Launch)
    /\ spawned' = spawned + 1
    /\ IF Launch[spawned + 1] \in Sensors
       THEN SensorGoto(Launch[spawned + 1], "connect")
       ELSE UNCHANGED sensorPc
    /\ UNCHANGED <<chid, coid, sendq, stamp, cuts, now>>

\* The lowest channel number that is free.
FreeChid == IF \E o \in Servers : chid[o] = 1 THEN 2 ELSE 1

ChannelCreate(o) ==
    /\ Started(o)
    /\ chid[o] = 0
    /\ chid' = [chid EXCEPT ![o] = FreeChid]
    /\ UNCHANGED <<spawned, coid, sensorPc, sendq, stamp, cuts, now>>

\* The fusion engine returns.  The health monitor does not look: it goes on,
\* and its MsgReceive fails once a second.
ChannelCreateFails(o) ==
    /\ Started(o)
    /\ chid[o] = 0
    /\ o \in CreateMayFail
    /\ chid' = [chid EXCEPT ![o] = -1]
    /\ UNCHANGED <<spawned, coid, sensorPc, sendq, stamp, cuts, now>>

\* ConnectAttach, to whoever has the channel of that number.  Without one the
\* radar returns at once and the others leave their loop at the first MsgSend.
SensorConnect(s) ==
    /\ sensorPc[s] = "connect"
    /\ \/ \E o \in Servers :
            /\ chid[o] = CHID
            /\ coid' = [coid EXCEPT ![s] = o]
            /\ SensorGoto(s, "ready")
       \/ /\ \A o \in Servers : chid[o] # CHID
          /\ SensorGoto(s, "exited")
          /\ UNCHANGED coid
    /\ UNCHANGED <<spawned, chid, sendq, stamp, cuts, now>>

\* The sample is stamped; MsgSend blocks, or fails if the channel is gone.
SensorSend(s) ==
    /\ sensorPc[s] = "ready"
    /\ stamp' = [stamp EXCEPT ![s] = now]
    /\ IF Live(coid[s])
       THEN sendq' = sendq \cup {s} /\ SensorGoto(s, "blocked")
       ELSE UNCHANGED sendq /\ SensorGoto(s, "exited")
    /\ UNCHANGED <<spawned, chid, coid, cuts, now>>

\* Slips that the properties notice, one mutation each.
NoReply(s) == UNCHANGED sensorPc
CutAll(s)  == cuts' = [r \in Sensors |-> IF cuts[r] < MaxCuts THEN cuts[r] + 1 ELSE cuts[r]]

\* (now_ns - msg.timestamp_ns) / 1000000 on unsigned 64-bit integers.
DelayMs(s) == ((now - stamp[s]) * 1000) % MS_WRAP

Stale(s) == DelayMs(s) > 100

Reply(s) == SensorGoto(s, "ready")

Cut(s) == cuts' = [cuts EXCEPT ![s] = IF @ < MaxCuts THEN @ + 1 ELSE @]

\* The message of sensor s leaves the queue of the server o.
MsgReceive(s, o) == s \in sendq /\ coid[s] = o /\ sendq' = sendq \ {s}

\* The fusion engine takes, checks and answers a sample.
FusionReceive(s) ==
    /\ MsgReceive(s, "fusion")
    /\ IF Stale(s) THEN Cut(s) ELSE UNCHANGED cuts
    /\ Reply(s)
    /\ UNCHANGED <<spawned, chid, coid, stamp, now>>

\* MsgReceive returns -1: the engine leaves its loop, destroys the channel,
\* and whoever is blocked on it is failed and gives up.
FusionBreak ==
    /\ ReceiveMayFail
    /\ Live("fusion")
    /\ chid' = [chid EXCEPT !["fusion"] = -1]
    /\ sendq' = {s \in sendq : coid[s] # "fusion"}
    /\ sensorPc' = [s \in Sensors |-> IF s \in sendq /\ coid[s] = "fusion"
                                      THEN "exited" ELSE sensorPc[s]]
    /\ UNCHANGED <<spawned, coid, stamp, cuts, now>>

\* The health monitor takes a message as it takes a pulse, and replies to
\* neither: the sensor stays REPLY-blocked.
HealthReceive(s) ==
    /\ MsgReceive(s, "health")
    /\ UNCHANGED <<spawned, chid, coid, sensorPc, stamp, cuts, now>>

\* CLOCK_REALTIME moves on, or is set back by the administrator.
Tick    == now < MaxSeconds /\ now' = now + 1
SetBack == now > 0 /\ now' = now - 1
Clock   ==
    (Tick \/ SetBack) /\ UNCHANGED <<spawned, chid, coid, sensorPc, sendq, stamp, cuts>>

Create(o)     == ChannelCreate(o) \/ ChannelCreateFails(o)
SensorStep(s) == SensorConnect(s) \/ SensorSend(s)
Receive(s)    == FusionReceive(s) \/ HealthReceive(s)

Next ==
    \/ MainSpawn
    \/ \E o \in Servers : Create(o)
    \/ \E s \in Sensors : SensorStep(s) \/ Receive(s)
    \/ FusionBreak
    \/ Clock

\* Threads run.  MsgReceive orders the senders by priority and arrival, and
\* each sensor sleeps after its reply, so no sender is passed over for ever.
Fairness ==
    /\ WF_vars(MainSpawn)
    /\ \A o \in Servers : WF_vars(Create(o))
    /\ \A s \in Sensors : WF_vars(SensorStep(s)) /\ WF_vars(Receive(s))

Spec == Init /\ [][Next]_vars /\ Fairness

-----------------------------------------------------------------------------
(* Properties.                                                             *)

\* A sensor whose number turned out to be the fusion engine's channel is
\* served again and again as long as the engine has it, set clock or not:
\* what the race of the two servers and the sensors decides is decided once
\* (radar_proc.c:13-16, 39; fusion_engine.c:31-66).
ServedIfFusionFirst ==
    \A s \in Sensors :
        <>(coid[s] = "fusion") /\ [](chid["fusion"] # -1)
            => []<>(sensorPc[s] = "ready")

\* A sensor loses weight only for its own sample, and only if the clock
\* moved, in either direction, between its stamp and its reception: the
\* unsigned difference makes a clock set back look as stale as a late sample
\* (fusion_engine.c:51-58).
OnlyOwnStaleCuts ==
    [][\A s \in Sensors :
          cuts'[s] # cuts[s] => /\ s \in sendq /\ s \notin sendq'
                                /\ now # stamp[s]]_vars

\* "Assuming CHID 1 for the Fusion Engine Server" (radar_proc.c:13): a
\* sensor that sends to channel 1 is answered.
SensorsServed ==
    \A s \in Sensors : sensorPc[s] = "blocked" ~> sensorPc[s] = "ready"
=============================================================================
