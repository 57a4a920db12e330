---------------------------- MODULE AdasSession ----------------------------
(***************************************************************************)
(* The v4 session as one process: main (system/orchestrator_8core.c), the  *)
(* zonal aggregators, the fleet generator and the fusion engine, with the  *)
(* clock, the watchdog timer and the shutdown signal.                      *)
(*                                                                         *)
(* No thread of the session sends a summary, so the fusion engine hears    *)
(* nothing but its watchdog (summaryq stays empty).                        *)
(***************************************************************************)
EXTENDS ZonalAggregator, FleetGenerator, FusionEngine

CONSTANT SignalAllowed      \* may SIGINT or SIGTERM arrive?

\* The injected lag (150 ms) is one the drift check can see (100 ms).
ASSUME SessionAssumption ==
    /\ SignalAllowed \in BOOLEAN
    /\ LAG_MS > DRIFT_MS

VARIABLES
    spawned,                \* threads main has created
    exited                  \* main has returned: the process is gone

mainVars == <<spawned, exited>>

vars == <<sessionVars, ipcVars, aggVars, genVars, cenVars, mainVars>>

\* main creates the zones in order, then the central thread, the generator.
NUM_THREADS == NUM_ZONES + 2

Init ==
    /\ SessionInit
    /\ IpcInit
    /\ AggInit
    /\ GenInit
    /\ CenInit
    /\ spawned = 0
    /\ exited = FALSE

MainSpawn ==
    /\ spawned < NUM_THREADS
    /\ spawned' = spawned + 1
    /\ IF spawned < NUM_ZONES
       THEN ZoneGoto(spawned, "start") /\ UNCHANGED <<cenPc, genPc>>
       ELSE /\ UNCHANGED aggPc
            /\ IF spawned = Central
               THEN cenPc' = "start" /\ UNCHANGED genPc
               ELSE genPc' = "open" /\ UNCHANGED cenPc
    /\ UNCHANGED <<sessionVars, ipcVars, aggData, coids, cycle_count, sid,
                   timer, pulses, summaryq, cenLocals, exited>>

\* A slip a property notices: main does not wait.
MainReturns ==
    /\ spawned = NUM_THREADS
    /\ exited' = TRUE
    /\ UNCHANGED <<sessionVars, ipcVars, aggVars, genVars, cenVars, spawned>>

\* pthread_join(central_th) returns and so does main: whatever the other
\* threads are doing, they are gone with the process.
MainExit ==
    /\ spawned = NUM_THREADS
    /\ cenPc = "exited"
    /\ exited' = TRUE
    /\ UNCHANGED <<sessionVars, ipcVars, aggVars, genVars, cenVars, spawned>>

-----------------------------------------------------------------------------
(* The signal runs handle_shutdown on one thread.  A thread that the       *)
(* signal finds in a blocking call of the kernel returns from it with -1.  *)

\* It is taken by main, or by a thread that is not blocked.
InterruptNone == UNCHANGED <<ipcVars, aggVars, genVars, cenVars>>

\* A zone's aggregator in MsgReceive breaks out of its loop.
InterruptZone(z) ==
    /\ aggPc[z] = "receive"
    /\ ZoneGoto(z, "detach")
    /\ UNCHANGED <<ipcVars, aggData, genVars, cenVars>>

\* So does the fusion engine.
InterruptCentral ==
    /\ cenPc = "receive"
    /\ cenPc' = "detach"
    /\ UNCHANGED <<ipcVars, aggVars, genVars, timer, pulses, summaryq,
                   cenLocals>>

\* The generator's MsgSend fails: its sample is withdrawn from the queue, or
\* the aggregator that works on it is left with nobody to reply to.  (On a
\* channel that asks to be told before a sender is let go, the signal is held
\* until the reply: the same as a signal that arrives then.)
InterruptSend ==
    /\ genPc = "blocked"
    /\ LET to == Connection(sid)
       IN  /\ sendq' = [sendq EXCEPT ![to] = NoMsg]
           /\ rcvid' = [rcvid EXCEPT ![to] = FALSE]
    /\ UNCHANGED <<connectq, clockVars, aggVars, genVars, cenVars>>

\* So does its name_open, which it then calls again.
InterruptOpen ==
    /\ genPc = "opening"
    /\ genPc' = "open"
    /\ connectq' = connectq \ {sid}
    /\ UNCHANGED <<sendq, rcvid, clockVars, aggVars, coids, cycle_count, sid, cenVars>>

Signal ==
    /\ SignalAllowed
    /\ handle_shutdown
    /\ \/ InterruptNone
       \/ \E z \in Zones : InterruptZone(z)
       \/ InterruptCentral
       \/ InterruptSend
       \/ InterruptOpen
    /\ UNCHANGED <<names, mainVars>>

-----------------------------------------------------------------------------
Main      == MainSpawn \/ MainExit
Zone(z)   == ZoneStep(z) /\ UNCHANGED <<genVars, cenVars, mainVars>>
Generator == GenStep /\ UNCHANGED <<aggVars, cenVars, mainVars>>
Engine    == CenStep /\ UNCHANGED <<ipcVars, aggVars, genVars, mainVars>>
Watchdog  == WatchdogFires /\ UNCHANGED <<ipcVars, aggVars, genVars, mainVars>>
Clock     ==
    (Tick \/ SetBack) /\ UNCHANGED <<sessionVars, aggVars, genVars, cenVars, mainVars>>

\* A process that has exited takes no step.
Next ==
    \/ /\ ~exited
       /\ \/ Main
          \/ \E z \in Zones : Zone(z)
          \/ Generator
          \/ Engine
          \/ Watchdog
          \/ Clock
          \/ Signal
    \/ exited /\ UNCHANGED vars

\* Every thread that can run does, whatever its priority (each pool of cores
\* is larger than the threads pinned to it), and the armed timer fires.  The
\* clock and the signal owe nothing.
Fairness ==
    /\ WF_vars(~exited /\ Main)
    /\ \A z \in Zones : WF_vars(~exited /\ Zone(z))
    /\ WF_vars(~exited /\ Generator)
    /\ WF_vars(~exited /\ Engine)
    /\ WF_vars(~exited /\ Watchdog)

SafetySpec == Init /\ [][Next]_vars
Spec == SafetySpec /\ Fairness

-----------------------------------------------------------------------------
(* Properties.                                                             *)

TypeOK ==
    /\ SessionTypeOK
    /\ IpcTypeOK
    /\ AggTypeOK
    /\ GenTypeOK
    /\ CenTypeOK
    /\ spawned \in 0 .. NUM_THREADS
    /\ exited \in BOOLEAN

\* The synchronous generator keeps the zones apart: as long as the session
\* runs, one aggregator at most has a sample in its hands, so the mutex that
\* they share is never contended.  A signal that takes the sender away from
\* one of them ends that, and from then on only the mutex keeps two zones out
\* of the critical section (zonal_aggregator.c:51-100, fleet_generator.c:85).
OneSampleAtATime ==
    \A z1, z2 \in Zones :
        z1 # z2 /\ Serving(z1) /\ Serving(z2) =>
            /\ ~g_keep_running
            /\ ~(aggPc[z1] = "critical" /\ aggPc[z2] = "critical")

\* No sample is ever refused: the batch of ten starts raw_msg_count again
\* before it can pass the throttling limit, however fast the samples come, so
\* the throttling branch is dead code (zonal_aggregator.c:63-71 against 87-95).
\* SessionClaims states what is said of that branch.
NeverThrottled ==
    \A z \in Zones : raw_msg_count[z] <= THROTTLE_LIMIT /\ dropped_frames[z] = 0

\* A generator blocked in MsgSend waits for a thread that is there to wake
\* it: its sample is queued on an attached channel, or was received by the
\* aggregator of that zone, which still owes the reply; and the aggregator
\* of the zone has not ended (zonal_aggregator.c:45-105 against
\* fleet_generator.c:85).  It may otherwise only be about to return.
NoOrphanedSender ==
    genPc = "blocked" =>
        LET z == Connection(sid)
        IN  \/ sendq[z] # NoMsg /\ sendq[z].sensor_id = sid /\ Listening(z)
            \/ rcvid[z] /\ Serving(z) /\ msg[z].sensor_id = sid
            \/ Returned(z)

\* Every sample, queued or received, is on the channel of the zone its
\* sensor is configured for, although the generator addresses zones by the
\* connections it opened and not by name (fleet_generator.c:22-24, 85); and
\* two zones never hold samples of one sender's call at the same time.
RightZone ==
    \A z \in Zones :
        /\ sendq[z] # NoMsg => target_zone[sendq[z].sensor_id] = z
        /\ msg[z] # NoMsg => target_zone[msg[z].sensor_id] = z
        /\ rcvid[z] => \A y \in Zones \ {z} : ~rcvid[y] /\ sendq[y] = NoMsg

\* How far the call of the generator has come.
CallStage ==
    LET z == Connection(sid)
    IN  CASE genPc # "blocked"                                 -> "idle"
          [] genPc = "blocked" /\ sendq[z] # NoMsg             -> "queued"
          [] genPc = "blocked" /\ Returned(z)                  -> "returned"
          [] genPc = "blocked" /\ rcvid[z] /\ sendq[z] = NoMsg ->
                IF aggPc[z] = "reply" THEN "judged" ELSE "taken"

\* The sensor whose sample it carries, or none.
Caller == IF genPc = "blocked" THEN sid ELSE -1

\* The sensors of the samples that are yet to be judged and have no caller.
Orphans ==
    {msg[z].sensor_id : z \in {y \in Zones : aggPc[y] \in {"lock", "critical"} /\ ~rcvid[y]}}

\* The calls of the generator, over whatever channels and threads, are calls
\* of SampleCall: a call returns only after its sample has been judged, every
\* sample is judged at most once and within its call, and only a signal takes
\* a caller away before that; the sample it leaves behind, if an aggregator
\* has it, is judged before the next one of its sensor is received
\* (zonal_aggregator.c:45-105, fleet_generator.c:85, orchestrator_8core.c:14-17).
SC == INSTANCE SampleCall WITH
        running   <- g_keep_running,
        call      <- [stage |-> CallStage, sensor |-> Caller],
        abandoned <- Orphans,
        drifting  <- sensor_drift_active

ImplementsCalls == SC!Spec

\* A sample with the injected clock lag passes as aligned only if the clock
\* has been set back since its stamp: otherwise its sensor is marked as
\* drifting when it has been processed, however long it waited in the queue
\* and for the mutex, and whatever seconds and earlier settings of the clock
\* lie behind it (fleet_generator.c:68, 75, 85 and zonal_aggregator.c:56,
\* 75-85).
LaggedSampleFlagged ==
    [][\A z \in Zones :
          /\ aggPc[z] = "critical" /\ aggPc'[z] = "reply"
          /\ msg[z].lagged /\ msg[z].epoch = setbacks
          => sensor_drift_active'[msg[z].sensor_id]]_vars

\* The process ends only on a signal or without a central thread: nothing
\* that happens to a zone or to the generator takes the session down
\* (orchestrator_8core.c:78).
EndsOnlyOnRequest ==
    exited => ~g_keep_running \/ names[Central] = "absent"

\* Every MsgSend of a sample returns, whether the zone answers, leaves, or a
\* signal arrives, unless the process itself ends (fleet_generator.c:85,
\* zonal_aggregator.c:68, 100, 105).  A name_open that has to ask an
\* aggregator does not: see StreamRuns.
SendReturns == genPc = "blocked" ~> (genPc # "blocked" \/ exited)

\* Until a signal arrives the stream goes on: each sensor's turn comes again
\* and again.  Exactly two things may prevent it, both before the first
\* sample: a zone without its name, and an aggregator that was asked by
\* name_open, since it takes the message and never answers (fleet_generator.c:
\* 24-29, zonal_aggregator.c:51-55).  No sample ever stops the stream.
StreamRuns ==
    <>[]g_keep_running /\ []~exited
        => \/ \E z \in Zones : []~Attached(z)
           \/ <>[](genPc = "opening" /\ sid \notin connectq)
           \/ \A s \in Sensors : []<>(genPc = "sweep" /\ sid = s)

\* After the shutdown signal the process ends although most threads are
\* blocked and are not told: the watchdog wakes the fusion engine, whose
\* exit main waits for.  (Without the timer it may hang.)
ShutdownCompletes == ~g_keep_running ~> (exited \/ timer = "failed")
-----------------------------------------------------------------------------
(* The inductive invariant behind the safety properties, part by part.     *)

\* A thread main has not created yet has done nothing.
SpawnInv ==
    /\ \A z \in Zones : z >= spawned => aggPc[z] = "unborn"
    /\ spawned <= Central => cenPc = "unborn"
    /\ spawned <= Central + 1 => genPc = "unborn"

\* The mutex is held by the one aggregator in the critical section.
MutexInv == \A z \in Zones : aggPc[z] = "critical" <=> state_mutex = z

\* At rest a zone has counted less than a batch and dropped nothing.
BatchInv ==
    \A z \in Zones : raw_msg_count[z] < SUMMARY_BATCH /\ dropped_frames[z] = 0

\* Where sid points, and which connections are open by then.
GenInv ==
    /\ genPc = "unborn" => sid = 0
    /\ genPc \in {"open", "opening"} =>
         sid \in Zones /\ \A z \in 0 .. sid - 1 : coids[z] = z
    /\ genPc \in {"test", "sweep", "blocked"} => \A z \in Zones : coids[z] = z
    /\ genPc = "sweep" => sid \in 0 .. TOTAL_SENSORS
    /\ genPc = "blocked" => sid \in Sensors

\* A sample that waits, or that a reply is owed for, is the one the
\* generator is blocked on, at the zone of its sensor.
QueueInv ==
    \A z \in Zones :
        sendq[z] # NoMsg =>
            /\ genPc = "blocked"
            /\ z = target_zone[sid]
            /\ sendq[z].sensor_id = sid
            /\ Attached(z)

ReplyInv ==
    \A z \in Zones :
        rcvid[z] =>
            /\ genPc = "blocked"
            /\ z = target_zone[sid]
            /\ sendq[z] = NoMsg
            /\ Serving(z)
            /\ msg[z].sensor_id = sid

\* Only a signal leaves an aggregator at work without a reply to give.
OwedInv == g_keep_running => \A z \in Zones : Serving(z) => rcvid[z]

\* The name of a zone is attached exactly while its aggregator listens.
AttachInv == \A z \in Zones : Attached(z) <=> Listening(z)

\* An aggregator holds a sample, of its own zone, exactly while it serves.
ServeInv ==
    \A z \in Zones :
        /\ Serving(z) <=> msg[z] # NoMsg
        /\ msg[z] # NoMsg => target_zone[msg[z].sensor_id] = z

\* As long as the clock is not set back, the time of a sample, or the lag
\* after it if the sample has one, is not ahead of any reading taken for it.
StampedBy(m, t) ==
    /\ m.epoch <= setbacks
    /\ m.epoch = setbacks => m.timestamp + (IF m.lagged THEN LAG_MS ELSE 0) <= t

StampInv ==
    \A z \in Zones :
        /\ sendq[z] # NoMsg => StampedBy(sendq[z], time_ms)
        /\ msg[z] # NoMsg => StampedBy(msg[z], now_ms[z])

SenderInv == GenInv /\ QueueInv /\ ReplyInv /\ AttachInv /\ ServeInv

IInv == TypeOK /\ SpawnInv /\ MutexInv /\ BatchInv /\ SenderInv /\ OwedInv /\ StampInv

=============================================================================
