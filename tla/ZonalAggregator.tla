--------------------------- MODULE ZonalAggregator ---------------------------
(***************************************************************************)
(* core/zonal_aggregator.c: the thread that serves the samples of a zone.  *)
(*                                                                         *)
(* raw_msg_count and dropped_frames are locals of the thread, one pair per *)
(* zone; state_mutex and sensor_drift_active are static, shared by every   *)
(* zone.  What the throttling branch replies (-1) and the accepting branch *)
(* (0) no sender reads, so the replies carry no status here.               *)
(***************************************************************************)
EXTENDS ZoneIpc

CONSTANTS
    SUMMARY_BATCH,          \* 10: samples per cluster
    THROTTLE_LIMIT          \* 15: samples above which a sample is refused

\* In the source a batch (10) is full before the limit (15) is passed.
ASSUME AggregatorAssumption ==
    /\ SUMMARY_BATCH \in Nat \ {0}
    /\ THROTTLE_LIMIT \in Nat
    /\ SUMMARY_BATCH <= THROTTLE_LIMIT + 1

VARIABLES
    aggPc,                  \* where each aggregator thread stands
    msg,                    \* the sample it received
    now_ms,                 \* the clock it read for it (now_ns, in ms)
    raw_msg_count,
    dropped_frames,
    state_mutex,            \* the zone that holds the mutex, or Free
    sensor_drift_active

aggVars == <<aggPc, msg, now_ms, raw_msg_count, dropped_frames, state_mutex,
             sensor_drift_active>>

Free == -1

AggPcs == {"unborn", "start", "loop", "receive", "lock", "critical", "reply",
           "detach", "exited"}

\* The thread is between its name_attach and its name_detach.
Listening(z) ==
    aggPc[z] \in {"loop", "receive", "lock", "critical", "reply", "detach"}

\* The pcs at which the thread has received a sample and owes a reply.
Serving(z) == aggPc[z] \in {"lock", "critical", "reply"}

AggTypeOK ==
    /\ aggPc \in [Zones -> AggPcs]
    /\ msg \in [Zones -> Sample \cup {NoMsg}]
    /\ now_ms \in [Zones -> Int]
    /\ raw_msg_count \in [Zones -> Nat]
    /\ dropped_frames \in [Zones -> Nat]
    /\ state_mutex \in Zones \cup {Free}
    /\ sensor_drift_active \in [Sensors -> BOOLEAN]

AggInit ==
    /\ aggPc = [z \in Zones |-> "unborn"]
    /\ msg = [z \in Zones |-> NoMsg]
    /\ now_ms = [z \in Zones |-> 0]
    /\ raw_msg_count = [z \in Zones |-> 0]
    /\ dropped_frames = [z \in Zones |-> 0]
    /\ state_mutex = Free
    /\ sensor_drift_active = [s \in Sensors |-> FALSE]

ZoneGoto(z, pc) == aggPc' = [aggPc EXCEPT ![z] = pc]

aggData == <<msg, now_ms, raw_msg_count, dropped_frames, state_mutex,
             sensor_drift_active>>

ZoneAttach(z) ==
    /\ aggPc[z] = "start"
    /\ name_attach(z)
    /\ ZoneGoto(z, "loop")
    /\ UNCHANGED <<g_keep_running, ipcVars, aggData>>

ZoneAttachFails(z) ==
    /\ aggPc[z] = "start"
    /\ z \in AttachMayFail
    /\ ZoneGoto(z, "exited")
    /\ UNCHANGED <<sessionVars, ipcVars, aggData>>

\* while (g_keep_running)
ZoneLoop(z) ==
    /\ aggPc[z] = "loop"
    /\ ZoneGoto(z, IF g_keep_running THEN "receive" ELSE "detach")
    /\ UNCHANGED <<sessionVars, ipcVars, aggData>>

\* Slips that the properties of the session notice, one mutation each.
ZoneAnswersFirst(z) ==
    /\ aggPc[z] = "receive"
    /\ sendq[z] # NoMsg
    /\ sendq' = [sendq EXCEPT ![z] = NoMsg]
    /\ msg' = [msg EXCEPT ![z] = sendq[z]]
    /\ now_ms' = [now_ms EXCEPT ![z] = time_ms]
    /\ ZoneGoto(z, "lock")
    /\ UNCHANGED <<sessionVars, rcvid, connectq, clockVars, raw_msg_count,
                   dropped_frames, state_mutex, sensor_drift_active>>
BatchFullLate(z)   == raw_msg_count[z] > SUMMARY_BATCH
BatchStartShort(z) == raw_msg_count[z] - SUMMARY_BATCH
DriftSwapped(z)    == msg[z].timestamp - now_ms[z] > 100
ZoneLockIgnored(z) ==
    /\ aggPc[z] = "lock"
    /\ state_mutex' = z
    /\ ZoneGoto(z, "critical")
    /\ UNCHANGED <<sessionVars, ipcVars, msg, now_ms, raw_msg_count,
                   dropped_frames, sensor_drift_active>>
ZoneQuit(z) ==
    /\ aggPc[z] = "detach"
    /\ ZoneGoto(z, "exited")
    /\ UNCHANGED <<sessionVars, ipcVars, aggData>>

ZoneReceive(z) ==
    /\ aggPc[z] = "receive"
    /\ MsgReceive(z)
    /\ msg' = [msg EXCEPT ![z] = sendq[z]]
    /\ now_ms' = [now_ms EXCEPT ![z] = time_ms]
    /\ ZoneGoto(z, "lock")
    /\ UNCHANGED <<sessionVars, clockVars, raw_msg_count, dropped_frames,
                   state_mutex, sensor_drift_active>>

\* A message of another type than MSG_RAW_DATA is received and passed over:
\* no branch replies to it.
ZoneReceiveOther(z) ==
    /\ aggPc[z] = "receive"
    /\ ConnectReceive(z)
    /\ ZoneGoto(z, "loop")
    /\ UNCHANGED <<sessionVars, clockVars, aggData>>

ZoneLock(z) ==
    /\ aggPc[z] = "lock"
    /\ state_mutex = Free
    /\ state_mutex' = z
    /\ ZoneGoto(z, "critical")
    /\ UNCHANGED <<sessionVars, ipcVars, msg, now_ms, raw_msg_count,
                   dropped_frames, sensor_drift_active>>

\* Adaptive throttling: the sample is dropped.
Throttle(z) ==
    /\ dropped_frames' = [dropped_frames EXCEPT ![z] = @ + 1]
    /\ UNCHANGED <<raw_msg_count, sensor_drift_active>>

DRIFT_MS == 100

Drifting(z) == now_ms[z] - msg[z].timestamp > DRIFT_MS

\* With this sample the batch is full, and the next one starts from nothing.
BatchFull(z)  == raw_msg_count[z] + 1 >= SUMMARY_BATCH
BatchStart(z) == 0

\* The sample is aligned and counted; a full batch starts the counters again.
Cluster(z) ==
    /\ sensor_drift_active' =
         [sensor_drift_active EXCEPT ![msg[z].sensor_id] = Drifting(z)]
    /\ raw_msg_count' =
         [raw_msg_count EXCEPT ![z] = IF BatchFull(z) THEN BatchStart(z) ELSE @ + 1]
    /\ dropped_frames' = [dropped_frames EXCEPT ![z] = IF BatchFull(z) THEN 0 ELSE @]

\* The critical section, up to the unlock that ends either branch of it.
ZoneProcess(z) ==
    /\ aggPc[z] = "critical"
    /\ IF raw_msg_count[z] > THROTTLE_LIMIT THEN Throttle(z) ELSE Cluster(z)
    /\ state_mutex' = Free
    /\ ZoneGoto(z, "reply")
    /\ UNCHANGED <<sessionVars, ipcVars, msg, now_ms>>

\* Both branches reply and go back to the loop test; msg is dead from here.
ZoneReply(z) ==
    /\ aggPc[z] = "reply"
    /\ MsgReply(z)
    /\ msg' = [msg EXCEPT ![z] = NoMsg]
    /\ now_ms' = [now_ms EXCEPT ![z] = 0]
    /\ ZoneGoto(z, "loop")
    /\ UNCHANGED <<sessionVars, clockVars, raw_msg_count, dropped_frames,
                   state_mutex, sensor_drift_active>>

ZoneDetach(z) ==
    /\ aggPc[z] = "detach"
    /\ name_detach(z)
    /\ ChannelDestroy(z)
    /\ ZoneGoto(z, "exited")
    /\ UNCHANGED <<g_keep_running, clockVars, aggData>>

ZoneStep(z) ==
    \/ ZoneAttach(z)  \/ ZoneAttachFails(z)
    \/ ZoneLoop(z)    \/ ZoneReceive(z)
    \/ ZoneReceiveOther(z)
    \/ ZoneLock(z)    \/ ZoneProcess(z)
    \/ ZoneReply(z)   \/ ZoneDetach(z)
=============================================================================
