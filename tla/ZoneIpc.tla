------------------------------- MODULE ZoneIpc -------------------------------
(***************************************************************************)
(* Synchronous QNX message passing between the fleet generator and the     *)
(* zonal aggregators, and the wall clock both read.                        *)
(*                                                                         *)
(* MsgSend blocks its caller until the receiver replies.  The generator is *)
(* the only sender of the session, so a zone's channel holds at most one   *)
(* sample: sendq[z] while its sender is SEND-blocked and, once received,   *)
(* rcvid[z] while the sender is REPLY-blocked.  A signal may take the      *)
(* sender away, and then MsgReply finds nobody to wake.                    *)
(*                                                                         *)
(* name_open may end in the name service, or send a message of its own to  *)
(* the channel behind the name (_IO_CONNECT on QNX), which waits there in  *)
(* connectq like a sample does in sendq.                                   *)
(***************************************************************************)
EXTENDS SessionState

CONSTANTS
    NoMsg,                  \* no message
    TICKS_PER_SECOND,       \* resolution of the modelled clock
    MaxTicks,               \* bound: the clock stops there
    MaxSetBacks,            \* bound: how often the clock is set back
    ConnectMayAsk           \* zones whose name_open may send them a message

ASSUME IpcAssumption ==
    /\ TICKS_PER_SECOND \in Nat \ {0}
    /\ MaxTicks \in Nat
    /\ MaxSetBacks \in Nat
    /\ ConnectMayAsk \subseteq Zones
    /\ NoMsg \notin [sensor_id : Sensors, timestamp : Int, lagged : BOOLEAN, epoch : Nat]

VARIABLES
    sendq,                  \* sendq[z]: the sample waiting on z's channel
    rcvid,                  \* rcvid[z]: z's aggregator owes a reply
    connectq,               \* zones with a connect message on their channel
    now,                    \* the clock, in ticks
    setbacks                \* how often it has been set back

clockVars == <<now, setbacks>>
ipcVars == <<sendq, rcvid, connectq, clockVars>>

\* raw_sensor_msg_t.  timestamp is in ms.  No code reads the other two, they
\* tell a property what the stamp is worth: whether the lag was injected, and
\* how often the clock had been set back by then.
Sample == [sensor_id : Sensors, timestamp : Int, lagged : BOOLEAN, epoch : Nat]

\* time(NULL) * 1000000000 at tick t, in ms: whole seconds.
time_at(t) == (t \div TICKS_PER_SECOND) * 1000
time_ms == time_at(now)

IpcTypeOK ==
    /\ sendq \in [Zones -> Sample \cup {NoMsg}]
    /\ rcvid \in [Zones -> BOOLEAN]
    /\ connectq \subseteq Zones
    /\ now \in Nat
    /\ setbacks \in Nat

IpcInit ==
    /\ sendq = [z \in Zones |-> NoMsg]
    /\ rcvid = [z \in Zones |-> FALSE]
    /\ connectq = {}
    /\ now = TICKS_PER_SECOND
    /\ setbacks = 0

\* The sender on z's channel becomes SEND-blocked.
MsgSend(z, m) ==
    sendq' = [sendq EXCEPT ![z] = m] /\ UNCHANGED <<rcvid, connectq>>

\* The sample leaves the queue and the sender becomes REPLY-blocked.
MsgReceive(z) ==
    /\ sendq[z] # NoMsg
    /\ sendq' = [sendq EXCEPT ![z] = NoMsg]
    /\ rcvid' = [rcvid EXCEPT ![z] = TRUE]
    /\ UNCHANGED connectq

\* A slip a liveness property notices: no reply.
MsgReplyForgotten(z) == UNCHANGED <<sendq, rcvid, connectq>>

\* Wakes the REPLY-blocked sender, if a signal has not done so.
MsgReply(z) ==
    rcvid' = [rcvid EXCEPT ![z] = FALSE] /\ UNCHANGED <<sendq, connectq>>

\* The caller of name_open becomes SEND-blocked on z's channel.
ConnectSend(z) == connectq' = connectq \cup {z} /\ UNCHANGED <<sendq, rcvid>>

\* The connect message leaves the queue; its sender is REPLY-blocked.
ConnectReceive(z) ==
    /\ z \in connectq
    /\ connectq' = connectq \ {z}
    /\ UNCHANGED <<sendq, rcvid>>

\* A channel that is destroyed fails the sender that waits on it.
ChannelDestroy(z) ==
    /\ sendq' = [sendq EXCEPT ![z] = NoMsg]
    /\ connectq' = connectq \ {z}
    /\ UNCHANGED rcvid

\* MsgSend on z has returned: the sender waits in neither state.
Returned(z) == sendq[z] = NoMsg /\ ~rcvid[z]

Tick ==
    /\ now < MaxTicks
    /\ now' = now + 1
    /\ UNCHANGED <<sendq, rcvid, connectq, setbacks>>

\* time(NULL) is the wall clock, which may be set.
SetBack ==
    /\ setbacks < MaxSetBacks
    /\ setbacks' = setbacks + 1
    /\ now' \in 0 .. now - 1
    /\ UNCHANGED <<sendq, rcvid, connectq>>
=============================================================================
