------------------------------- MODULE AdasV2 -------------------------------
(***************************************************************************)
(* The v2 process: main, one fusion server and four sensor clients that    *)
(* send to it synchronously.                                               *)
(*                                                                         *)
(* The server publishes the id of its channel in a global.  Main sleeps    *)
(* 100 ms before it starts the clients; a sleep orders nothing, so a       *)
(* client may read the global before the server has written it.  Nobody    *)
(* ever clears system_run, arms the pulse timer or sends another type of   *)
(* message, so the loops only end with an error: the channel that cannot   *)
(* be created, the MsgReceive that fails, or the MsgSend that then does.   *)
(* The run masks main sets with ThreadCtl decide which core runs a thread, *)
(* which no property here depends on, and are left out.                    *)
(***************************************************************************)
EXTENDS Integers, Sequences

Clients == {"lidar", "radar", "camera", "ultrasonic"}

CONSTANT ReceiveMayFail     \* whether MsgReceive of the server may return -1

ASSUME ReceiveMayFailAssumption == ReceiveMayFail \in BOOLEAN

\* The threads main creates, in order.
Program == <<"server", "lidar", "radar", "camera", "ultrasonic">>

Nobody  == "nobody"
Unset   == 0                \* the initial value of a global
Error   == -1
Channel == 1                \* the first channel of the process

VARIABLES
    done,                   \* threads of Program main has created
    exited,                 \* main has returned
    pc,                     \* of the server and the clients
    fusion_server_chid,
    channels,               \* the channels of the process
    sendq,                  \* clients SEND-blocked on the channel
    serving                 \* the client of rcvid

vars == <<done, exited, pc, fusion_server_chid, channels, sendq, serving>>

TypeOK ==
    /\ done \in 0 .. Len(Program) /\ exited \in BOOLEAN
    /\ pc \in [Clients \cup {"server"} ->
                 {"unborn", "start", "loop", "blocked", "sleep", "reply", "gone"}]
    /\ fusion_server_chid \in {Unset, Error, Channel}
    /\ channels \subseteq {Channel}
    /\ sendq \subseteq Clients
    /\ serving \in Clients \cup {Nobody}

Init ==
    /\ done = 0 /\ exited = FALSE
    /\ pc = [t \in Clients \cup {"server"} |-> "unborn"]
    /\ fusion_server_chid = Unset /\ channels = {}
    /\ sendq = {} /\ serving = Nobody

Goto(t, p) == pc' = [pc EXCEPT ![t] = p]

\* Slips that the properties notice, one mutation each.
NoWake(c)   == serving' = Nobody /\ Goto("server", "loop")
JoinAnyone  == \E t \in DOMAIN pc : pc[t] = "gone"

-----------------------------------------------------------------------------
(* main.                                                                   *)

\* pthread_create of the next thread.
MainStep ==
    /\ done < Len(Program)
    /\ done' = done + 1
    /\ Goto(Program[done + 1], "start")
    /\ UNCHANGED <<exited, fusion_server_chid, channels, sendq, serving>>

Joined == pc["server"] = "gone"

\* pthread_join of the server, and the end of the process.
MainExit ==
    /\ done = Len(Program)
    /\ Joined
    /\ exited' = TRUE
    /\ UNCHANGED <<done, pc, fusion_server_chid, channels, sendq, serving>>

-----------------------------------------------------------------------------
(* fusion_server_thread.                                                   *)

ServerStart ==
    /\ pc["server"] = "start"
    /\ \/ /\ fusion_server_chid' = Channel /\ channels' = {Channel}
          /\ Goto("server", "loop")
       \/ /\ fusion_server_chid' = Error /\ UNCHANGED channels
          /\ Goto("server", "gone")
    /\ UNCHANGED <<done, exited, sendq, serving>>

\* MsgReceive takes one of the blocked clients.
ServerReceive(c) ==
    /\ pc["server"] = "loop"
    /\ c \in sendq
    /\ sendq' = sendq \ {c}
    /\ serving' = c
    /\ Goto("server", "reply")
    /\ UNCHANGED <<done, exited, fusion_server_chid, channels>>

\* MsgReceive fails, and ChannelDestroy ends the MsgSend of all who are
\* blocked.  The global keeps the id.
ServerBreak ==
    /\ ReceiveMayFail
    /\ pc["server"] = "loop"
    /\ channels' = channels \ {fusion_server_chid}
    /\ pc' = [t \in DOMAIN pc |-> IF t \in sendq \cup {"server"} THEN "gone" ELSE pc[t]]
    /\ sendq' = {}
    /\ UNCHANGED <<done, exited, fusion_server_chid, serving>>

\* MsgReply wakes the client, with status 0.
MsgReply(c) ==
    /\ serving' = Nobody
    /\ pc' = [pc EXCEPT !["server"] = "loop", ![c] = "sleep"]

ServerReply(c) ==
    /\ pc["server"] = "reply"
    /\ c = serving
    /\ MsgReply(c)
    /\ UNCHANGED <<done, exited, fusion_server_chid, channels, sendq>>

-----------------------------------------------------------------------------
(* generic_sensor_client.                                                  *)

Online == fusion_server_chid \in channels

\* ConnectAttach; without a channel the thread returns.
Connect(c) ==
    /\ pc[c] = "start"
    /\ Goto(c, IF Online THEN "loop" ELSE "gone")
    /\ UNCHANGED <<done, exited, fusion_server_chid, channels, sendq, serving>>

\* The computation, and MsgSend; it fails if the channel is gone.
Send(c) ==
    /\ pc[c] = "loop"
    /\ sendq' = IF Online THEN sendq \cup {c} ELSE sendq
    /\ Goto(c, IF Online THEN "blocked" ELSE "gone")
    /\ UNCHANGED <<done, exited, fusion_server_chid, channels, serving>>

\* usleep is over.
Wake(c) ==
    /\ pc[c] = "sleep"
    /\ Goto(c, "loop")
    /\ UNCHANGED <<done, exited, fusion_server_chid, channels, sendq, serving>>

-----------------------------------------------------------------------------
Main      == MainStep \/ MainExit
Client(c) == Connect(c) \/ Send(c) \/ Wake(c)

\* Nothing happens after the end of the process.
Next ==
    /\ ~exited
    /\ \/ Main
       \/ ServerStart \/ ServerBreak
       \/ \E c \in Clients : ServerReceive(c) \/ ServerReply(c) \/ Client(c)

\* Threads run.  Each client sleeps 100 ms or more after its reply and the
\* server is done with a message at once, so no client is passed over.
\* Nothing obliges MsgReceive to fail.
Fairness ==
    /\ WF_vars(~exited /\ Main)
    /\ WF_vars(~exited /\ ServerStart)
    /\ \A c \in Clients :
          /\ WF_vars(~exited /\ Client(c))
          /\ SF_vars(~exited /\ ServerReceive(c))
          /\ WF_vars(~exited /\ ServerReply(c))

Spec == Init /\ [][Next]_vars /\ Fairness

-----------------------------------------------------------------------------
(* Properties.                                                             *)

\* A blocked client is queued or being served, and the server that will
\* answer it is there: it has the channel and is not waiting for others.
BlockedIsHeld ==
    /\ \A c \in Clients :
          pc[c] = "blocked" <=> (c \in sendq /\ serving # c)
                                \/ (c \notin sendq /\ serving = c)
    /\ serving # Nobody <=> pc["server"] = "reply"
    /\ (sendq # {} \/ serving # Nobody) => Online /\ pc["server"] \in {"loop", "reply"}

\* The channel must be there when a client connects, and nothing else: a
\* client that has not tried before the server has its channel is served
\* again and again, whatever became of the others, as long as the channel
\* lives (adas_qnx_system.c:93-97, 138, 166, 178, 239).
ServedIfChannelFirst ==
    \A c \in Clients :
        /\ Online /\ pc[c] # "gone" ~> pc[c] = "sleep" \/ ~Online
        /\ pc[c] = "sleep" ~> pc[c] = "blocked" \/ ~Online

\* The process ends if and only if the server has tried and has no channel,
\* because none could be created or because MsgReceive failed, although
\* clients may come and go: main joins the server alone.
EndsWithoutChannel ==
    /\ fusion_server_chid # Unset /\ ~Online ~> exited
    /\ [](exited => fusion_server_chid # Unset /\ ~Online)
=============================================================================
