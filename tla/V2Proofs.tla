------------------------------ MODULE V2Proofs ------------------------------
(***************************************************************************)
(* Safety of the v2 process, whether or not MsgReceive of its server fails.*)
(***************************************************************************)
EXTENDS AdasV2, TLAPS

\* A thread that main has yet to create does not run.
UnbornInv == \A i \in done + 1 .. Len(Program) : pc[Program[i]] = "unborn"

\* The channel is there as long as the server is in its loop, the global is
\* set when the server has tried to create it, and a client that is queued or
\* served got its connection from a server that is still there.
ServerInv ==
    /\ fusion_server_chid = Unset <=> pc["server"] \in {"unborn", "start"}
    /\ fusion_server_chid = Error => pc["server"] = "gone"
    /\ channels = IF pc["server"] \in {"loop", "reply"} THEN {Channel} ELSE {}
    /\ \A c \in Clients : pc[c] = "blocked" => pc["server"] \in {"loop", "reply"}
    /\ \A c \in Clients : pc[c] \in {"loop", "sleep"} => fusion_server_chid = Channel
    /\ \A c \in Clients : pc[c] # "reply"
    /\ pc["server"] \notin {"blocked", "sleep"}
    /\ serving \notin sendq
    /\ exited => pc["server"] = "gone"

V2Inv == TypeOK /\ BlockedIsHeld /\ UnbornInv /\ ServerInv

\* What Program consists of: a thread is created once.
LEMMA ProgramFacts ==
    /\ Len(Program) = 5
    /\ \A i \in 1 .. 5 : Program[i] \in Clients \cup {"server"}
    /\ \A i, j \in 1 .. 5 : i # j => Program[i] # Program[j]
  BY DEF Program, Clients

\* The invariant holds at the start.
LEMMA V2Start == Init => V2Inv
  <1> SUFFICES ASSUME Init PROVE V2Inv
    OBVIOUS
  <1>1. TypeOK
    <2>1. done \in 0 .. Len(Program) /\ fusion_server_chid \in {Unset, Error, Channel}
      BY ProgramFacts DEF Init
    <2>2. pc \in [Clients \cup {"server"} ->
                     {"unborn", "start", "loop", "blocked", "sleep", "reply", "gone"}]
      BY DEF Init
    <2>3. /\ exited \in BOOLEAN /\ channels \subseteq {Channel}
          /\ sendq \subseteq Clients /\ serving \in Clients \cup {Nobody}
      BY DEF Init
    <2> QED
      BY <2>1, <2>2, <2>3 DEF TypeOK
  <1>2. UnbornInv
    BY ProgramFacts DEF Init, UnbornInv
  <1>3. BlockedIsHeld /\ ServerInv
    BY DEF Init, BlockedIsHeld, ServerInv, Clients, Nobody, Unset, Channel, Error
  <1> QED
    BY <1>1, <1>2, <1>3 DEF V2Inv

\* Online says that the server is in its loop.
LEMMA OnlineMeans ==
    ServerInv /\ fusion_server_chid \in {Unset, Error, Channel}
        => (Online <=> pc["server"] \in {"loop", "reply"})
  BY DEF ServerInv, Online, Unset, Error, Channel

\* main creates, and disturbs nobody who runs.
LEMMA V2Main == V2Inv /\ Main => V2Inv'
  <1> SUFFICES ASSUME V2Inv, Main PROVE V2Inv'
    OBVIOUS
  <1> USE ProgramFacts DEF V2Inv
  <1>1. CASE MainStep
    <2> DEFINE t == Program[done + 1]
    <2>1. done + 1 \in 1 .. 5 /\ t \in Clients \cup {"server"} /\ pc[t] = "unborn"
      BY <1>1 DEF MainStep, TypeOK, UnbornInv
    <2>2. TypeOK'
      BY <1>1, <2>1 DEF MainStep, TypeOK, Goto
    <2>3. UnbornInv'
      BY <1>1, <2>1 DEF MainStep, TypeOK, UnbornInv, Goto
    <2>4. BlockedIsHeld'
      BY <1>1, <2>1 DEF MainStep, TypeOK, BlockedIsHeld, Online, Goto, Clients
    <2>5. ServerInv'
      BY <1>1, <2>1 DEF MainStep, TypeOK, ServerInv, Goto, Clients
    <2> QED
      BY <2>2, <2>3, <2>4, <2>5
  <1>2. CASE MainExit
    BY <1>2 DEF MainExit, Joined, TypeOK, UnbornInv, BlockedIsHeld, ServerInv, Online
  <1> QED
    BY <1>1, <1>2 DEF Main

\* The server takes a client from the queue, answers the one it took, and
\* takes nobody with it but the queued when its MsgReceive fails.
LEMMA V2Server ==
    ASSUME V2Inv, ServerStart \/ ServerBreak \/ \E c \in Clients : ServerReceive(c) \/ ServerReply(c)
    PROVE  V2Inv'
  <1> USE ProgramFacts DEF V2Inv
  <1>0. "server" \notin Clients /\ Nobody \notin Clients
    BY DEF Clients, Nobody
  <1>1. CASE ServerStart
    <2>1. TypeOK'
      BY <1>1 DEF ServerStart, TypeOK, Goto
    <2>2. UnbornInv'
      BY <1>1 DEF ServerStart, TypeOK, UnbornInv, Goto
    <2>3. BlockedIsHeld'
      BY <1>1, <1>0 DEF ServerStart, TypeOK, BlockedIsHeld, ServerInv, Online, Goto
    <2>4. ServerInv'
      BY <1>1, <1>0 DEF ServerStart, TypeOK, ServerInv, Goto, Channel, Error, Unset
    <2> QED
      BY <2>1, <2>2, <2>3, <2>4
  <1>2. ASSUME NEW c \in Clients, ServerReceive(c) PROVE V2Inv'
    <2>1. TypeOK' /\ UnbornInv'
      BY <1>2 DEF ServerReceive, TypeOK, UnbornInv, Goto
    <2>2. BlockedIsHeld'
      BY <1>2, <1>0 DEF ServerReceive, TypeOK, BlockedIsHeld, Online, Goto
    <2>3. ServerInv'
      BY <1>2, <1>0 DEF ServerReceive, TypeOK, ServerInv, Goto
    <2> QED
      BY <2>1, <2>2, <2>3
  <1>3. ASSUME NEW c \in Clients, ServerReply(c) PROVE V2Inv'
    <2>1. pc[c] = "blocked" /\ c \notin sendq
      BY <1>3 DEF ServerReply, BlockedIsHeld, ServerInv
    <2>2. TypeOK'
      BY <1>3 DEF ServerReply, MsgReply, TypeOK
    <2>3. UnbornInv'
      BY <1>3, <2>1 DEF ServerReply, MsgReply, TypeOK, UnbornInv
    <2>4. BlockedIsHeld'
      BY <1>3, <2>1, <1>0 DEF ServerReply, MsgReply, TypeOK, BlockedIsHeld, Online
    <2>5. fusion_server_chid = Channel
      BY <1>3 DEF ServerReply, ServerInv, TypeOK, Channel, Error, Unset
    <2>6. ServerInv'
      BY <1>3, <2>1, <2>5, <1>0 DEF ServerReply, MsgReply, TypeOK, ServerInv
    <2> QED
      BY <2>2, <2>3, <2>4, <2>6
  <1>4. CASE ServerBreak
    <2>1. fusion_server_chid = Channel /\ serving = Nobody
      BY <1>4 DEF ServerBreak, ServerInv, BlockedIsHeld, TypeOK, Channel, Error, Unset
    <2>2. /\ pc'["server"] = "gone"
          /\ \A t \in Clients : pc'[t] = IF t \in sendq THEN "gone" ELSE pc[t]
          /\ \A t \in Clients : pc[t] = "blocked" <=> t \in sendq
      BY <1>4, <1>0, <2>1 DEF ServerBreak, TypeOK, BlockedIsHeld
    <2>3. TypeOK'
      BY <1>4 DEF ServerBreak, TypeOK
    <2>4. UnbornInv'
      <3>1. ASSUME NEW i \in done + 1 .. Len(Program) PROVE pc'[Program[i]] = "unborn"
        <4>1. pc[Program[i]] = "unborn" /\ Program[i] \in Clients \cup {"server"}
          BY <3>1 DEF UnbornInv, TypeOK
        <4> QED
          BY <1>4, <4>1, <2>2 DEF ServerBreak
      <3> QED
        BY <1>4, <3>1 DEF ServerBreak, UnbornInv
    <2>5. BlockedIsHeld'
      BY <1>4, <2>1, <2>2, <1>0 DEF ServerBreak, BlockedIsHeld
    <2>6. ServerInv'
      BY <1>4, <2>1, <2>2, <1>0 DEF ServerBreak, ServerInv, Channel, Error, Unset
    <2> QED
      BY <2>3, <2>4, <2>5, <2>6
  <1> QED
    BY <1>1, <1>2, <1>3, <1>4

\* A client that steps is not blocked, and blocks with its message queued.
LEMMA V2Client == ASSUME V2Inv, NEW c \in Clients, Client(c) PROVE V2Inv'
  <1> USE ProgramFacts DEF V2Inv
  <1>0. "server" \notin Clients /\ Nobody \notin Clients
    BY DEF Clients, Nobody
  <1>1. Online <=> pc["server"] \in {"loop", "reply"}
    BY OnlineMeans DEF TypeOK
  <1>2. Online => fusion_server_chid = Channel
    BY DEF Online, TypeOK
  <1>3. CASE Connect(c)
    <2>1. TypeOK' /\ UnbornInv'
      BY <1>3 DEF Connect, TypeOK, UnbornInv, Goto
    <2>2. BlockedIsHeld'
      BY <1>3, <1>0 DEF Connect, Online, TypeOK, BlockedIsHeld, Goto
    <2>3. ServerInv'
      BY <1>3, <1>0, <1>2 DEF Connect, TypeOK, ServerInv, Goto
    <2> QED
      BY <2>1, <2>2, <2>3
  <1>4. CASE Send(c)
    <2>1. TypeOK' /\ UnbornInv'
      BY <1>4 DEF Send, TypeOK, UnbornInv, Goto
    <2>2. c \notin sendq /\ serving # c
      BY <1>4 DEF Send, BlockedIsHeld, ServerInv
    <2>3. Online' = Online
      BY <1>4 DEF Send, Online
    <2>4. BlockedIsHeld'
      <3>1. CASE Online
        BY <1>4, <2>2, <2>3, <1>0, <1>1, <3>1 DEF Send, TypeOK, BlockedIsHeld, Goto
      <3>2. CASE ~Online
        <4>1. UNCHANGED <<sendq, serving>> /\ pc' = [pc EXCEPT ![c] = "gone"] /\ pc[c] # "blocked"
          BY <1>4, <3>2 DEF Send, Goto
        <4> QED
          BY <4>1, <2>2, <2>3, <3>2, <1>0 DEF TypeOK, BlockedIsHeld
      <3> QED
        BY <3>1, <3>2
    <2>5. ServerInv'
      BY <1>4, <2>2, <1>0, <1>1 DEF Send, TypeOK, ServerInv, Goto
    <2> QED
      BY <2>1, <2>4, <2>5
  <1>5. CASE Wake(c)
    <2>1. TypeOK' /\ UnbornInv'
      BY <1>5 DEF Wake, TypeOK, UnbornInv, Goto
    <2>2. BlockedIsHeld' /\ ServerInv'
      BY <1>5, <1>0 DEF Wake, TypeOK, BlockedIsHeld, ServerInv, Online, Goto
    <2> QED
      BY <2>1, <2>2
  <1> QED
    BY <1>3, <1>4, <1>5 DEF Client

\* The inductive invariant of the process.
THEOREM V2Inductive == Spec => []V2Inv
  <1>1. V2Inv /\ [Next]_vars => V2Inv'
    <2> SUFFICES ASSUME V2Inv, [Next]_vars PROVE V2Inv'
      OBVIOUS
    <2>1. CASE UNCHANGED vars
      BY <2>1 DEF vars, V2Inv, TypeOK, BlockedIsHeld, UnbornInv, ServerInv, Online
    <2> QED
      BY <2>1, V2Main, V2Server, V2Client DEF Next
  <1> QED
    BY <1>1, V2Start, PTL DEF Spec

\* Every client that waits is in the queue or in the hands of a server that
\* is there and has the channel, whatever the order in which the threads
\* started and wherever MsgReceive failed (adas_qnx_system.c:138, 176-209).
THEOREM HeldCorrect == Spec => []BlockedIsHeld
  <1>1. V2Inv => BlockedIsHeld
    BY DEF V2Inv
  <1> QED
    BY <1>1, V2Inductive, PTL

\* The safety half of EndsWithoutChannel: the process ends only when the
\* server has tried and has no channel (adas_qnx_system.c:167-170, 209, 291).
THEOREM EndNeedsError == Spec => [](exited => fusion_server_chid # Unset /\ ~Online)
  <1>1. V2Inv => (exited => fusion_server_chid # Unset /\ ~Online)
    BY OnlineMeans DEF V2Inv, TypeOK, ServerInv
  <1> QED
    BY <1>1, V2Inductive, PTL

-----------------------------------------------------------------------------
(* The safety half of ServedIfChannelFirst.                                *)

\* A client that is in time stays in time: while there is a channel no client
\* turns back, whatever the others do and however late main creates it.
Settled(c) == Online /\ pc[c] # "gone"

\* Clients that have a connection.
Connected(c) == pc[c] \in {"loop", "blocked", "sleep"}

\* What a step does to client c: main only wakes the unborn to life.
LEMMA ClientStep ==
    ASSUME V2Inv, Next, NEW c \in Clients
    PROVE  /\ Settled(c) => Settled(c)' \/ ServerBreak
           /\ Connected(c) /\ ~Connected(c)' => ~Online'
           /\ pc'[c] = "sleep" /\ pc[c] # "sleep" => pc[c] = "blocked" /\ serving = c
  <1> USE ProgramFacts DEF V2Inv, TypeOK, Goto, Settled, Connected, Online
  <1>0. "server" \notin Clients /\ pc[c] # "reply"
    BY DEF Clients, ServerInv
  <1>1. CASE MainStep
    <2> DEFINE t == Program[done + 1]
    <2>1. done + 1 \in 1 .. 5 /\ t \in Clients \cup {"server"} /\ pc[t] = "unborn"
      BY <1>1 DEF MainStep, UnbornInv
    <2> QED
      BY <1>1, <2>1 DEF MainStep
  <1>2. CASE MainExit
    BY <1>2 DEF MainExit
  <1>3. CASE ServerStart
    BY <1>0, <1>3 DEF ServerStart, ServerInv, Channel, Error, Unset
  <1>4. ASSUME NEW d \in Clients, ServerReceive(d)
        PROVE UNCHANGED <<pc[c], fusion_server_chid, channels>>
    BY <1>0, <1>4 DEF ServerReceive
  <1>5. ASSUME NEW d \in Clients, ServerReply(d)
        PROVE  /\ UNCHANGED <<fusion_server_chid, channels>>
               /\ c # d => pc'[c] = pc[c]
               /\ c = d => pc'[c] = "sleep" /\ pc[c] = "blocked" /\ serving = c
    <2>1. pc[d] = "blocked"
      BY <1>5 DEF ServerReply, BlockedIsHeld, ServerInv
    <2> QED
      BY <1>0, <1>5, <2>1 DEF ServerReply, MsgReply
  <1>6. ASSUME NEW d \in Clients, Client(d)
        PROVE  /\ UNCHANGED <<fusion_server_chid, channels>>
               /\ c # d => pc'[c] = pc[c]
               /\ Settled(c) => pc'[c] # "gone"
               /\ Connected(c) => Connected(c)' \/ ~Online
               /\ pc'[c] = "sleep" => pc[c] = "sleep"
    BY <1>0, <1>6 DEF Client, Connect, Send, Wake
  <1>7. CASE ServerBreak
    BY <1>0, <1>7 DEF ServerBreak
  <1> QED
    BY <1>1, <1>2, <1>3, <1>4, <1>5, <1>6, <1>7 DEF Next, Main

\* Once the channel is there, no client that has not left yet ever leaves,
\* unless MsgReceive of the server fails (adas_qnx_system.c:93-97, 138-141).
THEOREM InTimeForGood == Spec => [][\A c \in Clients : Settled(c) => Settled(c)' \/ ServerBreak]_vars
  <1>1. V2Inv /\ [Next]_vars => [\A c \in Clients : Settled(c) => Settled(c)' \/ ServerBreak]_vars
    BY ClientStep
  <1> QED
    BY <1>1, V2Inductive, PTL DEF Spec

\* A connection lasts as long as the channel, and a client goes on from
\* MsgSend only when the server replies to that client.
Answered ==
    \A c \in Clients :
        /\ Connected(c) /\ ~Connected(c)' => ~Online'
        /\ pc'[c] = "sleep" /\ pc[c] # "sleep" => pc[c] = "blocked" /\ serving = c

\* Replies go to the client that is being served and reach no other, and a
\* client only loses its connection with the channel
\* (adas_qnx_system.c:93-120, 138-141, 200).
THEOREM RepliesCorrect == Spec => [][Answered]_vars
  <1>1. V2Inv /\ [Next]_vars => [Answered]_vars
    BY ClientStep DEF Answered
  <1> QED
    BY <1>1, V2Inductive, PTL DEF Spec
=============================================================================
