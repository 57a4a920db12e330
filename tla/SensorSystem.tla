---------------------------- MODULE SensorSystem ----------------------------
(***************************************************************************)
(* sensor_system.c: sensors push readings on a small stack, an aggregator  *)
(* pops them and a logger looks at the count, all under one mutex.  Both   *)
(* sensors and aggregator report to the dashboard by UDP through a socket  *)
(* that is opened by whoever finds it closed; a sensor that fails reports  *)
(* without the mutex.                                                      *)
(*                                                                         *)
(* A reading is told apart by the sensor it comes from.                    *)
(***************************************************************************)
EXTENDS Integers, FiniteSets

CONSTANTS
    NUM_SENSORS,            \* 3
    BUFFER_SIZE,            \* 5
    MaxFailures             \* bound: calls of socket() that fail

ASSUME SystemAssumption ==
    /\ NUM_SENSORS \in Nat \ {0}
    /\ BUFFER_SIZE \in Nat \ {0}
    /\ MaxFailures \in Nat

Sensors    == 1 .. NUM_SENSORS
Aggregator == 0
Logger     == NUM_SENSORS + 1
Threads    == 0 .. NUM_SENSORS + 1
Free       == -1
Slots      == 0 .. BUFFER_SIZE - 1
Closed     == -1

VARIABLES
    pc,                     \* where each thread stands
    lock,                   \* the holder of the mutex, or Free
    buffer, count,
    data,                   \* what the aggregator popped last, 0 at first
    dashboard_sock,         \* Closed, or the number of the socket in use
    dashboard_addr,         \* has the address been filled in?
    opened, failed          \* calls of socket() that succeeded and failed

stack == <<buffer, count, data>>
dash  == <<dashboard_sock, dashboard_addr, opened, failed>>
vars  == <<pc, lock, stack, dash>>

\* sleep: in sleep(), or a sensor that draws its reading.  lock: on the way
\* to the mutex.  in: has it.  stored: the slot is written, count is not.
\* The rest of a push or pop: unlock.  In send_dashboard_data: report (about
\* to test the socket), socket, clear, fill (the parts of
\* init_dashboard_udp), send.
Pcs == {"sleep", "lock", "in", "stored", "unlock",
        "report", "socket", "clear", "fill", "send"}

TypeOK ==
    /\ pc \in [Threads -> Pcs]
    /\ lock \in Threads \cup {Free}
    /\ buffer \in [Slots -> Sensors \cup {0}]
    /\ count \in 0 .. BUFFER_SIZE
    /\ data \in Sensors \cup {0}
    /\ dashboard_sock \in 0 .. opened \cup {Closed} /\ dashboard_sock # 0
    /\ dashboard_addr \in BOOLEAN
    /\ opened \in Nat /\ failed \in 0 .. MaxFailures

\* Globals before the threads are created; the sensors start with a reading,
\* the others at the mutex.
Init ==
    /\ pc = [t \in Threads |-> IF t \in Sensors THEN "sleep" ELSE "lock"]
    /\ lock = Free
    /\ buffer = [i \in Slots |-> 0]
    /\ count = 0 /\ data = 0
    /\ dashboard_sock = Closed /\ dashboard_addr = FALSE
    /\ opened = 0 /\ failed = 0

Goto(t, p) == pc' = [pc EXCEPT ![t] = p]

\* Slips that the properties notice, one mutation each.
Bottom           == 0
AddressEmpty     == ~dashboard_addr
NothingFilled    == "send"
LockKept(t)      == "sleep"

-----------------------------------------------------------------------------
(* The mutex, and sensor, aggregator and logger around it.                 *)

Wake(t) ==
    /\ pc[t] = "sleep"
    /\ Goto(t, "lock")
    /\ UNCHANGED <<lock, stack, dash>>

Lock(t) ==
    /\ pc[t] = "lock"
    /\ lock = Free
    /\ lock' = t
    /\ Goto(t, "in")
    /\ UNCHANGED <<stack, dash>>

Unlock(t) ==
    /\ pc[t] = "unlock"
    /\ lock' = Free
    /\ Goto(t, "sleep")
    /\ UNCHANGED <<stack, dash>>

\* The injected fault: report it without the mutex, sleep, try again.
Fail(s) ==
    /\ pc[s] = "sleep"
    /\ Goto(s, "report")
    /\ UNCHANGED <<lock, stack, dash>>

Full  == count = BUFFER_SIZE
Empty == count = 0
Top   == count - 1

\* buffer[count] = data, and count++.
Store(s) ==
    /\ pc[s] = "in" /\ ~Full
    /\ buffer' = [buffer EXCEPT ![count] = s]
    /\ Goto(s, "stored")
    /\ UNCHANGED <<lock, count, data, dash>>

Count(s) ==
    /\ pc[s] = "stored"
    /\ count' = count + 1
    /\ Goto(s, "report")
    /\ UNCHANGED <<lock, buffer, data, dash>>

\* data = buffer[--count].
Pop ==
    /\ pc[Aggregator] = "in" /\ ~Empty
    /\ data' = buffer[Top]
    /\ count' = count - 1
    /\ Goto(Aggregator, "report")
    /\ UNCHANGED <<lock, buffer, dash>>

\* A reading that finds the buffer full is dropped without a word, an empty
\* buffer is left alone, and the logger only looks.
Leave(t) ==
    /\ pc[t] = "in"
    /\ t \in Sensors => Full
    /\ t = Aggregator => Empty
    /\ Goto(t, "unlock")
    /\ UNCHANGED <<lock, stack, dash>>

-----------------------------------------------------------------------------
(* send_dashboard_data.                                                    *)

NotOpen == dashboard_sock = Closed

\* if (dashboard_sock == -1) init_dashboard_udp();
Report(t) ==
    /\ pc[t] = "report"
    /\ Goto(t, IF NotOpen THEN "socket" ELSE "send")
    /\ UNCHANGED <<lock, stack, dash>>

\* dashboard_sock = socket(...), whatever it returns.
Socket(t) ==
    /\ pc[t] = "socket"
    /\ \/ /\ opened' = opened + 1
          /\ dashboard_sock' = opened + 1
          /\ UNCHANGED failed
       \/ /\ failed < MaxFailures
          /\ failed' = failed + 1
          /\ dashboard_sock' = Closed
          /\ UNCHANGED opened
    /\ Goto(t, "clear")
    /\ UNCHANGED <<lock, stack, dashboard_addr>>

AfterClear == "fill"

\* memset of the address, then its fields.
Clear(t) ==
    /\ pc[t] = "clear"
    /\ dashboard_addr' = FALSE
    /\ Goto(t, AfterClear)
    /\ UNCHANGED <<lock, stack, dashboard_sock, opened, failed>>

Fill(t) ==
    /\ pc[t] = "fill"
    /\ dashboard_addr' = TRUE
    /\ Goto(t, "send")
    /\ UNCHANGED <<lock, stack, dashboard_sock, opened, failed>>

\* Whoever has the mutex gives it back, a sensor that failed just sleeps.
AfterSend(t) == IF lock = t THEN "unlock" ELSE "sleep"

\* sendto; its result is not looked at.
Send(t) ==
    /\ pc[t] = "send"
    /\ Goto(t, AfterSend(t))
    /\ UNCHANGED <<lock, stack, dash>>

-----------------------------------------------------------------------------
Dashboard(t) == Report(t) \/ Socket(t) \/ Clear(t) \/ Fill(t) \/ Send(t)

Step(t) ==
    \/ Wake(t) \/ Leave(t) \/ Unlock(t) \/ Dashboard(t)
    \/ t \in Sensors /\ (Fail(t) \/ Store(t) \/ Count(t))
    \/ t = Aggregator /\ Pop

Next == \E t \in Threads : Lock(t) \/ Step(t)

\* Threads run.  Everybody sleeps a second or more after each use of the
\* mutex, so nobody asks for it in vain for ever.
Fairness == \A t \in Threads : WF_vars(Step(t)) /\ SF_vars(Lock(t))

Spec == Init /\ [][Next]_vars /\ Fairness

-----------------------------------------------------------------------------
(* Properties.                                                             *)

\* What the buffer holds, between the slot and the count of a push too.
Size     == IF \E s \in Sensors : pc[s] = "stored" THEN count + 1 ELSE count
Contents == [i \in 1 .. Size |-> buffer[i - 1]]

\* The buffer and the aggregator are a bounded stack: no reading is
\* overwritten or popped twice, whoever else is reporting or failing
\* (sensor_system.c:53-63, 71-81).
BS == INSTANCE BoundedStack WITH
        Readings <- Sensors,
        Capacity <- BUFFER_SIZE,
        stack    <- Contents,
        taken    <- data

ImplementsStack == BS!Spec

\* The socket is tested and opened without a lock, so several may be opened
\* and all but one leak (sensor_system.c:23).  But each sensor opens one at
\* most, and the aggregator none: what it pops was pushed by somebody whose
\* own report, under the same mutex, came first.
SocketsBounded == failed = 0 => opened <= NUM_SENSORS

\* A report finds a closed socket only after socket() failed, and an address
\* that is not filled in only while somebody else is filling it in.
LossNeedsRace ==
    \A t \in Threads : pc[t] = "send" /\ failed = 0 =>
        /\ dashboard_sock # Closed
        /\ dashboard_addr \/ \E u \in Threads : pc[u] \in {"clear", "fill"}

\* However the threads race for it and whatever calls of socket() fail, from
\* some point on the socket and its address are good and stay so.
DashboardSettles == <>[](dashboard_sock # Closed /\ dashboard_addr)

\* The aggregator goes on popping as long as there are readings, although it
\* polls, and although reports are sent by the holder of the mutex.
ReadingsPopped == count > 0 ~> pc[Aggregator] = "report"

-----------------------------------------------------------------------------
(* The inductive invariant behind SocketsBounded and LossNeedsRace.        *)

\* Who has the mutex, as far as it can be told from where a thread stands.
LockInv ==
    /\ \A t \in Threads : pc[t] \in {"in", "stored", "unlock"} => lock = t
    /\ \A t \in Threads : lock = t => pc[t] \notin {"sleep", "lock"}
    /\ pc[Logger] \in {"sleep", "lock", "in", "unlock"}

\* A reading that is stored has room to be counted.
RoomInv == \A s \in Sensors : pc[s] = "stored" => count < BUFFER_SIZE

\* The first reading is inside only with its own report sent or under way.
FirstReport ==
    count > 0 => \/ dashboard_sock # Closed
                 \/ \E s \in Sensors : lock = s /\ pc[s] \in {"report", "socket"}

\* So the aggregator always finds the socket open.
AggregatorLate ==
    /\ pc[Aggregator] = "report" => dashboard_sock # Closed
    /\ pc[Aggregator] # "socket"

\* Sensors about to open a socket: no new ones once it is open.
Openers == {s \in Sensors : pc[s] = "socket"}

OpenersInv == IF dashboard_sock = Closed
              THEN opened = 0
              ELSE opened + Cardinality(Openers) <= NUM_SENSORS

\* Past the test the socket is open; and while it is, the address is good or
\* somebody is at it.
AddressInv ==
    /\ \A t \in Threads : pc[t] \in {"clear", "fill", "send"} => dashboard_sock # Closed
    /\ dashboard_sock # Closed =>
          dashboard_addr \/ \E u \in Threads : pc[u] \in {"clear", "fill"}

IInv ==
    /\ TypeOK
    /\ LockInv
    /\ RoomInv
    /\ failed = 0 => FirstReport /\ AggregatorLate /\ OpenersInv /\ AddressInv
=============================================================================
