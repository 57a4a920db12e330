---------------------------- MODULE SensorProofs ----------------------------
(***************************************************************************)
(* The dashboard socket of sensor_system.c, for every number of sensors    *)
(* and every size of the buffer.                                           *)
(***************************************************************************)
EXTENDS SensorSystem, FiniteSetTheorems, SequenceTheorems, TLAPS

\* The parts of the invariant that say something of a run without failures.
Good == FirstReport /\ AggregatorLate /\ OpenersInv /\ AddressInv

\* Sensors, aggregator and logger are threads, and apart.
LEMMA ThreadFacts ==
    /\ Sensors \subseteq Threads /\ Aggregator \in Threads /\ Logger \in Threads
    /\ Aggregator \notin Sensors /\ Logger \notin Sensors /\ Aggregator # Logger
    /\ \A t \in Threads : t \in Sensors \/ t = Aggregator \/ t = Logger
    /\ Free \notin Threads /\ Closed \notin Nat
  BY SystemAssumption DEF Sensors, Threads, Aggregator, Logger, Free, Closed

\* The openers can be counted, and are sensors.
LEMMA OpenersFinite ==
    /\ IsFiniteSet(Openers) /\ Cardinality(Openers) \in Nat
    /\ Cardinality(Openers) <= NUM_SENSORS
  <1>1. IsFiniteSet(Sensors) /\ Cardinality(Sensors) = NUM_SENSORS
    BY FS_Interval, SystemAssumption DEF Sensors
  <1>2. Openers \in SUBSET Sensors
    BY DEF Openers
  <1> QED
    BY <1>1, <1>2, FS_Subset, FS_CardinalityType

\* The initial state satisfies the invariant.
LEMMA InitInv == Init => IInv
  <1> SUFFICES ASSUME Init PROVE IInv
    OBVIOUS
  <1> USE SystemAssumption, ThreadFacts DEF Init
  <1>1. TypeOK
    <2>1. pc \in [Threads -> Pcs]
      BY DEF Pcs
    <2>2. buffer \in [Slots -> Sensors \cup {0}]
      OBVIOUS
    <2>3. lock \in Threads \cup {Free} /\ data \in Sensors \cup {0}
      OBVIOUS
    <2>4. count \in 0 .. BUFFER_SIZE /\ failed \in 0 .. MaxFailures /\ opened \in Nat
      OBVIOUS
    <2>5. dashboard_sock \in 0 .. opened \cup {Closed} /\ dashboard_sock # 0
      BY DEF Closed
    <2>6. dashboard_addr \in BOOLEAN
      OBVIOUS
    <2> QED
      BY <2>1, <2>2, <2>3, <2>4, <2>5, <2>6 DEF TypeOK
  <1>2. LockInv /\ RoomInv
    BY DEF LockInv, RoomInv
  <1>3. Good
    BY DEF Good, FirstReport, AggregatorLate, OpenersInv, AddressInv
  <1> QED
    BY <1>1, <1>2, <1>3 DEF IInv, Good

-----------------------------------------------------------------------------
(* Type correctness and the mutex.                                         *)

\* Every step keeps the types.
LEMMA TypeStep == ASSUME TypeOK, RoomInv, Next PROVE TypeOK'
  <1> USE SystemAssumption, ThreadFacts DEF TypeOK, Goto, stack, dash
  <1> PICK t \in Threads : Lock(t) \/ Step(t)
    BY DEF Next
  <1>1. CASE Lock(t)
    BY <1>1 DEF Lock, Pcs
  <1>2. CASE Wake(t) \/ Leave(t) \/ Unlock(t)
    BY <1>2 DEF Wake, Leave, Unlock, Pcs
  <1>3. CASE Dashboard(t)
    <2>1. pc' \in [Threads -> Pcs] /\ lock' = lock /\ UNCHANGED stack
      BY <1>3 DEF Dashboard, Report, Socket, Clear, Fill, Send, AfterClear,
                  AfterSend, Pcs
    <2>2. opened' \in Nat /\ failed' \in 0 .. MaxFailures /\ dashboard_addr' \in BOOLEAN
      <3>1. CASE Socket(t)
        BY <3>1 DEF Socket
      <3>2. CASE Report(t) \/ Clear(t) \/ Fill(t) \/ Send(t)
        BY <3>2 DEF Report, Clear, Fill, Send
      <3> QED
        BY <1>3, <3>1, <3>2 DEF Dashboard
    <2>3. dashboard_sock' \in 0 .. opened' \cup {Closed} /\ dashboard_sock' # 0
      BY <1>3 DEF Dashboard, Report, Socket, Clear, Fill, Send, Closed
    <2> QED
      BY <2>1, <2>2, <2>3
  <1>4. CASE t \in Sensors /\ (Fail(t) \/ Store(t))
    BY <1>4 DEF Fail, Store, Pcs, Slots
  <1>5. CASE t \in Sensors /\ Count(t)
    BY <1>5 DEF Count, RoomInv, Pcs
  <1>6. CASE Pop
    BY <1>6 DEF Pop, Empty, Top, Slots, Pcs
  <1> QED
    BY <1>1, <1>2, <1>3, <1>4, <1>5, <1>6 DEF Step

\* Every step keeps the mutex with whoever is inside.
LEMMA LockStep == ASSUME TypeOK, LockInv, RoomInv, Next PROVE LockInv' /\ RoomInv'
  <1> USE SystemAssumption, ThreadFacts
  <1> USE DEF TypeOK, LockInv, RoomInv, Goto, stack, dash
  <1> PICK t \in Threads : Lock(t) \/ Step(t)
    BY DEF Next
  <1>1. CASE Lock(t)
    BY <1>1 DEF Lock
  <1>2. CASE Wake(t) \/ Leave(t)
    BY <1>2 DEF Wake, Leave
  <1>3. CASE Unlock(t)
    BY <1>3 DEF Unlock
  <1>4. CASE Dashboard(t)
    <2>1. CASE Report(t) \/ Socket(t)
      BY <2>1 DEF Report, Socket
    <2>2. CASE Clear(t) \/ Fill(t) \/ Send(t)
      BY <2>2 DEF Clear, Fill, Send, AfterClear, AfterSend
    <2> QED
      BY <1>4, <2>1, <2>2 DEF Dashboard
  <1>5. CASE t \in Sensors /\ Fail(t)
    BY <1>5 DEF Fail
  <1>6. CASE t \in Sensors /\ Store(t)
    BY <1>6 DEF Store, Full
  <1>7. CASE t \in Sensors /\ Count(t)
    BY <1>7 DEF Count
  <1>8. CASE Pop
    BY <1>8 DEF Pop, Empty
  <1> QED
    BY <1>1, <1>2, <1>3, <1>4, <1>5, <1>6, <1>7, <1>8 DEF Step

-----------------------------------------------------------------------------
(* The socket, as long as socket() does not fail.                          *)

\* A failure is never forgotten, and opens nothing.
LEMMA FailedStep ==
    ASSUME TypeOK, Next, failed' = 0
    PROVE  /\ failed = 0
           /\ \/ UNCHANGED <<dashboard_sock, opened>>
              \/ \E t \in Threads : /\ Socket(t)
                                    /\ opened' = opened + 1
                                    /\ dashboard_sock' = opened + 1
  <1> USE DEF TypeOK, dash
  <1> PICK t \in Threads : Lock(t) \/ Step(t)
    BY DEF Next
  <1>1. CASE Socket(t)
    BY <1>1 DEF Socket
  <1>2. CASE ~Socket(t)
    <2>1. UNCHANGED <<dashboard_sock, opened, failed>>
      BY <1>2 DEF Step, Dashboard, Lock, Wake, Leave, Unlock, Fail, Store, Count,
                  Pop, Report, Clear, Fill, Send
    <2> QED
      BY <2>1
  <1> QED
    BY <1>1, <1>2

\* Once open, the socket stays open.
LEMMA StaysOpen ==
    ASSUME TypeOK, Next, failed' = 0, dashboard_sock # Closed
    PROVE  dashboard_sock' # Closed
  BY FailedStep DEF TypeOK, Closed

\* Opening it makes it open.
LEMMA SocketOpens ==
    ASSUME TypeOK, NEW t \in Threads, Socket(t), failed' = 0
    PROVE  opened' = opened + 1 /\ dashboard_sock' # Closed /\ dashboard_sock' = opened + 1
  BY DEF TypeOK, Socket, Closed

\* The first reading stays behind its report.
LEMMA FirstReportStep ==
    ASSUME IInv, Next, failed' = 0 PROVE FirstReport'
  <1>1. failed = 0 /\ TypeOK /\ LockInv /\ FirstReport
    BY FailedStep DEF IInv
  <1>2. CASE dashboard_sock # Closed
    BY <1>1, <1>2, StaysOpen DEF FirstReport
  <1>3. CASE dashboard_sock = Closed
    <2> USE ThreadFacts DEF Goto, stack, dash, TypeOK
    <2> PICK t \in Threads : Lock(t) \/ Step(t)
      BY DEF Next
    <2>1. CASE Socket(t)
      BY <1>1, <2>1, SocketOpens DEF FirstReport
    <2>2. CASE Count(t) /\ t \in Sensors
      BY <1>1, <2>2 DEF Count, LockInv, FirstReport
    <2>3. CASE Report(t)
      BY <1>1, <1>3, <2>3 DEF Report, NotOpen, FirstReport
    <2>4. CASE Pop
      <3>1. lock = Aggregator /\ count > 0
        BY <1>1, <2>4 DEF Pop, Empty, LockInv
      <3> QED
        BY <1>1, <1>3, <3>1 DEF FirstReport
    <2>5. CASE Lock(t)
      <3>1. count = 0 \/ lock # Free
        BY <1>1, <1>3 DEF FirstReport
      <3> QED
        BY <1>1, <2>5, <3>1 DEF Lock, FirstReport
    <2>6. CASE Unlock(t)
      <3>1. lock = t /\ pc[t] = "unlock"
        BY <1>1, <2>6 DEF Unlock, LockInv
      <3> QED
        BY <1>1, <1>3, <2>6, <3>1 DEF Unlock, FirstReport
    <2>7. CASE Wake(t) \/ Leave(t) \/ (t \in Sensors /\ (Fail(t) \/ Store(t)))
      BY <1>1, <1>3, <2>7 DEF Wake, Leave, Fail, Store, FirstReport
    <2>8. CASE Clear(t) \/ Fill(t) \/ Send(t)
      BY <1>1, <1>3, <2>8 DEF Clear, Fill, Send, FirstReport
    <2> QED
      BY <2>1, <2>2, <2>3, <2>4, <2>5, <2>6, <2>7, <2>8 DEF Step, Dashboard
  <1> QED
    BY <1>2, <1>3

\* The aggregator stays late.
LEMMA AggregatorStep ==
    ASSUME IInv, Next, failed' = 0 PROVE AggregatorLate'
  <1>1. failed = 0 /\ TypeOK /\ LockInv /\ FirstReport /\ AggregatorLate
    BY FailedStep DEF IInv
  <1> USE ThreadFacts DEF Goto, stack, dash, TypeOK
  <1> PICK t \in Threads : Lock(t) \/ Step(t)
    BY DEF Next
  <1>2. CASE Pop
    <2>1. lock = Aggregator /\ count > 0 /\ UNCHANGED dashboard_sock
      BY <1>1, <1>2 DEF Pop, Empty, LockInv
    <2>2. dashboard_sock # Closed
      BY <1>1, <2>1 DEF FirstReport
    <2> QED
      BY <1>2, <2>1, <2>2 DEF Pop, AggregatorLate
  <1>3. CASE Report(t)
    BY <1>1, <1>3 DEF Report, NotOpen, AggregatorLate
  <1>4. CASE Socket(t)
    BY <1>1, <1>4, SocketOpens DEF Socket, AggregatorLate
  <1>5. CASE Clear(t) \/ Fill(t) \/ Send(t)
    BY <1>1, <1>5 DEF Clear, Fill, Send, AfterClear, AfterSend, AggregatorLate
  <1>6. CASE Lock(t) \/ Wake(t) \/ Leave(t) \/ Unlock(t)
    BY <1>1, <1>6 DEF Lock, Wake, Leave, Unlock, AggregatorLate
  <1>7. CASE t \in Sensors /\ (Fail(t) \/ Store(t) \/ Count(t))
    BY <1>1, <1>7 DEF Fail, Store, Count, AggregatorLate
  <1> QED
    BY <1>2, <1>3, <1>4, <1>5, <1>6, <1>7 DEF Step, Dashboard

\* A sensor that opens a socket is one opener less.
LEMMA OpenersStep ==
    ASSUME IInv, Next, failed' = 0 PROVE OpenersInv'
  <1>1. failed = 0 /\ TypeOK /\ AggregatorLate /\ OpenersInv /\ LockInv
    BY FailedStep DEF IInv
  <1> USE SystemAssumption, ThreadFacts DEF Goto, stack, dash, TypeOK
  <1> PICK t \in Threads : Lock(t) \/ Step(t)
    BY DEF Next
  <1>2. CASE Socket(t)
    <2>1. t \in Sensors
      BY <1>1, <1>2 DEF Socket, AggregatorLate, LockInv
    <2>2. Openers' = Openers \ {t} /\ t \in Openers
      <3>1. pc[t] = "socket" /\ pc' = [pc EXCEPT ![t] = "clear"]
        BY <1>2 DEF Socket
      <3> QED
        BY <1>1, <2>1, <3>1 DEF Openers
    <2>3. Cardinality(Openers') = Cardinality(Openers) - 1
      BY <2>2, OpenersFinite, FS_RemoveElement
    <2>4. opened' = opened + 1 /\ dashboard_sock' # Closed
      BY <1>1, <1>2, SocketOpens
    <2>5. opened + Cardinality(Openers) <= NUM_SENSORS
      BY <1>1, OpenersFinite DEF OpenersInv
    <2>6. opened' + Cardinality(Openers') <= NUM_SENSORS
      <3>1. opened \in Nat /\ Cardinality(Openers) \in Nat
        BY <1>1, OpenersFinite
      <3> HIDE DEF TypeOK
      <3> QED
        BY <2>3, <2>4, <2>5, <3>1
    <2> QED
      BY <2>4, <2>6 DEF OpenersInv
  <1>3. CASE ~Socket(t)
    <2>1. UNCHANGED <<dashboard_sock, opened>>
      BY <1>3 DEF Step, Dashboard, Lock, Wake, Leave, Unlock, Fail, Store, Count,
                  Pop, Report, Clear, Fill, Send
    <2>2. CASE dashboard_sock = Closed
      BY <1>1, <2>1, <2>2 DEF OpenersInv
    <2>3. CASE dashboard_sock # Closed
      <3>1. \A s \in Sensors : pc'[s] = "socket" <=> pc[s] = "socket"
        <4>1. CASE Report(t) \/ Send(t)
          BY <1>1, <2>3, <4>1 DEF Report, NotOpen, Send, AfterSend
        <4>2. CASE Clear(t) \/ Fill(t)
          BY <1>1, <4>2 DEF Clear, AfterClear, Fill
        <4>3. CASE Lock(t) \/ Wake(t) \/ Leave(t) \/ Unlock(t) \/ Pop
          BY <1>1, <4>3 DEF Lock, Wake, Leave, Unlock, Pop
        <4>4. CASE t \in Sensors /\ (Fail(t) \/ Store(t) \/ Count(t))
          BY <1>1, <4>4 DEF Fail, Store, Count
        <4> QED
          BY <1>3, <4>1, <4>2, <4>3, <4>4 DEF Step, Dashboard
      <3>2. Openers' = Openers
        BY <3>1 DEF Openers
      <3> QED
        BY <1>1, <2>1, <2>3, <3>2 DEF OpenersInv
    <2> QED
      BY <2>2, <2>3
  <1> QED
    BY <1>2, <1>3

\* The address is good or somebody is at it.
LEMMA AddressStep ==
    ASSUME IInv, Next, failed' = 0 PROVE AddressInv'
  <1>1. failed = 0 /\ TypeOK /\ AddressInv
    BY FailedStep DEF IInv
  <1> USE ThreadFacts DEF Goto, stack, dash, TypeOK
  <1> PICK t \in Threads : Lock(t) \/ Step(t)
    BY DEF Next
  <1>2. CASE Socket(t)
    BY <1>1, <1>2, SocketOpens DEF Socket, AddressInv
  <1>3. CASE Clear(t)
    BY <1>1, <1>3 DEF Clear, AfterClear, AddressInv
  <1>4. CASE Fill(t)
    BY <1>1, <1>4 DEF Fill, AddressInv
  <1>5. CASE Send(t) \/ Report(t)
    BY <1>1, <1>5 DEF Send, Report, NotOpen, AfterSend, AddressInv
  <1>6. CASE Lock(t) \/ Wake(t) \/ Leave(t) \/ Unlock(t)
    BY <1>1, <1>6 DEF Lock, Wake, Leave, Unlock, AddressInv
  <1>7. CASE Pop \/ (t \in Sensors /\ (Fail(t) \/ Store(t) \/ Count(t)))
    BY <1>1, <1>7 DEF Fail, Store, Count, Pop, AddressInv
  <1> QED
    BY <1>2, <1>3, <1>4, <1>5, <1>6, <1>7 DEF Step, Dashboard

-----------------------------------------------------------------------------
(* The theorems.                                                           *)

\* The inductive invariant holds of every execution.
THEOREM Invariance == Spec => []IInv
  <1>1. IInv /\ Next => IInv'
    BY TypeStep, LockStep, FirstReportStep, AggregatorStep, OpenersStep, AddressStep
       DEF IInv
  <1>2. IInv /\ UNCHANGED vars => IInv'
    BY DEF vars, stack, dash, IInv, TypeOK, LockInv, RoomInv, FirstReport,
           AggregatorLate, OpenersInv, Openers, AddressInv
  <1> QED
    BY <1>1, <1>2, InitInv, PTL DEF Spec

\* However many sensors fail at once, each of them opens one socket at most
\* and the aggregator opens none.
THEOREM OneSocketEach == Spec => []SocketsBounded
  <1>1. IInv => SocketsBounded
    BY OpenersFinite, SystemAssumption DEF IInv, TypeOK, OpenersInv, SocketsBounded
  <1> QED
    BY <1>1, Invariance, PTL

\* A report is lost only to a race for the first socket, or to its failure.
THEOREM LossIsRace == Spec => []LossNeedsRace
  <1>1. IInv => LossNeedsRace
    BY DEF IInv, AddressInv, LossNeedsRace
  <1> QED
    BY <1>1, Invariance, PTL

\* Every variable keeps its type.
THEOREM TypeCorrect == Spec => []TypeOK
  <1>1. IInv => TypeOK
    BY DEF IInv
  <1> QED
    BY <1>1, Invariance, PTL

-----------------------------------------------------------------------------
(* The safety half of DashboardSettles, with failures of socket() too.     *)

\* The threads between the test of the socket and the filled address.
Busy == {t \in Threads : pc[t] \in {"socket", "clear", "fill"}}

\* Whatever calls of socket() did, the address is good or somebody is at it.
AddressEver ==
    opened + failed > 0 => dashboard_addr \/ \E t \in Threads : pc[t] \in {"clear", "fill"}

\* Nobody is left who would close the socket or clear the address.
Settled == dashboard_sock # Closed /\ Busy = {}

\* The socket is open, and calls of socket() have stopped failing.
Lasting == dashboard_sock # Closed /\ failed = MaxFailures

\* What is settled stays so; and once calls of socket() succeed and the socket
\* is open, nobody joins those who are still at it, so that they run out.
Settles ==
    /\ Settled => Settled'
    /\ Lasting => Lasting' /\ Busy' \subseteq Busy

\* The address is never cleared for good.
LEMMA AddressEverStep == ASSUME IInv, AddressEver, Next PROVE AddressEver'
  <1> USE DEF AddressEver, Goto, TypeOK, dash
  <1> PICK t \in Threads : Lock(t) \/ Step(t)
    BY DEF Next
  <1>0. TypeOK
    BY DEF IInv
  <1>1. CASE Socket(t)
    BY <1>0, <1>1 DEF Socket
  <1>2. CASE Clear(t)
    <2>1. pc'[t] = "fill"
      BY <1>0, <1>2 DEF Clear, AfterClear
    <2> QED
      BY <2>1
  <1>3. CASE Fill(t)
    BY <1>3 DEF Fill
  <1>4. CASE ~(Socket(t) \/ Clear(t) \/ Fill(t))
    <2>1. UNCHANGED <<dashboard_addr, opened, failed>>
      BY <1>4 DEF Step, Dashboard, Lock, Wake, Leave, Unlock, Fail, Store, Count,
                  Pop, Report, Send
    <2>2. \A u \in Threads : pc[u] \in {"clear", "fill"} => pc'[u] = pc[u]
      BY <1>0, <1>4, ThreadFacts
         DEF Step, Dashboard, Lock, Wake, Leave, Unlock, Fail, Store, Count, Pop, Report, Send
    <2> QED
      BY <2>1, <2>2
  <1> QED
    BY <1>1, <1>2, <1>3, <1>4

\* A step of the threads settles the socket further.
LEMMA SettlesStep == ASSUME IInv, Next PROVE Settles
  <1> USE DEF Settles, Settled, Lasting, Busy, Goto, TypeOK, dash
  <1> PICK t \in Threads : Lock(t) \/ Step(t)
    BY DEF Next
  <1>0. TypeOK
    BY DEF IInv
  <1>1. CASE Socket(t)
    <2>1. t \in Busy
      BY <1>1 DEF Socket
    <2>2. \A u \in Threads : pc'[u] \in {"socket", "clear", "fill"} => u \in Busy
      BY <1>0, <1>1, <2>1 DEF Socket
    <2>3. failed = MaxFailures => dashboard_sock' # Closed /\ failed' = failed
      BY <1>0, <1>1, SystemAssumption DEF Socket, Closed
    <2> QED
      BY <2>1, <2>2, <2>3
  <1>2. CASE ~Socket(t)
    <2>1. UNCHANGED <<dashboard_sock, failed>>
      BY <1>2 DEF Step, Dashboard, Lock, Wake, Leave, Unlock, Fail, Store, Count,
                  Pop, Report, Clear, Fill, Send
    <2>2. dashboard_sock # Closed => Busy' \subseteq Busy
      BY <1>0, <1>2, ThreadFacts
         DEF Step, Dashboard, Lock, Wake, Leave, Unlock, Fail, Store, Count,
             Pop, Report, Clear, AfterClear, Fill, Send, AfterSend, NotOpen
    <2> QED
      BY <2>1, <2>2
  <1> QED
    BY <1>1, <1>2

\* However the threads race for the socket and whatever calls of socket()
\* fail, a socket that nobody is at any more is open with a good address for
\* ever, and those who are at an open one only become fewer
\* (sensor_system.c:14-24).
THEOREM SettledForEver == Spec => [](Settled => dashboard_addr) /\ [][Settles]_vars
  <1>1. Init => AddressEver
    BY DEF Init, AddressEver
  <1>2. IInv /\ AddressEver /\ [Next]_vars => AddressEver'
    <2>1. IInv /\ AddressEver /\ UNCHANGED vars => AddressEver'
      BY DEF AddressEver, vars, dash
    <2> QED
      BY <2>1, AddressEverStep
  <1>3. IInv /\ AddressEver => (Settled => dashboard_addr)
    <2> SUFFICES ASSUME IInv, AddressEver, Settled PROVE dashboard_addr
      OBVIOUS
    <2>1. opened + failed > 0
      BY DEF IInv, TypeOK, Settled, Closed
    <2>2. ~ \E t \in Threads : pc[t] \in {"clear", "fill"}
      BY DEF Settled, Busy
    <2> QED
      BY <2>1, <2>2 DEF AddressEver
  <1>4. IInv /\ [Next]_vars => [Settles]_vars
    BY SettlesStep
  <1> QED
    BY <1>1, <1>2, <1>3, <1>4, Invariance, PTL DEF Spec

\* The mutex is never held by a thread that sleeps or waits for it, although
\* reports are sent under it: the safety half of ReadingsPopped.
THEOREM HolderAwake == Spec => [](\A t \in Threads : lock = t => pc[t] \notin {"sleep", "lock"})
  <1>1. IInv => \A t \in Threads : lock = t => pc[t] \notin {"sleep", "lock"}
    BY DEF IInv, LockInv
  <1> QED
    BY <1>1, Invariance, PTL

-----------------------------------------------------------------------------
(* The buffer is a bounded stack.                                          *)

Values == Sensors \cup {0}

\* What the buffer holds, as a sequence.
LEMMA ContentsSeq ==
    ASSUME IInv
    PROVE  /\ Size \in 0 .. BUFFER_SIZE
           /\ Contents \in Seq(Values) /\ Len(Contents) = Size
           /\ \A i \in 1 .. Size : Contents[i] = buffer[i - 1]
  <1>1. count \in 0 .. BUFFER_SIZE /\ BUFFER_SIZE \in Nat
    BY SystemAssumption DEF IInv, TypeOK
  <1>2. Size \in 0 .. BUFFER_SIZE
    BY <1>1 DEF Size, IInv, RoomInv
  <1>3. \A i \in 1 .. Size : i - 1 \in Slots
    BY <1>1, <1>2 DEF Slots
  <1>4. Contents \in [1 .. Size -> Values]
    BY <1>3 DEF Contents, Values, IInv, TypeOK
  <1>5. Contents \in Seq(Values)
    BY <1>1, <1>2, <1>4, SeqDef
  <1>6. Len(Contents) \in Nat /\ 1 .. Len(Contents) = 1 .. Size
    BY <1>4, <1>5, LenProperties
  <1>7. Len(Contents) = Size
    BY <1>1, <1>2, <1>6
  <1> QED
    BY <1>2, <1>5, <1>7 DEF Contents

\* The same of the next state.
LEMMA ContentsSeqNext ==
    ASSUME IInv'
    PROVE  /\ Size' \in 0 .. BUFFER_SIZE
           /\ Contents' \in Seq(Values) /\ Len(Contents') = Size'
           /\ \A i \in 1 .. Size' : Contents'[i] = buffer'[i - 1]
  <1>1. count' \in 0 .. BUFFER_SIZE /\ BUFFER_SIZE \in Nat
    BY SystemAssumption DEF IInv, TypeOK
  <1>2. Size' \in 0 .. BUFFER_SIZE
    <2>1. \A s \in Sensors : pc'[s] = "stored" => count' < BUFFER_SIZE
      BY DEF IInv, RoomInv, Sensors
    <2>2. Size' = IF \E s \in Sensors : pc'[s] = "stored" THEN count' + 1 ELSE count'
      BY DEF Size, Sensors
    <2>3. (Size' = count' + 1 /\ count' < BUFFER_SIZE) \/ Size' = count'
      BY <2>1, <2>2
    <2>4. CASE Size' = count' + 1 /\ count' < BUFFER_SIZE
      <3>1. \A n \in 0 .. BUFFER_SIZE : n < BUFFER_SIZE => n + 1 \in 0 .. BUFFER_SIZE
        BY SystemAssumption
      <3> QED
        BY <1>1, <2>4, <3>1, Zenon
    <2>5. CASE Size' = count'
      BY <1>1, <2>5
    <2> QED
      BY <2>3, <2>4, <2>5
  <1>3. \A i \in 1 .. Size' : i - 1 \in Slots
    BY <1>1, <1>2 DEF Slots
  <1>4. Contents' \in [1 .. Size' -> Values]
    BY <1>3 DEF Contents, Values, IInv, TypeOK
  <1>5. Contents' \in Seq(Values)
    BY <1>1, <1>2, <1>4, SeqDef
  <1>6. Len(Contents') \in Nat /\ 1 .. Len(Contents') = 1 .. Size'
    BY <1>4, <1>5, LenProperties
  <1>7. Len(Contents') = Size'
    BY <1>1, <1>2, <1>6
  <1> QED
    BY <1>2, <1>5, <1>7 DEF Contents

\* The empty buffer is the empty stack.
LEMMA StackInit == Init => BS!Init
  <1> SUFFICES ASSUME Init PROVE BS!Init
    OBVIOUS
  <1>1. Size = 0
    BY ThreadFacts DEF Init, Size
  <1>2. Contents = << >>
    BY <1>1, InitInv, ContentsSeq, EmptySeq
  <1>3. data \notin Sensors
    BY DEF Init, Sensors
  <1> QED
    BY <1>2, <1>3 DEF BS!Init

\* A reading whose slot is written is on the stack.
LEMMA StackPush ==
    ASSUME IInv, IInv', NEW s \in Sensors, Store(s) PROVE BS!Push(s)
  <1>1. count \in 0 .. BUFFER_SIZE - 1 /\ count + 1 \in Nat
    BY SystemAssumption DEF IInv, TypeOK, Store, Full
  <1>2. Size = count
    BY ThreadFacts DEF Size, Store, IInv, LockInv
  <1>3. Size' = count + 1
    <2>1. pc'[s] = "stored" /\ count' = count
      BY ThreadFacts DEF Store, Goto, IInv, TypeOK
    <2> QED
      BY <2>1 DEF Size
  <1>4. Contents \in Seq(Values) /\ Len(Contents) = count
            /\ \A i \in 1 .. count : Contents[i] = buffer[i - 1]
    BY <1>2, ContentsSeq
  <1>5. Contents' \in Seq(Values) /\ Len(Contents') = count + 1
            /\ \A i \in 1 .. count + 1 : Contents'[i] = buffer'[i - 1]
    BY <1>3, ContentsSeqNext
  <1> DEFINE app == Append(Contents, s)
  <1>6. app \in Seq(Values) /\ Len(app) = count + 1
            /\ (\A i \in 1 .. count : app[i] = Contents[i]) /\ app[count + 1] = s
    BY <1>4, AppendProperties DEF Values
  <1>7. \A i \in 1 .. count + 1 : Contents'[i] = app[i]
    <2>1. \A j \in 0 .. count - 1 : buffer'[j] = buffer[j]
      BY <1>1 DEF Store, IInv, TypeOK, Slots
    <2>2. buffer'[count] = s
      BY <1>1 DEF Store, IInv, TypeOK, Slots
    <2>3. \A i \in 1 .. count : Contents'[i] = app[i]
      <3> SUFFICES ASSUME NEW i \in 1 .. count PROVE Contents'[i] = app[i]
        OBVIOUS
      <3>1. i \in 1 .. count + 1 /\ i - 1 \in 0 .. count - 1
        BY <1>1
      <3> QED
        BY <1>4, <1>5, <1>6, <2>1, <3>1
    <2>4. Contents'[count + 1] = app[count + 1]
      <3>1. count + 1 \in 1 .. count + 1 /\ (count + 1) - 1 = count
        BY <1>1
      <3> QED
        BY <1>5, <1>6, <2>2, <3>1
    <2>5. \A i \in 1 .. count + 1 : i \in 1 .. count \/ i = count + 1
      BY <1>1
    <2> HIDE DEF app
    <2> QED
      BY <2>3, <2>4, <2>5
  <1>8. Contents' = app
    BY <1>5, <1>6, <1>7, SeqEqual
  <1>9. data' = data /\ Len(Contents) < BUFFER_SIZE
    BY <1>1, <1>4, SystemAssumption DEF Store
  <1> QED
    BY <1>8, <1>9 DEF BS!Push

\* The aggregator pops the top of the stack.
LEMMA StackPop == ASSUME IInv, IInv', Pop PROVE BS!Pop
  <1>1. count \in 1 .. BUFFER_SIZE /\ count - 1 \in Nat
    BY SystemAssumption DEF IInv, TypeOK, Pop, Empty
  <1>2. \A s \in Sensors : pc[s] # "stored" /\ pc'[s] = pc[s]
    BY ThreadFacts DEF Pop, Goto, IInv, TypeOK, LockInv
  <1>3. Size = count /\ Size' = count - 1
    BY <1>2 DEF Size, Pop
  <1>4. Contents \in Seq(Values) /\ Len(Contents) = count
            /\ \A i \in 1 .. count : Contents[i] = buffer[i - 1]
    BY <1>3, ContentsSeq
  <1>5. Contents' \in Seq(Values) /\ Len(Contents') = count - 1
            /\ \A i \in 1 .. count - 1 : Contents'[i] = buffer[i - 1]
    BY <1>3, ContentsSeqNext DEF Pop
  <1> DEFINE sub == SubSeq(Contents, 1, Len(Contents) - 1)
  <1>6. sub \in Seq(Values) /\ Len(sub) = count - 1
            /\ \A i \in 1 .. count - 1 : sub[i] = Contents[i]
    BY <1>1, <1>4, SubSeqProperties
  <1>7. \A i \in 1 .. count - 1 : Contents'[i] = sub[i]
    <2>1. \A i \in 1 .. count - 1 : i \in 1 .. count
      BY <1>1
    <2> HIDE DEF sub
    <2> QED
      BY <1>4, <1>5, <1>6, <2>1
  <1>8. Contents' = sub
    BY <1>5, <1>6, <1>7, SeqEqual
  <1>9. data' = Contents[Len(Contents)]
    <2>1. count \in 1 .. count
      BY <1>1
    <2> QED
      BY <1>4, <2>1 DEF Pop, Top
  <1>10. Contents # << >>
    BY <1>1, <1>4, EmptySeq
  <1> QED
    BY <1>8, <1>9, <1>10 DEF BS!Pop

\* Counting a stored reading, and everything else, is invisible.
LEMMA StackStutter ==
    ASSUME IInv, NEW t \in Threads, Lock(t) \/ Step(t), ~Pop,
           ~ \E s \in Sensors : Store(s)
    PROVE  UNCHANGED <<Contents, data>>
  <1>1. UNCHANGED <<buffer, data>>
    BY ThreadFacts DEF Lock, Step, Wake, Leave, Unlock, Dashboard, Report, Socket, Clear, Fill,
           Send, Fail, Count, stack
  <1>2. Size' = Size
    <2>1. CASE t \in Sensors /\ Count(t)
      <3>1. pc[t] = "stored" /\ count' = count + 1
        BY <2>1 DEF Count
      <3>2. \A s \in Sensors : pc'[s] # "stored"
        BY <2>1, ThreadFacts DEF Count, Goto, IInv, TypeOK, LockInv
      <3> QED
        BY <2>1, <3>1, <3>2 DEF Size
    <2>2. CASE ~(t \in Sensors /\ Count(t))
      <3>1. count' = count
        BY <2>2, ThreadFacts DEF Lock, Step, Wake, Leave, Unlock, Dashboard, Report, Socket,
               Clear, Fill, Send, Fail, stack
      <3>2. \A s \in Sensors : pc'[s] = "stored" <=> pc[s] = "stored"
        BY <2>2, ThreadFacts
           DEF Lock, Step, Wake, Leave, Unlock, Dashboard, Report, Socket, Clear, Fill, Send,
               Fail, Goto, AfterClear, AfterSend, IInv, TypeOK
      <3> QED
        BY <3>1, <3>2 DEF Size
    <2> QED
      BY <2>1, <2>2
  <1> QED
    BY <1>1, <1>2 DEF Contents

\* The buffer is a bounded stack for every number of sensors and every size:
\* nothing that is inside is overwritten, and nothing comes out twice.
THEOREM BufferIsStack == Spec => ImplementsStack
  <1>1. IInv /\ IInv' /\ [Next]_vars => [BS!Next]_<<Contents, data>>
    <2> SUFFICES ASSUME IInv, IInv', [Next]_vars
                 PROVE  [BS!Next]_<<Contents, data>>
      OBVIOUS
    <2>1. CASE UNCHANGED vars
      BY <2>1 DEF vars, stack, Contents, Size
    <2>2. ASSUME NEW s \in Sensors, Store(s) PROVE BS!Next
      BY <2>2, StackPush DEF BS!Next
    <2>3. CASE Pop
      BY <2>3, StackPop DEF BS!Next
    <2> QED
      BY <2>1, <2>2, <2>3, StackStutter DEF Next
  <1> QED
    BY <1>1, StackInit, Invariance, PTL DEF Spec, ImplementsStack, BS!Spec
=============================================================================
