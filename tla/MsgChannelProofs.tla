-------------------------- MODULE MsgChannelProofs --------------------------
(***************************************************************************)
(* Safety of the v1 channel for every number of senders and every size of  *)
(* the queue.                                                              *)
(***************************************************************************)
EXTENDS MsgChannel, BenchmarkLatency, Sequences, FiniteSetTheorems, SequenceTheorems, TLAPS

-----------------------------------------------------------------------------
(* Indices of the ring.                                                    *)

\* An index inside the ring stays.
LEMMA ModSmall == ASSUME NEW n \in Nat \ {0}, NEW x \in 0 .. n - 1 PROVE x % n = x
  OBVIOUS

\* An index one turn too far is taken back by a turn.
LEMMA ModWrap == ASSUME NEW n \in Nat \ {0}, NEW x \in n .. 2 * n - 1 PROVE x % n = x - n
  OBVIOUS

\* Every index falls into the ring.
LEMMA ModT == ASSUME NEW n \in Nat \ {0}, NEW x \in Nat PROVE x % n \in 0 .. n - 1
  OBVIOUS

\* Advance stays in the ring.
LEMMA AdvanceType == ASSUME NEW i \in Slots PROVE Advance(i) \in Slots
  <1>1. i \in Nat /\ i + 1 \in Nat
    BY ChannelAssumption DEF Slots
  <1> QED
    BY <1>1, ModT, ChannelAssumption DEF Advance, Slots

-----------------------------------------------------------------------------
(* Type correctness.                                                       *)

\* The initial state satisfies the invariant.
LEMMA InitInv == Init => IInv
  <1> SUFFICES ASSUME Init PROVE IInv
    OBVIOUS
  <1> USE ChannelAssumption DEF Init
  <1>1. TypeOK
    BY DEF TypeOK, Pcs, Slots, Threads, Sensors, Free
  <1>2. MutualExclusion
    BY DEF MutualExclusion, Inside, Threads, Free
  <1>3. \A t \in Threads : pc[t] = "out"
    OBVIOUS
  <1>4. Sensors \subseteq Threads /\ Aggregator \in Threads
    BY DEF Sensors, Threads, Aggregator
  <1>5. UpdateInv /\ Waiting = {} /\ WakeInv
    BY <1>3, <1>4 DEF UpdateInv, Waiting, WakeInv
  <1>6. Size = 0
    BY <1>3, <1>4 DEF Size
  <1>7. 0 % MSG_QUEUE_SIZE = 0
    BY ModSmall
  <1>8. RingInv
    BY <1>6, <1>7 DEF RingInv
  <1> QED
    BY <1>1, <1>2, <1>5, <1>8 DEF IInv

\* The senders and the receiver are threads, and apart.
LEMMA ThreadFacts ==
    /\ Sensors \subseteq Threads /\ Aggregator \in Threads
    /\ Aggregator \notin Sensors
    /\ \A t \in Threads : t = Aggregator \/ t \in Sensors
    /\ Free \notin Threads
  BY ChannelAssumption DEF Sensors, Threads, Aggregator, Free

\* Every step keeps the types.
LEMMA TypeStep == ASSUME TypeOK, UpdateInv, Next PROVE TypeOK'
  <1> USE ChannelAssumption, ThreadFacts DEF TypeOK, Goto, ring
  <1>1. ASSUME NEW t \in Threads, Lock(t) PROVE TypeOK'
    BY <1>1 DEF Lock, Pcs
  <1>2. ASSUME NEW t \in Threads, Unlock(t) PROVE TypeOK'
    BY <1>2 DEF Unlock, Pcs
  <1>3. ASSUME NEW t \in Threads, Wait(t) PROVE TypeOK'
    BY <1>3 DEF Wait, Pcs
  <1>4. ASSUME NEW t \in Threads, SpuriousWakeup(t) PROVE TypeOK'
    BY <1>4 DEF SpuriousWakeup, Pcs
  <1>5. ASSUME NEW s \in Sensors, Enqueue(s) PROVE TypeOK'
    BY <1>5, AdvanceType DEF Enqueue, Pcs
  <1>6. ASSUME NEW s \in Sensors, Enqueued(s) PROVE TypeOK'
    <2>1. count < MSG_QUEUE_SIZE
      BY <1>6 DEF UpdateInv, Enqueued
    <2>2. count' \in 0 .. MSG_QUEUE_SIZE
      BY <1>6, <2>1 DEF Enqueued
    <2>3. pc' \in [Threads -> Pcs]
      BY <1>6 DEF Enqueued, WakeReceiver, Pcs
    <2> QED
      BY <1>6, <2>2, <2>3 DEF Enqueued
  <1>7. CASE Dequeue
    <2>1. queue[head] \in Sensors \cup {0}
      OBVIOUS
    <2>2. msg' \in Sensors \cup {0} /\ head' \in Slots
      BY <1>7, <2>1, AdvanceType DEF Dequeue
    <2>3. pc' \in [Threads -> Pcs]
      BY <1>7 DEF Dequeue, Pcs
    <2> QED
      BY <1>7, <2>2, <2>3 DEF Dequeue
  <1>8. CASE Dequeued
    <2>1. count' \in 0 .. MSG_QUEUE_SIZE
      BY <1>8 DEF UpdateInv, Dequeued
    <2>2. pc' \in [Threads -> Pcs]
      BY <1>8 DEF Dequeued, WakeSender, Waiting, Pcs
    <2> QED
      BY <1>8, <2>1, <2>2 DEF Dequeued
  <1> QED
    BY <1>1, <1>2, <1>3, <1>4, <1>5, <1>6, <1>7, <1>8 DEF Next

-----------------------------------------------------------------------------
(* Mutual exclusion, and who may be where.                                 *)

\* Every step keeps the mutex with the one thread that is inside.
LEMMA MutexStep == ASSUME TypeOK, MutualExclusion, Next PROVE MutualExclusion'
  <1> USE ThreadFacts DEF TypeOK, MutualExclusion, Inside, Goto, ring
  <1>1. ASSUME NEW t \in Threads, Lock(t) PROVE MutualExclusion'
    BY <1>1 DEF Lock
  <1>2. ASSUME NEW t \in Threads, Unlock(t) PROVE MutualExclusion'
    BY <1>2 DEF Unlock
  <1>3. ASSUME NEW t \in Threads, Wait(t) PROVE MutualExclusion'
    BY <1>3 DEF Wait
  <1>4. ASSUME NEW t \in Threads, SpuriousWakeup(t) PROVE MutualExclusion'
    BY <1>4 DEF SpuriousWakeup
  <1>5. ASSUME NEW s \in Sensors, Enqueue(s) PROVE MutualExclusion'
    BY <1>5 DEF Enqueue
  <1>6. ASSUME NEW s \in Sensors, Enqueued(s) PROVE MutualExclusion'
    BY <1>6 DEF Enqueued, WakeReceiver
  <1>7. CASE Dequeue
    BY <1>7 DEF Dequeue
  <1>8. CASE Dequeued
    BY <1>8 DEF Dequeued, WakeSender, Waiting
  <1> QED
    BY <1>1, <1>2, <1>3, <1>4, <1>5, <1>6, <1>7, <1>8 DEF Next

\* Only one thread is inside.
LEMMA OneInside ==
    ASSUME MutualExclusion, NEW t \in Threads, Inside(t)
    PROVE  mutex = t /\ \A u \in Threads \ {t} : ~Inside(u)
  BY DEF MutualExclusion

\* Every step keeps the count able to move the way it is about to.
LEMMA UpdateStep ==
    ASSUME TypeOK, MutualExclusion, UpdateInv, Next PROVE UpdateInv'
  <1> USE ChannelAssumption, ThreadFacts DEF TypeOK, UpdateInv, Goto, ring
  <1>1. ASSUME NEW t \in Threads, Lock(t) PROVE UpdateInv'
    BY <1>1 DEF Lock
  <1>2. ASSUME NEW t \in Threads, Unlock(t) PROVE UpdateInv'
    BY <1>2 DEF Unlock
  <1>3. ASSUME NEW t \in Threads, Wait(t) PROVE UpdateInv'
    BY <1>3 DEF Wait
  <1>4. ASSUME NEW t \in Threads, SpuriousWakeup(t) PROVE UpdateInv'
    BY <1>4 DEF SpuriousWakeup
  <1>5. ASSUME NEW s \in Sensors, Enqueue(s) PROVE UpdateInv'
    BY <1>5 DEF Enqueue, Full
  <1>6. ASSUME NEW s \in Sensors, Enqueued(s) PROVE UpdateInv'
    <2>1. \A u \in Threads \ {s} : pc[u] # "update"
      BY <1>6, OneInside DEF Enqueued, Inside
    <2> QED
      BY <1>6, <2>1 DEF Enqueued, WakeReceiver
  <1>7. CASE Dequeue
    BY <1>7 DEF Dequeue, Empty
  <1>8. CASE Dequeued
    <2>1. \A s \in Sensors : pc[s] # "update"
      BY <1>8, OneInside DEF Dequeued, Inside
    <2> QED
      BY <1>8, <2>1 DEF Dequeued, WakeSender, Waiting
  <1> QED
    BY <1>1, <1>2, <1>3, <1>4, <1>5, <1>6, <1>7, <1>8 DEF Next

-----------------------------------------------------------------------------
(* No wakeup is lost.                                                      *)

\* The woken senders can be counted.
LEMMA WokenFinite ==
    IsFiniteSet(Woken) /\ IsFiniteSet(Woken') /\ Cardinality(Woken) \in Nat
        /\ Cardinality(Woken') \in Nat
  <1>1. IsFiniteSet(Sensors)
    BY FS_Interval, ChannelAssumption DEF Sensors
  <1>2. Woken \in SUBSET Sensors /\ Woken' \in SUBSET Sensors
    BY DEF Woken
  <1> QED
    BY <1>1, <1>2, FS_Subset, FS_CardinalityType

\* Every step keeps the free slots provided for.
LEMMA WakeStep ==
    ASSUME TypeOK, MutualExclusion, UpdateInv, WakeInv, Next PROVE WakeInv'
  <1> USE ChannelAssumption, ThreadFacts, WokenFinite
  <1> USE DEF TypeOK, Goto, ring, WakeInv, Waiting
  <1>1. ASSUME NEW t \in Threads, Lock(t) PROVE WakeInv'
    <2>1. ~Entering
      BY <1>1 DEF Lock, MutualExclusion, Inside, Entering
    <2>2. CASE t \in Sensors
      <3>1. Entering'
        BY <1>1, <2>2 DEF Lock, Entering
      <3>2. Woken' = Woken \ {t}
        BY <1>1, <2>2 DEF Lock, Woken
      <3>3. Cardinality(Woken') >= Cardinality(Woken) - 1
        BY <3>2, FS_RemoveElement
      <3> QED
        BY <1>1, <2>1, <3>1, <3>3 DEF Lock
    <2>3. CASE t = Aggregator
      <3>1. Woken' = Woken /\ Waiting' = Waiting
        BY <1>1, <2>3 DEF Lock, Woken
      <3> QED
        BY <1>1, <2>1, <2>3, <3>1 DEF Lock
    <2> QED
      BY <2>2, <2>3
  <1>2. ASSUME NEW t \in Threads, Unlock(t) PROVE WakeInv'
    <2>1. Woken' = Woken
      BY <1>2 DEF Unlock, Woken
    <2>2. Entering' = Entering
      BY <1>2 DEF Unlock, Entering
    <2> QED
      BY <1>2, <2>1, <2>2 DEF Unlock
  <1>3. ASSUME NEW t \in Threads, Wait(t) PROVE WakeInv'
    <2>1. Woken' = Woken
      BY <1>3 DEF Wait, Woken
    <2>2. CASE t = Aggregator
      <3>1. Entering' = Entering
        BY <1>3, <2>2 DEF Wait, Entering
      <3> QED
        BY <1>3, <2>1, <2>2, <3>1 DEF Wait, Empty
    <2>3. CASE t \in Sensors
      BY <1>3, <2>1, <2>3 DEF Wait, Full
    <2> QED
      BY <2>2, <2>3
  <1>4. ASSUME NEW t \in Threads, SpuriousWakeup(t) PROVE WakeInv'
    <2>1. Woken' = IF t \in Sensors THEN Woken \cup {t} ELSE Woken
      BY <1>4 DEF SpuriousWakeup, Woken
    <2>2. Cardinality(Woken') >= Cardinality(Woken)
      BY <2>1, FS_AddElement
    <2>3. Entering' = Entering
      BY <1>4 DEF SpuriousWakeup, Entering
    <2> QED
      BY <1>4, <2>2, <2>3 DEF SpuriousWakeup
  <1>5. ASSUME NEW s \in Sensors, Enqueue(s) PROVE WakeInv'
    <2>1. Woken' = Woken
      BY <1>5 DEF Enqueue, Woken
    <2>2. Entering /\ Entering'
      BY <1>5 DEF Enqueue, Entering
    <2> QED
      BY <1>5, <2>1, <2>2 DEF Enqueue
  <1>6. ASSUME NEW s \in Sensors, Enqueued(s) PROVE WakeInv'
    <2>1. Woken' = Woken
      BY <1>6 DEF Enqueued, WakeReceiver, Woken
    <2>2. Waiting' = Waiting /\ pc'[Aggregator] # "wait"
      BY <1>6 DEF Enqueued, WakeReceiver
    <2>3. Entering
      BY <1>6 DEF Enqueued, Entering
    <2> QED
      BY <1>6, <2>1, <2>2, <2>3 DEF Enqueued
  <1>7. CASE Dequeue
    <2>1. Woken' = Woken
      BY <1>7 DEF Dequeue, Woken
    <2>2. Entering' = Entering
      BY <1>7 DEF Dequeue, Entering
    <2> QED
      BY <1>7, <2>1, <2>2 DEF Dequeue
  <1>8. CASE Dequeued
    <2>1. CASE Waiting = {}
      BY <1>8, <2>1 DEF Dequeued
    <2>2. ASSUME NEW s \in Waiting, WakeSender(s) PROVE WakeInv'
      <3>1. Woken' = Woken \cup {s} /\ s \notin Woken
        BY <1>8, <2>2 DEF Dequeued, WakeSender, Woken
      <3>2. Cardinality(Woken') = Cardinality(Woken) + 1
        BY <3>1, FS_AddElement
      <3>3. Entering' = Entering
        BY <1>8, <2>2 DEF Dequeued, WakeSender, Entering
      <3> QED
        BY <1>8, <2>2, <3>2, <3>3 DEF Dequeued, WakeSender
    <2> QED
      BY <1>8, <2>1, <2>2 DEF Dequeued
  <1> QED
    BY <1>1, <1>2, <1>3, <1>4, <1>5, <1>6, <1>7, <1>8 DEF Next

-----------------------------------------------------------------------------
(* The ring.                                                               *)

\* The slot after the i-th one, whichever turn it is in.
LEMMA ModNext ==
    ASSUME NEW n \in Nat \ {0}, NEW h \in 0 .. n - 1, NEW i \in 0 .. n - 1
    PROVE  (((h + 1) % n) + i) % n = (h + 1 + i) % n
  <1>1. CASE h + 1 < n
    <2>1. (h + 1) % n = h + 1
      BY <1>1, ModSmall
    <2> QED
      BY <2>1
  <1>2. CASE h + 1 = n
    <2>1. (h + 1) % n = 0
      BY <1>2, ModWrap
    <2>2. i % n = i
      BY ModSmall
    <2>3. h + 1 + i \in n .. 2 * n - 1 /\ h + 1 + i - n = i
      BY <1>2
    <2>4. (h + 1 + i) % n = i
      BY <2>3, ModWrap
    <2> QED
      BY <2>1, <2>2, <2>4
  <1> QED
    BY <1>1, <1>2

\* The sum of two slots.
LEMMA ModSum ==
    ASSUME NEW n \in Nat \ {0}, NEW h \in 0 .. n - 1, NEW a \in 0 .. n - 1
    PROVE  (h + a) % n = IF h + a < n THEN h + a ELSE h + a - n
  <1>1. CASE h + a < n
    BY <1>1, ModSmall
  <1>2. CASE h + a >= n
    <2>1. h + a \in n .. 2 * n - 1
      BY <1>2
    <2> QED
      BY <2>1, ModWrap
  <1> QED
    BY <1>1, <1>2

\* Two slots less than a turn apart are different.
LEMMA ModApart ==
    ASSUME NEW n \in Nat \ {0}, NEW h \in 0 .. n - 1,
           NEW a \in 0 .. n - 1, NEW b \in 0 .. n - 1, a # b
    PROVE  (h + a) % n # (h + b) % n
  <1>1. (h + a) % n = IF h + a < n THEN h + a ELSE h + a - n
    BY ModSum
  <1>2. (h + b) % n = IF h + b < n THEN h + b ELSE h + b - n
    BY ModSum
  <1> QED
    BY <1>1, <1>2

\* The slot after the slot after x.
LEMMA ModPlus ==
    ASSUME NEW n \in Nat \ {0}, NEW h \in 0 .. n - 1, NEW c \in 0 .. n - 1
    PROVE  (((h + c) % n) + 1) % n = (h + (c + 1)) % n
  <1>1. CASE h + c < n
    BY <1>1, ModSmall
  <1>2. CASE h + c >= n
    <2>1. (h + c) % n = h + c - n /\ h + c - n + 1 \in 0 .. n - 1
      BY <1>2, ModWrap
    <2>2. (h + (c + 1)) % n = h + (c + 1) - n
      <3>1. h + (c + 1) \in n .. 2 * n - 1
        BY <1>2
      <3> QED
        BY <3>1, ModWrap
    <2>3. (h + c - n + 1) % n = h + c - n + 1
      BY <2>1, ModSmall
    <2> QED
      BY <2>1, <2>2, <2>3
  <1> QED
    BY <1>1, <1>2

\* The channel holds no more than its slots.
LEMMA SizeType ==
    ASSUME TypeOK, MutualExclusion, UpdateInv PROVE Size \in 0 .. MSG_QUEUE_SIZE
  BY ChannelAssumption DEF Size, UpdateInv, TypeOK

\* The steps that touch neither the slots nor the indices.
Silent ==
    \/ \E t \in Threads : Lock(t) \/ Unlock(t) \/ Wait(t) \/ SpuriousWakeup(t)
    \/ \E s \in Sensors : Enqueued(s)
    \/ Dequeued

\* Such a step leaves what the channel holds as it is.
LEMMA SilentStep ==
    ASSUME TypeOK, MutualExclusion, UpdateInv, Silent
    PROVE  UNCHANGED <<queue, head, tail, msg>> /\ Size' = Size
  <1> USE ThreadFacts DEF TypeOK, Goto, ring, Size
  <1>1. ASSUME NEW t \in Threads, Lock(t) \/ Unlock(t) \/ Wait(t) \/ SpuriousWakeup(t)
        PROVE  UNCHANGED <<queue, head, tail, msg>> /\ Size' = Size
    <2>1. UNCHANGED <<queue, head, tail, count, msg>>
      BY <1>1 DEF Lock, Unlock, Wait, SpuriousWakeup
    <2>2. \A u \in Threads : pc'[u] = "update" <=> pc[u] = "update"
      BY <1>1 DEF Lock, Unlock, Wait, SpuriousWakeup
    <2> QED
      BY <2>1, <2>2
  <1>2. ASSUME NEW s \in Sensors, Enqueued(s)
        PROVE  UNCHANGED <<queue, head, tail, msg>> /\ Size' = Size
    <2>1. \A u \in Threads \ {s} : pc[u] # "update"
      BY <1>2, OneInside DEF Enqueued, Inside
    <2>2. \A u \in Threads : pc'[u] # "update"
      BY <1>2, <2>1 DEF Enqueued, WakeReceiver
    <2> QED
      BY <1>2, <2>1, <2>2 DEF Enqueued
  <1>3. ASSUME Dequeued PROVE UNCHANGED <<queue, head, tail, msg>> /\ Size' = Size
    <2>1. \A u \in Threads \ {Aggregator} : pc[u] # "update"
      BY <1>3, OneInside DEF Dequeued, Inside
    <2>2. \A u \in Threads : pc'[u] # "update"
      BY <1>3, <2>1 DEF Dequeued, WakeSender, Waiting
    <2>3. pc[Aggregator] = "update" /\ count' = count - 1
      BY <1>3 DEF Dequeued
    <2> QED
      BY <1>3, <2>1, <2>2, <2>3 DEF Dequeued
  <1> QED
    BY <1>1, <1>2, <1>3 DEF Silent

\* Enqueue puts its message behind the others.
LEMMA EnqueueStep ==
    ASSUME TypeOK, MutualExclusion, UpdateInv, RingInv, NEW s \in Sensors, Enqueue(s)
    PROVE  /\ Size < MSG_QUEUE_SIZE /\ Size' = Size + 1
           /\ tail' = (head' + Size') % MSG_QUEUE_SIZE
           /\ \A i \in 1 .. Size : At(i)' = At(i)
           /\ \A i \in Nat : i = Size + 1 => At(i)' = s
  <1> USE ChannelAssumption, ThreadFacts DEF Goto
  <1>1. \A u \in Threads : pc[u] # "update"
    BY OneInside DEF Enqueue, Inside
  <1>2. pc'[s] = "update"
    BY DEF Enqueue, TypeOK
  <1>3. Size = count /\ Size' = count + 1
    BY <1>1, <1>2 DEF Size, Enqueue
  <1>4. Size \in 0 .. MSG_QUEUE_SIZE - 1 /\ Size' = Size + 1
    BY <1>3 DEF Enqueue, Full, TypeOK
  <1>5. head \in 0 .. MSG_QUEUE_SIZE - 1 /\ head' = head
    BY DEF TypeOK, Slots, Enqueue
  <1>6. tail = (head + Size) % MSG_QUEUE_SIZE
    BY DEF RingInv
  <1>7. tail' = (head + (Size + 1)) % MSG_QUEUE_SIZE
    BY <1>4, <1>5, <1>6, ModPlus DEF Enqueue, Advance
  <1>8. ASSUME NEW i \in 1 .. Size PROVE At(i)' = At(i)
    <2>1. i - 1 \in 0 .. MSG_QUEUE_SIZE - 1 /\ i - 1 # Size
      BY <1>4
    <2>2. (head + (i - 1)) % MSG_QUEUE_SIZE # tail
      BY <1>4, <1>5, <1>6, <2>1, ModApart
    <2>3. head + i - 1 = head + (i - 1)
      BY <1>5
    <2>4. (head + i - 1) % MSG_QUEUE_SIZE \in Slots
      BY <1>4, <1>5, ModT DEF Slots
    <2> QED
      BY <1>5, <2>2, <2>3, <2>4 DEF At, Enqueue, TypeOK
  <1>9. ASSUME NEW i \in Nat, i = Size + 1 PROVE At(i)' = s
    <2>1. head + i - 1 = head + Size
      BY <1>4, <1>5, <1>9
    <2>2. At(i)' = queue'[tail]
      BY <1>5, <1>6, <2>1 DEF At
    <2> QED
      BY <2>2 DEF Enqueue, TypeOK
  <1> QED
    BY <1>4, <1>5, <1>7, <1>8, <1>9

\* Dequeue takes the oldest message.
LEMMA DequeueStep ==
    ASSUME TypeOK, MutualExclusion, UpdateInv, RingInv, Dequeue
    PROVE  /\ Size \in 1 .. MSG_QUEUE_SIZE /\ Size' = Size - 1
           /\ msg' = At(1)
           /\ tail' = (head' + Size') % MSG_QUEUE_SIZE
           /\ \A i \in 1 .. Size' : At(i)' = At(i + 1)
  <1> USE ChannelAssumption, ThreadFacts DEF Goto
  <1>1. \A u \in Threads : pc[u] # "update"
    BY OneInside DEF Dequeue, Inside
  <1>2. pc'[Aggregator] = "update" /\ \A s \in Sensors : pc'[s] # "update"
    BY <1>1 DEF Dequeue, TypeOK
  <1>3. Size = count /\ Size' = count - 1
    BY <1>1, <1>2 DEF Size, Dequeue
  <1>4. Size \in 1 .. MSG_QUEUE_SIZE /\ Size' = Size - 1
    BY <1>3 DEF Dequeue, Empty, TypeOK
  <1>5. head \in 0 .. MSG_QUEUE_SIZE - 1 /\ head' = (head + 1) % MSG_QUEUE_SIZE
    BY DEF TypeOK, Slots, Dequeue, Advance
  <1>6. msg' = At(1)
    <2>1. (head + 1 - 1) % MSG_QUEUE_SIZE = head
      BY <1>5, ModSmall
    <2> QED
      BY <2>1 DEF At, Dequeue
  <1>7. tail' = (head' + Size') % MSG_QUEUE_SIZE
    <2>1. Size - 1 \in 0 .. MSG_QUEUE_SIZE - 1
      BY <1>4
    <2>2. head + 1 + (Size - 1) = head + Size
      BY <1>4, <1>5
    <2>3. (head' + (Size - 1)) % MSG_QUEUE_SIZE = (head + Size) % MSG_QUEUE_SIZE
      BY <1>5, <2>1, <2>2, ModNext
    <2> QED
      BY <1>4, <2>3 DEF Dequeue, RingInv
  <1>8. ASSUME NEW i \in 1 .. Size' PROVE At(i)' = At(i + 1)
    <2>1. i - 1 \in 0 .. MSG_QUEUE_SIZE - 1
      BY <1>4
    <2>2. (((head + 1) % MSG_QUEUE_SIZE) + (i - 1)) % MSG_QUEUE_SIZE
              = (head + 1 + (i - 1)) % MSG_QUEUE_SIZE
      BY <1>5, <2>1, ModNext
    <2>3. head' + i - 1 = head' + (i - 1) /\ head + (i + 1) - 1 = head + 1 + (i - 1)
      BY <1>4, <1>5, ModT
    <2> QED
      BY <1>5, <2>2, <2>3 DEF At, Dequeue
  <1> QED
    BY <1>4, <1>6, <1>7, <1>8

\* Every step keeps the ring.
LEMMA RingStep ==
    ASSUME TypeOK, MutualExclusion, UpdateInv, RingInv, Next PROVE RingInv'
  <1> USE ChannelAssumption
  <1>1. CASE Silent
    BY <1>1, SilentStep DEF RingInv, At
  <1>2. ASSUME NEW s \in Sensors, Enqueue(s) PROVE RingInv'
    <2>1. \A i \in 1 .. Size' : At(i)' \in Sensors
      <3>1. Size \in Nat /\ Size' = Size + 1
        BY <1>2, EnqueueStep, SizeType
      <3>2. \A i \in 1 .. Size' : i \in Nat /\ (i \in 1 .. Size \/ i = Size + 1)
        BY <3>1
      <3>3. \A i \in 1 .. Size : At(i)' \in Sensors
        BY <1>2, EnqueueStep DEF RingInv
      <3>4. \A i \in Nat : i = Size + 1 => At(i)' \in Sensors
        BY <1>2, EnqueueStep
      <3> QED
        BY <3>2, <3>3, <3>4
    <2> QED
      BY <1>2, <2>1, EnqueueStep DEF RingInv
  <1>3. CASE Dequeue
    <2>1. \A i \in 1 .. Size' : i + 1 \in 1 .. Size
      BY <1>3, DequeueStep
    <2> QED
      BY <1>3, <2>1, DequeueStep DEF RingInv
  <1> QED
    BY <1>1, <1>2, <1>3 DEF Next, Silent

-----------------------------------------------------------------------------
(* The theorems.                                                           *)

\* A step that changes nothing keeps everything.
LEMMA Stutter == ASSUME IInv, UNCHANGED vars PROVE IInv' /\ UNCHANGED <<Contents, msg>>
  BY DEF vars, ring, IInv, TypeOK, MutualExclusion, Inside, UpdateInv, WakeInv,
         Waiting, Woken, Entering, RingInv, Size, At, Contents

\* A step of a thread keeps the invariant.
LEMMA StepInv == ASSUME IInv, Next PROVE IInv'
  BY TypeStep, MutexStep, UpdateStep, WakeStep, RingStep DEF IInv

\* The inductive invariant of the channel holds of every execution.
THEOREM Invariance == Spec => []IInv
  <1>1. IInv /\ [Next]_vars => IInv'
    BY StepInv, Stutter
  <1> QED
    BY <1>1, InitInv, PTL DEF Spec

\* The ring is only touched under the mutex, however many threads there are.
THEOREM ChannelExclusion == Spec => []MutualExclusion
  <1>1. IInv => MutualExclusion
    BY DEF IInv
  <1> QED
    BY <1>1, Invariance, PTL

\* No wakeup is lost, although a signal wakes one thread and names none.
THEOREM NoWakeupLost == Spec => []NoLostWakeup
  <1>1. IInv => NoLostWakeup
    <2> SUFFICES ASSUME IInv PROVE NoLostWakeup
      OBVIOUS
    <2>1. mutex = Free => ~Entering
      BY ThreadFacts DEF IInv, MutualExclusion, Inside, Entering
    <2>2. count \in Nat /\ Cardinality(Woken) \in Nat
      BY WokenFinite DEF IInv, TypeOK
    <2> QED
      BY <2>1, <2>2, ChannelAssumption DEF IInv, WakeInv, NoLostWakeup
  <1> QED
    BY <1>1, Invariance, PTL

\* While senders sleep there is somebody on the way who will wake one and who
\* is not a sender outside, as that one may stay there for ever.
SleepersHaveHelp ==
    IF mutex = Free
    THEN Waiting # {} => pc[Aggregator] \in {"out", "woken"} \/ Woken # {}
    ELSE Inside(mutex)

\* The receiver and the senders never sleep all at once, for every number of
\* senders and every size of the queue, and whoever has the mutex is awake
\* (sensor_heavy.c:47-53, 60-66): the safety half of SleepersWoken.
THEOREM NeverAllAsleep == Spec => []SleepersHaveHelp
  <1>1. IInv => SleepersHaveHelp
    <2> SUFFICES ASSUME IInv PROVE SleepersHaveHelp
      OBVIOUS
    <2> USE ThreadFacts, ChannelAssumption DEF IInv, TypeOK
    <2>1. CASE mutex # Free
      BY <2>1 DEF MutualExclusion, SleepersHaveHelp
    <2>2. CASE mutex = Free
      <3>1. \A t \in Threads : pc[t] \in {"out", "wait", "woken"} /\ ~Inside(t)
        BY <2>2 DEF MutualExclusion, Inside, Pcs, Free, Threads
      <3>2. ~Entering
        BY <3>1 DEF Entering, Inside
      <3>3. ASSUME Waiting # {}, pc[Aggregator] = "wait", Woken = {} PROVE FALSE
        <4>1. count = 0
          BY <3>3 DEF WakeInv
        <4>2. Cardinality(Woken) = 0
          BY <3>3, FS_EmptySet
        <4> QED
          BY <3>2, <3>3, <4>1, <4>2 DEF WakeInv
      <3> QED
        BY <2>2, <3>1, <3>3 DEF SleepersHaveHelp
    <2> QED
      BY <2>1, <2>2
  <1> QED
    BY <1>1, Invariance, PTL

-----------------------------------------------------------------------------
(* The channel implements a bounded FIFO.                                  *)

\* A function on 1 .. n is a sequence of length n.
LEMMA SeqOf ==
    ASSUME NEW S, NEW n \in Nat, NEW f \in [1 .. n -> S]
    PROVE  f \in Seq(S) /\ Len(f) = n
  <1>1. f \in Seq(S)
    BY SeqDef
  <1>2. Len(f) \in Nat /\ 1 .. Len(f) = 1 .. n
    BY <1>1, LenProperties
  <1> QED
    BY <1>1, <1>2

\* What the channel holds, as a sequence of messages.
LEMMA ContentsSeq ==
    ASSUME IInv
    PROVE  /\ Contents \in Seq(Sensors) /\ Len(Contents) = Size
           /\ Size \in 0 .. MSG_QUEUE_SIZE
           /\ \A i \in 1 .. Size : Contents[i] = At(i)
  <1>1. Size \in 0 .. MSG_QUEUE_SIZE /\ Size \in Nat
    BY SizeType, ChannelAssumption DEF IInv
  <1>2. Contents \in [1 .. Size -> Sensors]
    BY DEF IInv, RingInv, Contents
  <1> QED
    BY <1>1, <1>2, SeqOf DEF Contents

\* The same of the next state.
LEMMA ContentsSeqNext ==
    ASSUME IInv', Size' \in Nat
    PROVE  /\ Contents' \in Seq(Sensors) /\ Len(Contents') = Size'
           /\ \A i \in 1 .. Size' : Contents'[i] = At(i)'
  <1>1. Contents' \in [1 .. Size' -> Sensors]
    BY DEF IInv, RingInv, Contents, Sensors
  <1> QED
    BY <1>1, SeqOf DEF Contents

\* The empty ring is the empty sequence.
LEMMA FifoInit == Init => BF!Init
  <1> SUFFICES ASSUME Init PROVE BF!Init
    OBVIOUS
  <1>1. IInv
    BY InitInv
  <1>2. Size = 0
    BY ThreadFacts DEF Init, Size
  <1>3. Contents = << >>
    BY <1>1, <1>2, ContentsSeq, EmptySeq
  <1>4. msg \notin Sensors
    BY DEF Init, Sensors
  <1> QED
    BY <1>3, <1>4 DEF BF!Init

\* Storing a message puts it into the FIFO.
LEMMA FifoPut ==
    ASSUME IInv, IInv', NEW s \in Sensors, Enqueue(s) PROVE BF!Put(s)
  <1>1. /\ Size \in Nat /\ Size < MSG_QUEUE_SIZE /\ Size' = Size + 1
        /\ \A i \in 1 .. Size : At(i)' = At(i)
        /\ \A i \in Nat : i = Size + 1 => At(i)' = s
    BY EnqueueStep, SizeType, ChannelAssumption DEF IInv
  <1>2. Contents \in Seq(Sensors) /\ Len(Contents) = Size
            /\ \A i \in 1 .. Size : Contents[i] = At(i)
    BY ContentsSeq
  <1>3. Contents' \in Seq(Sensors) /\ Len(Contents') = Size + 1
            /\ \A i \in 1 .. Size + 1 : Contents'[i] = At(i)'
    BY <1>1, ContentsSeqNext
  <1> DEFINE app == Append(Contents, s)
  <1>4. app \in Seq(Sensors) /\ Len(app) = Size + 1
            /\ (\A i \in 1 .. Size : app[i] = Contents[i]) /\ app[Size + 1] = s
    BY <1>2, AppendProperties
  <1>5. \A i \in 1 .. Size + 1 : Contents'[i] = app[i]
    <2>1. \A i \in 1 .. Size : Contents'[i] = app[i]
      BY <1>1, <1>2, <1>3, <1>4
    <2>2. Contents'[Size + 1] = app[Size + 1]
      BY <1>1, <1>3, <1>4
    <2>3. \A i \in 1 .. Size + 1 : i \in 1 .. Size \/ i = Size + 1
      BY <1>1
    <2> HIDE DEF app
    <2> QED
      BY <2>1, <2>2, <2>3
  <1>6. Contents' = app
    BY <1>3, <1>4, <1>5, SeqEqual
  <1>7. msg' = msg
    BY DEF Enqueue
  <1> QED
    BY <1>1, <1>2, <1>6, <1>7 DEF BF!Put

\* Taking a message takes the oldest one from the FIFO.
LEMMA FifoTake == ASSUME IInv, IInv', Dequeue PROVE BF!Take
  <1>1. /\ Size \in Nat \ {0} /\ Size' = Size - 1 /\ Size' \in Nat
        /\ msg' = At(1)
        /\ \A i \in 1 .. Size' : At(i)' = At(i + 1)
    BY DequeueStep, ChannelAssumption DEF IInv
  <1>2. Contents \in Seq(Sensors) /\ Len(Contents) = Size
            /\ \A i \in 1 .. Size : Contents[i] = At(i)
    BY ContentsSeq
  <1>3. Contents' \in Seq(Sensors) /\ Len(Contents') = Size'
            /\ \A i \in 1 .. Size' : Contents'[i] = At(i)'
    BY <1>1, ContentsSeqNext
  <1>4. Contents # << >>
    BY <1>1, <1>2, EmptySeq
  <1>5. Tail(Contents) \in Seq(Sensors) /\ Len(Tail(Contents)) = Size'
            /\ \A i \in 1 .. Size' : Tail(Contents)[i] = Contents[i + 1]
    BY <1>1, <1>2, <1>4, HeadTailProperties
  <1>6. \A i \in 1 .. Size' : Contents'[i] = Tail(Contents)[i]
    <2>1. \A i \in 1 .. Size' : i + 1 \in 1 .. Size
      BY <1>1
    <2> QED
      BY <1>1, <1>2, <1>3, <1>5, <2>1
  <1>7. Contents' = Tail(Contents)
    BY <1>3, <1>5, <1>6, SeqEqual
  <1>8. Head(Contents) = Contents[1]
    BY <1>2, <1>4
  <1>9. msg' = Head(Contents)
    BY <1>1, <1>2, <1>8
  <1> QED
    BY <1>4, <1>7, <1>9 DEF BF!Take

\* Locks, waits, signals and counts are invisible.
LEMMA FifoStutter ==
    ASSUME IInv, Silent PROVE UNCHANGED <<Contents, msg>>
  <1>1. UNCHANGED <<queue, head, tail, msg>> /\ Size' = Size
    BY SilentStep DEF IInv
  <1> QED
    BY <1>1 DEF Contents, At

\* The channel is a bounded FIFO for every number of senders and every size:
\* nothing is lost, overwritten, reordered or received twice.
THEOREM ChannelIsFifo == Spec => ImplementsFifo
  <1>1. IInv /\ IInv' /\ [Next]_vars => [BF!Next]_<<Contents, msg>>
    <2> SUFFICES ASSUME IInv, IInv', [Next]_vars
                 PROVE  [BF!Next]_<<Contents, msg>>
      OBVIOUS
    <2>1. CASE UNCHANGED vars
      BY <2>1, Stutter
    <2>2. CASE Silent
      BY <2>2, FifoStutter
    <2>3. ASSUME NEW s \in Sensors, Enqueue(s) PROVE BF!Next
      BY <2>3, FifoPut DEF BF!Next
    <2>4. CASE Dequeue
      BY <2>4, FifoTake DEF BF!Next
    <2> QED
      BY <2>1, <2>2, <2>3, <2>4 DEF Next, Silent
  <1> QED
    BY <1>1, FifoInit, Invariance, PTL DEF Spec, ImplementsFifo, BF!Spec

-----------------------------------------------------------------------------
(* The latency of the benchmark.                                           *)

\* A multiple of the modulus that lies within one turn of zero is zero.
LEMMA NoTurn ==
    ASSUME NEW M \in Nat \ {0}, NEW k \in Int, -M < M * k, M * k < M
    PROVE  k = 0
  <1>1. CASE k >= 1
    <2>1. M * k >= M * 1
      BY <1>1
    <2> QED
      BY <2>1
  <1>2. CASE k <= -1
    <2>1. M * k <= M * (-1)
      BY <1>2
    <2> QED
      BY <2>1
  <1> QED
    BY <1>1, <1>2

\* Whole turns do not show in a remainder.
LEMMA TurnsVanish ==
    ASSUME NEW M \in Nat \ {0}, NEW r \in 0 .. M - 1, NEW k \in Int
    PROVE  (r + M * k) % M = r
  <1> DEFINE y == r + M * k
             q == y \div M
             s == y % M
  <1>1. M * k \in Int /\ y \in Int
    OBVIOUS
  <1>2. q \in Int /\ s \in 0 .. M - 1 /\ y = M * q + s
    BY <1>1
  <1>3. M * (q - k) = M * q - M * k
    BY <1>2
  <1>4. M * (q - k) = r - s
    BY <1>1, <1>2, <1>3
  <1>5. -M < r - s /\ r - s < M
    BY <1>2
  <1>6. q - k = 0
    BY <1>2, <1>4, <1>5, NoTurn
  <1>7. M * q = M * k
    BY <1>2, <1>6
  <1> QED
    BY <1>1, <1>2, <1>7

\* What long keeps of a number differs from it by whole turns.
LEMMA LongTurns ==
    ASSUME NEW x \in Int
    PROVE  \E k \in Int : long(x) = x + Modulus * k
  <1>1. Modulus \in Nat \ {0} /\ LONG_MAX \in Nat
    BY LatencyAssumption DEF Modulus
  <1> DEFINE y == x + LONG_MAX + 1
             q == y \div Modulus
  <1>2. y \in Int
    BY <1>1
  <1>3. q \in Int /\ y = Modulus * q + (y % Modulus) /\ y % Modulus \in Int
    BY <1>1, <1>2
  <1>4. -q \in Int /\ Modulus * (-q) = -(Modulus * q) /\ Modulus * q \in Int
    BY <1>1, <1>3
  <1>5. long(x) = x + Modulus * (-q)
    BY <1>1, <1>3, <1>4 DEF long
  <1> QED
    BY <1>4, <1>5

\* A number that fits comes out whatever turns were added to it.
LEMMA LongFits ==
    ASSUME NEW x \in 0 .. LONG_MAX, NEW k \in Int
    PROVE  long(x + Modulus * k) = x
  <1>1. Modulus \in Nat \ {0} /\ LONG_MAX \in Nat /\ Modulus = 2 * (LONG_MAX + 1)
    BY LatencyAssumption DEF Modulus
  <1>2. x + LONG_MAX + 1 \in 0 .. Modulus - 1
    BY <1>1
  <1>3. ((x + LONG_MAX + 1) + Modulus * k) % Modulus = x + LONG_MAX + 1
    BY <1>1, <1>2, TurnsVanish
  <1>4. Modulus * k \in Int
    BY <1>1
  <1>5. (x + Modulus * k) + LONG_MAX + 1 = (x + LONG_MAX + 1) + Modulus * k
    BY <1>1, <1>4
  <1> QED
    BY <1>1, <1>3, <1>5 DEF long

\* The turns that products and differences lose cancel out.
LEMMA DiffExact ==
    ASSUME NEW start \in timespec, NEW end \in timespec,
           nanoseconds(end) - nanoseconds(start) \in 0 .. LONG_MAX
    PROVE  calc_time_diff_ns(start, end) = nanoseconds(end) - nanoseconds(start)
  <1> DEFINE S == NS_PER_SEC
             d == end.tv_sec - start.tv_sec
             e == end.tv_nsec - start.tv_nsec
  <1>1. /\ Modulus \in Int /\ S \in Int
        /\ start.tv_sec \in Int /\ end.tv_sec \in Int
        /\ start.tv_nsec \in Int /\ end.tv_nsec \in Int
    BY LatencyAssumption DEF Modulus, timespec
  <1>2. d \in Int /\ e \in Int /\ d * S \in Int
    BY <1>1
  <1>3. nanoseconds(end) - nanoseconds(start) = d * S + e
    BY <1>1 DEF nanoseconds
  <1>4. PICK k1 \in Int : long(d) = d + Modulus * k1
    BY <1>2, LongTurns
  <1>5. PICK k2 \in Int : long(e) = e + Modulus * k2
    BY <1>2, LongTurns
  <1>6. long(d) \in Int /\ long(e) \in Int /\ long(d) * S \in Int
    BY <1>1, <1>2, <1>4, <1>5
  <1>7. PICK k3 \in Int : long(long(d) * S) = long(d) * S + Modulus * k3
    BY <1>6, LongTurns
  <1>8. long(d) * S = d * S + Modulus * (k1 * S)
    BY <1>1, <1>2, <1>4
  <1>9. k1 * S \in Int /\ k1 * S + k2 + k3 \in Int
    BY <1>1
  <1>10. Modulus * (k1 * S) + Modulus * k2 + Modulus * k3 = Modulus * (k1 * S + k2 + k3)
    BY <1>1, <1>9
  <1>11. long(long(d) * S) + long(e) = (d * S + e) + Modulus * (k1 * S + k2 + k3)
    BY <1>1, <1>2, <1>5, <1>7, <1>8, <1>9, <1>10
  <1>12. long((d * S + e) + Modulus * (k1 * S + k2 + k3)) = d * S + e
    BY <1>3, <1>9, LongFits
  <1> QED
    BY <1>3, <1>11, <1>12 DEF calc_time_diff_ns

\* Every latency a long can hold is reported exactly, for every width of long,
\* whenever the message was stamped.
THEOREM LatencyCorrect == LatencySpec => []LatencyExact
  <1>1. LatencyInit => send_time \in timespec
    BY DEF LatencyInit
  <1>2. send_time \in timespec /\ [LatencyNext]_send_time => (send_time \in timespec)'
    <2> SUFFICES ASSUME send_time \in timespec, [LatencyNext]_send_time
                 PROVE  (send_time \in timespec)'
      OBVIOUS
    <2> QED
      BY DEF LatencyNext, timespec
  <1>3. send_time \in timespec => LatencyExact
    BY DiffExact DEF LatencyExact
  <1> QED
    BY <1>1, <1>2, <1>3, PTL DEF LatencySpec
=============================================================================
