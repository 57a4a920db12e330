----------------------------- MODULE MsgChannel -----------------------------
(***************************************************************************)
(* The simulated QNX channel of v1 (sensor_heavy.c) and of its benchmark:  *)
(* a ring buffer under one mutex, with a condition variable for the        *)
(* senders that find it full and one for the receiver that finds it empty. *)
(*                                                                         *)
(* The sensors are numbered from 1 as in main; the aggregator is thread 0. *)
(* Every sensor computes the same value, so a message is its sensor_id.    *)
(***************************************************************************)
EXTENDS Integers, FiniteSets

CONSTANTS
    NUM_SENSORS,            \* 4
    MSG_QUEUE_SIZE          \* 10

ASSUME ChannelAssumption ==
    /\ NUM_SENSORS \in Nat \ {0}
    /\ MSG_QUEUE_SIZE \in Nat \ {0}

Sensors    == 1 .. NUM_SENSORS
Aggregator == 0
Threads    == 0 .. NUM_SENSORS
Free       == -1
Slots      == 0 .. MSG_QUEUE_SIZE - 1

VARIABLES
    pc,                     \* where each thread stands
    mutex,                  \* its holder, or Free
    queue, head, tail, count,
    msg                     \* what MsgReceive_Sim returned last, 0 at first

ring == <<queue, head, tail, count>>
vars == <<pc, mutex, ring, msg>>

\* out: outside the channel.  test: about to test the loop condition with
\* the mutex held.  wait: in pthread_cond_wait, not woken.  woken: in it,
\* woken, without the mutex again.  update: the slot and its index are done,
\* count is not.  unlock: all done but the unlock.
Pcs == {"out", "test", "wait", "woken", "update", "unlock"}

Waiting == {s \in Sensors : pc[s] = "wait"}     \* on cond_empty

TypeOK ==
    /\ pc \in [Threads -> Pcs]
    /\ mutex \in Threads \cup {Free}
    /\ queue \in [Slots -> Sensors \cup {0}]
    /\ head \in Slots /\ tail \in Slots
    /\ count \in 0 .. MSG_QUEUE_SIZE
    /\ msg \in Sensors \cup {0}

\* channel_init, before any thread is created; slots hold nothing yet.
Init ==
    /\ pc = [t \in Threads |-> "out"]
    /\ mutex = Free
    /\ queue = [i \in Slots |-> 0]
    /\ head = 0 /\ tail = 0 /\ count = 0
    /\ msg = 0

Goto(t, p) == pc' = [pc EXCEPT ![t] = p]

\* Slips that the properties notice, one mutation each.
LockIgnored(t) ==
    /\ pc[t] \in {"out", "woken"}
    /\ mutex' = t
    /\ Goto(t, "test")
    /\ UNCHANGED <<ring, msg>>
SignalNobody(s) == Goto(Aggregator, "unlock")
SignalNoOne(s)  == Goto(s, "unlock")
Stuck(i)        == i

\* pthread_mutex_lock on entry, or inside a pthread_cond_wait that was woken.
Lock(t) ==
    /\ pc[t] \in {"out", "woken"}
    /\ mutex = Free
    /\ mutex' = t
    /\ Goto(t, "test")
    /\ UNCHANGED <<ring, msg>>

Unlock(t) ==
    /\ pc[t] = "unlock"
    /\ mutex' = Free
    /\ Goto(t, "out")
    /\ UNCHANGED <<ring, msg>>

Full  == count = MSG_QUEUE_SIZE
Empty == count = 0

Advance(i) == (i + 1) % MSG_QUEUE_SIZE

\* pthread_cond_wait lets the mutex go and sleeps, in one step.
Wait(t) ==
    /\ pc[t] = "test"
    /\ IF t = Aggregator THEN Empty ELSE Full
    /\ mutex' = Free
    /\ Goto(t, "wait")
    /\ UNCHANGED <<ring, msg>>

\* A wakeup nobody sent; POSIX allows it and the while loops expect it.
SpuriousWakeup(t) ==
    /\ pc[t] = "wait"
    /\ Goto(t, "woken")
    /\ UNCHANGED <<mutex, ring, msg>>

-----------------------------------------------------------------------------
(* MsgSend_Sim.                                                            *)

\* ch->queue[ch->tail] = msg and the next tail.
Enqueue(s) ==
    /\ pc[s] = "test"
    /\ ~Full
    /\ queue' = [queue EXCEPT ![tail] = s]
    /\ tail' = Advance(tail)
    /\ Goto(s, "update")
    /\ UNCHANGED <<mutex, head, count, msg>>

\* pthread_cond_signal(&ch->cond_full) wakes the receiver if it waits.
WakeReceiver(s) ==
    pc' = [pc EXCEPT ![s] = "unlock",
                     ![Aggregator] = IF @ = "wait" THEN "woken" ELSE @]

\* ch->count++ and the signal.
Enqueued(s) ==
    /\ pc[s] = "update"
    /\ count' = count + 1
    /\ WakeReceiver(s)
    /\ UNCHANGED <<mutex, queue, head, tail, msg>>

-----------------------------------------------------------------------------
(* MsgReceive_Sim.                                                         *)

Dequeue ==
    /\ pc[Aggregator] = "test"
    /\ ~Empty
    /\ msg' = queue[head]
    /\ head' = Advance(head)
    /\ Goto(Aggregator, "update")
    /\ UNCHANGED <<mutex, queue, tail, count>>

\* pthread_cond_signal(&ch->cond_empty) wakes s.
WakeSender(s) == pc' = [pc EXCEPT ![Aggregator] = "unlock", ![s] = "woken"]

\* ch->count-- and the signal, which wakes one waiting sender if there is one.
Dequeued ==
    /\ pc[Aggregator] = "update"
    /\ count' = count - 1
    /\ IF Waiting = {} THEN Goto(Aggregator, "unlock")
                       ELSE \E s \in Waiting : WakeSender(s)
    /\ UNCHANGED <<mutex, queue, head, tail, msg>>

-----------------------------------------------------------------------------
Next ==
    \/ \E t \in Threads :
          Lock(t) \/ Unlock(t) \/ Wait(t) \/ SpuriousWakeup(t)
    \/ \E s \in Sensors : Enqueue(s) \/ Enqueued(s)
    \/ Dequeue
    \/ Dequeued

Step(t) ==
    \/ Unlock(t) \/ Wait(t)
    \/ t \in Sensors /\ (Enqueue(t) \/ Enqueued(t))
    \/ t = Aggregator /\ (Dequeue \/ Dequeued)

\* Threads run, and a thread that keeps asking for the mutex gets it.  No
\* fairness for spurious wakeups; a sender may stay out for ever.
Fairness ==
    /\ \A t \in Threads : WF_vars(Step(t))
    /\ \A t \in Threads : SF_vars(pc[t] = "woken" /\ Lock(t))
    /\ SF_vars(Lock(Aggregator))

Spec == Init /\ [][Next]_vars /\ Fairness

-----------------------------------------------------------------------------
(* Properties.                                                             *)

Inside(t) == pc[t] \in {"test", "update", "unlock"}

\* The ring is only touched under the mutex (sensor_heavy.c:46-54, 59-67).
MutualExclusion == \A t \in Threads : Inside(t) <=> mutex = t

\* What the channel holds, between the index and the count of an update too.
Size == IF \E s \in Sensors : pc[s] = "update" THEN count + 1
        ELSE IF pc[Aggregator] = "update" THEN count - 1 ELSE count

\* The i-th message inside, and all of them, oldest first.
At(i)    == queue[(head + i - 1) % MSG_QUEUE_SIZE]
Contents == [i \in 1 .. Size |-> At(i)]

\* The channel is a bounded FIFO: nothing is lost, overwritten or received
\* twice, whatever the order of lock, wait and signal.
BF == INSTANCE BoundedFifo WITH
        Messages <- Sensors,
        Capacity <- MSG_QUEUE_SIZE,
        fifo     <- Contents,
        taken    <- msg

ImplementsFifo == BF!Spec

\* Senders that were woken and have not got the mutex again.
Woken == {s \in Sensors : pc[s] = "woken"}

\* No wakeup is lost.  The receiver never sleeps on a channel with messages;
\* and while senders sleep, every free slot has a sender of its own on the
\* way, although a signal wakes only one and a newcomer may take the slot
\* before that one has the mutex (sensor_heavy.c:47-53, 60-66).
NoLostWakeup ==
    /\ pc[Aggregator] = "wait" => count = 0
    /\ mutex = Free /\ Waiting # {}
           => count + Cardinality(Woken) >= MSG_QUEUE_SIZE

\* The receiver gets everything: a channel with messages in it is emptied
\* further, again and again, without the help of a spurious wakeup.
MessagesReceived == count > 0 ~> pc[Aggregator] = "update"

\* While senders sleep on a full channel, one of them is woken, again and
\* again and without the help of a spurious wakeup: the signal of each receive
\* is enough although it names nobody.  (Which one is the scheduler's choice:
\* a single sender may be passed over for ever.)
SleepersWoken == Waiting # {} ~> Woken # {}

-----------------------------------------------------------------------------
(* The inductive invariant behind the safety properties, part by part.     *)

\* The count may move the way the thread at "update" is about to move it.
UpdateInv ==
    /\ \A s \in Sensors : pc[s] = "update" => count < MSG_QUEUE_SIZE
    /\ pc[Aggregator] = "update" => count > 0

\* A sender that has the mutex and has not counted its message yet.
Entering == \E s \in Sensors : pc[s] \in {"test", "update"}

\* While senders sleep, the messages inside, the senders on their way back
\* and the one that is entering fill the channel.
WakeInv ==
    /\ pc[Aggregator] = "wait" => count = 0
    /\ Waiting # {} =>
         count + Cardinality(Woken) + (IF Entering THEN 1 ELSE 0) >= MSG_QUEUE_SIZE

\* The ring holds Size messages, from head up to tail.
RingInv ==
    /\ tail = (head + Size) % MSG_QUEUE_SIZE
    /\ \A i \in 1 .. Size : At(i) \in Sensors

IInv == TypeOK /\ MutualExclusion /\ UpdateInv /\ WakeInv /\ RingInv
=============================================================================
