----------------------------- MODULE BoundedFifo -----------------------------
(***************************************************************************)
(* What a message channel promises: messages come out in the order they    *)
(* went in, each once, and no more than Capacity are inside.               *)
(***************************************************************************)
EXTENDS Naturals, Sequences

CONSTANTS Messages, Capacity

VARIABLES
    fifo,                   \* the messages inside, oldest first
    taken                   \* the message that came out last

Init == fifo = << >> /\ taken \notin Messages

Put(m) ==
    /\ Len(fifo) < Capacity
    /\ fifo' = Append(fifo, m)
    /\ UNCHANGED taken

Take ==
    /\ fifo # << >>
    /\ taken' = Head(fifo)
    /\ fifo' = Tail(fifo)

Next == Take \/ \E m \in Messages : Put(m)

Spec == Init /\ [][Next]_<<fifo, taken>>
=============================================================================
