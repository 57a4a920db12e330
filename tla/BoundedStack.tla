---------------------------- MODULE BoundedStack ----------------------------
(***************************************************************************)
(* What the buffer of sensor_system.c promises: the reading that comes out *)
(* is the newest one inside, it comes out once, and no more than Capacity  *)
(* are kept.                                                               *)
(***************************************************************************)
EXTENDS Naturals, Sequences

CONSTANTS Readings, Capacity

VARIABLES
    stack,                  \* the readings inside, newest last
    taken                   \* the reading that came out last

Init == stack = << >> /\ taken \notin Readings

Push(r) ==
    /\ Len(stack) < Capacity
    /\ stack' = Append(stack, r)
    /\ UNCHANGED taken

Pop ==
    /\ stack # << >>
    /\ taken' = stack[Len(stack)]
    /\ stack' = SubSeq(stack, 1, Len(stack) - 1)

Next == Pop \/ \E r \in Readings : Push(r)

Spec == Init /\ [][Next]_<<stack, taken>>
=============================================================================
