----------------------------- MODULE SampleCall -----------------------------
(***************************************************************************)
(* What a sample of the v4 session is promised, without channels, threads  *)
(* or a mutex: one call at a time carries a sample, the sample is judged   *)
(* once, and the call returns after that.  A shutdown may end the call     *)
(* early; a sample that was already taken is then judged without a caller, *)
(* and one that was not is never judged.                                   *)
(***************************************************************************)
EXTENDS Integers

CONSTANT Sensors

VARIABLES
    running,                \* no shutdown has been asked for
    call,                   \* the call under way
    abandoned,              \* sensors whose sample lost its caller, unjudged
    drifting                \* the last verdict on each sensor

vars == <<running, call, abandoned, drifting>>

NoSensor == -1

Call(stage, s) == [stage |-> stage, sensor |-> s]
NoCall == Call("idle", NoSensor)

\* The call goes on to its next stage.
Proceed(from, to) == call.stage = from /\ call' = Call(to, call.sensor)

Verdict(s) == \E v \in BOOLEAN : drifting' = [drifting EXCEPT ![s] = v]

TypeOK ==
    /\ running \in BOOLEAN
    /\ call \in {NoCall} \cup
         {Call(stage, s) : stage \in {"queued", "taken", "judged", "returned"}, s \in Sensors}
    /\ abandoned \subseteq Sensors
    /\ drifting \in [Sensors -> BOOLEAN]

Init ==
    /\ running = TRUE
    /\ call = NoCall
    /\ abandoned = {}
    /\ drifting = [s \in Sensors |-> FALSE]

Invoke(s) ==
    /\ call = NoCall
    /\ call' = Call("queued", s)
    /\ UNCHANGED <<running, abandoned, drifting>>

\* A sample is not taken while an older one of its sensor is unjudged.
Take ==
    /\ call.sensor \notin abandoned
    /\ Proceed("queued", "taken")
    /\ UNCHANGED <<running, abandoned, drifting>>

Judge ==
    /\ Proceed("taken", "judged")
    /\ Verdict(call.sensor)
    /\ UNCHANGED <<running, abandoned>>

Answer == Proceed("judged", "returned") /\ UNCHANGED <<running, abandoned, drifting>>

Resume ==
    /\ call.stage = "returned"
    /\ call' = NoCall
    /\ UNCHANGED <<running, abandoned, drifting>>

-----------------------------------------------------------------------------
(* Shutdown.                                                               *)

\* The request may find the caller anywhere and take it out of its call.
Shutdown ==
    /\ running' = FALSE
    /\ \/ UNCHANGED <<call, abandoned>>
       \/ \E stage \in {"queued", "judged"} :
             Proceed(stage, "returned") /\ UNCHANGED abandoned
       \/ Proceed("taken", "returned") /\ abandoned' = abandoned \cup {call.sensor}
    /\ UNCHANGED drifting

\* Later the receiver of a waiting sample may leave.
Withdraw ==
    /\ ~running
    /\ Proceed("queued", "returned")
    /\ UNCHANGED <<running, abandoned, drifting>>

JudgeAbandoned(s) ==
    /\ ~running
    /\ s \in abandoned
    /\ abandoned' = abandoned \ {s}
    /\ Verdict(s)
    /\ UNCHANGED <<running, call>>

Next ==
    \/ \E s \in Sensors : Invoke(s) \/ JudgeAbandoned(s)
    \/ Take \/ Judge \/ Answer \/ Resume
    \/ Shutdown \/ Withdraw

Spec == Init /\ [][Next]_vars
=============================================================================
