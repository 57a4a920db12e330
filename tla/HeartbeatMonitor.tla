-------------------------- MODULE HeartbeatMonitor --------------------------
(***************************************************************************)
(* What the watchdog of the fusion engine promises, without flags, pulses  *)
(* or messages: a monitored zone is lost after two checks without a beat   *)
(* between them (before the first beat ever, after one), a beat brings it  *)
(* back, and nothing else changes its standing.                            *)
(***************************************************************************)
EXTENDS Integers

CONSTANT Monitored          \* the zones that are watched

VARIABLE misses             \* checks since the last beat, 2 for two or more

TypeOK == misses \in [Monitored -> 0 .. 2]

Lost == {z \in Monitored : misses[z] = 2}

Init == misses = [z \in Monitored |-> 1]

Beat(z) == misses' = [misses EXCEPT ![z] = 0]

Check == misses' = [z \in Monitored |-> IF misses[z] = 0 THEN 1 ELSE 2]

Next == Check \/ \E z \in Monitored : Beat(z)

Spec == Init /\ [][Next]_misses
=============================================================================
