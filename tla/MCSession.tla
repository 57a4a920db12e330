----------------------------- MODULE MCSession -----------------------------
(* Model checking of the whole session with a small fleet.                 *)
EXTENDS AdasSession

\* Neighbouring sensors in different zones, and a zone with two of them.
SmallFleet == [s \in Sensors |-> s % NUM_ZONES]
=============================================================================
