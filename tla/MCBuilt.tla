------------------------------ MODULE MCBuilt ------------------------------
(* Model checking of the built variant, one sensor per zone.               *)
EXTENDS BuiltSession

SmallFleet == [s \in Sensors |-> s]
=============================================================================
