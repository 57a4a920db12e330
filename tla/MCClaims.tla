------------------------------ MODULE MCClaims ------------------------------
(* Model checking of the claims about the session, one sensor per zone.    *)
EXTENDS SessionClaims

SmallFleet == [s \in Sensors |-> s % NUM_ZONES]
=============================================================================
