------------------------------ MODULE MCFusion ------------------------------
(* Model checking of the fusion engine alone.                              *)
EXTENDS FusionEngine

\* The fleet plays no part here.
MCFleet == [s \in 0 .. 0 |-> 0]
=============================================================================
