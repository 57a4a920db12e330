------------------------------ MODULE MCAdasV3 ------------------------------
(***************************************************************************)
(* Model checking of v3, and of its decision logic on an object on either  *)
(* side of every threshold it brakes or warns by.                          *)
(***************************************************************************)
EXTENDS AdasV3, DecisionLogic

MCCreateMayFail == Servers
MCDistances == {4, 5, 14, 15}
MCSides     == {-4}
MCPercents  == {39, 40, 90, 91}

\* No thread of v3 passes an object: every one is looked at at the start, and
\* from then on the same.
MCObject == CHOOSE o \in fused_object_t : TRUE

MCInit == Init /\ DecisionInit
MCSpec == MCInit /\ [][Next /\ obj' = MCObject]_<<vars, obj>> /\ Fairness
=============================================================================
