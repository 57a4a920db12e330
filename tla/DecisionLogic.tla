--------------------------- MODULE DecisionLogic ---------------------------
(***************************************************************************)
(* v3_adas/decision/decision_logic.c: which features react to a fused      *)
(* object.  A pure function, which no thread of v3 calls.                  *)
(*                                                                         *)
(* x is metres ahead, y metres to the side, vx a speed, reliability in     *)
(* percent: integers, as every threshold is one.                           *)
(***************************************************************************)
EXTENDS Integers

CONSTANTS Distances, Sides, Percents        \* of the objects that are looked at

VARIABLE obj                \* the fused object of the call

ASSUME DecisionAssumption ==
    Distances \subseteq Int /\ Sides \subseteq Int /\ Percents \subseteq Int

fused_object_t == [x : Distances, y : Sides, vx : Sides, reliability : Percents,
                   vision : BOOLEAN]

\* A slip the property notices: a conjunct that went with the warning.
Brakes(o) == o.x < 5 /\ o.reliability > 90
WarnsReliably(o) == ~Brakes(o) /\ o.x < 15 /\ o.reliability > 40

\* The warning is the alternative of the braking.
Warns(o) == ~Brakes(o) /\ o.x < 15

process_adas_decisions(o) ==
    [AEB |-> Brakes(o), FCW |-> Warns(o),
     ACC |-> o.vx < 0,  BSD |-> o.y > 3 \/ o.y < -3,
     LDW |-> o.vision,  PHANTOM |-> o.reliability < 40]

\* Called with one object after another.
DecisionInit == obj \in fused_object_t
DecisionNext == obj' \in fused_object_t
DecisionSpec == DecisionInit /\ [][DecisionNext]_obj

\* An object within 15 m gets exactly one of the two reactions, whatever its
\* reliability; braking is never ordered by a frame that is called phantom;
\* and an object that comes nearer, or becomes more reliable, never stops the
\* braking (decision_logic.c:10-17, 35-37).
BrakingIsMonotone ==
    LET act == process_adas_decisions(obj)
    IN  /\ obj.x < 15 => act.AEB # act.FCW
        /\ ~(act.AEB /\ act.PHANTOM)
        /\ act.AEB => \A p \in fused_object_t :
             p.x <= obj.x /\ p.reliability >= obj.reliability => process_adas_decisions(p).AEB
=============================================================================
