---------------------------- MODULE MCGateReplay ----------------------------
(***************************************************************************)
(* Instances of GateReplay for TLC.                                        *)
(***************************************************************************)
EXTENDS GateReplay

CONSTANT p1

MCOnePlate == {p1}

MCLanes == {"north", "south"}
MCLanesKind == [g \in MCLanes |-> IF g = "north" THEN "enter" ELSE "exit"]
=============================================================================
