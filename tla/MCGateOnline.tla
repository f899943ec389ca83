---------------------------- MODULE MCGateOnline ----------------------------
(***************************************************************************)
(* An instance of GateOnline for TLC: a vehicle whose plate is typed three *)
(* times, at an entrance or an exit; the shortest delays with which the    *)
(* hold of the barrier outlasts the way down.                              *)
(***************************************************************************)
EXTENDS GateOnline

CONSTANT car

MCPlates == {car}
=============================================================================
