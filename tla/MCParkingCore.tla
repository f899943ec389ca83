--------------------------- MODULE MCParkingCore ---------------------------
(***************************************************************************)
(* Instances of ParkingCore for TLC.                                       *)
(***************************************************************************)
EXTENDS ParkingCore, TLC

CONSTANTS p1, p2, s1, s2

MCPlates == {p1, p2}
MCSpots == {s1, s2}
MCAccessible == {s1}
MCOneSpot == {s1}

\* Nothing fails, any one write of a call fails, or all of them do.
MCOutages == {{}, Writes} \cup {{x} : x \in Writes}
\* The disk never fails.
MCNoOutage == {{}}

\* Adjacent windows: each start is too soon or too far ahead at some time.
MCStarts == {1, 3}

MCSymmetry == Permutations(MCPlates)
=============================================================================
