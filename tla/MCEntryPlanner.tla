--------------------------- MODULE MCEntryPlanner ---------------------------
(***************************************************************************)
(* An instance of EntryPlanner for TLC: two cars, one spot, a queue that   *)
(* holds two of three requests, one reservation.                           *)
(***************************************************************************)
EXTENDS EntryPlanner

CONSTANTS p1, p2, s1

MCPlates == {p1, p2}
MCOneSpot == {s1}
MCAccessible == {}
MCStarts == {0}

\* While the disk fails, the lock of the reservation, its check-in and the entry of
\* one car cannot be written.
MCOutages == {{}, {<<"relock", 1>>, <<"checkin", 1>>, <<"entry", p1>>}}
=============================================================================
