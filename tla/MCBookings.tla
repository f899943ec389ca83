----------------------------- MODULE MCBookings -----------------------------
(***************************************************************************)
(* An instance of Bookings for TLC: a vehicle that books and one that does *)
(* not, two spots, two bookings, which may be confirmed a tick early, in   *)
(* time, or too late.                                                      *)
(***************************************************************************)
EXTENDS Bookings

CONSTANTS car1, car2

MCPlates == {car1, car2}
MCLeads == {1}
MCBookers == {car1}
=============================================================================
