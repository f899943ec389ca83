-------------------------- MODULE MCPaymentOrders --------------------------
(***************************************************************************)
(* An instance of PaymentOrders for TLC: one user, two plates, two orders. *)
(* A stay of 0 or 1 is free and one of 2 ends just where the first unit    *)
(* does, so that one unit too many would show; the cap is above its fee.   *)
(***************************************************************************)
EXTENDS PaymentOrders

CONSTANTS driver, p1, p2

MCUsers == {driver}
MCAdmins == {}
MCPlates == {p1, p2}
=============================================================================
