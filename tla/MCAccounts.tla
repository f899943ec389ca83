---------------------------- MODULE MCAccounts ----------------------------
(***************************************************************************)
(* An instance of Accounts for TLC: a built-in account and one that is     *)
(* registered, a lock after two failures, two tokens, two faults or        *)
(* restarts, an audit log of two rows.                                     *)
(***************************************************************************)
EXTENDS Accounts

CONSTANTS admin, ann

MCNames == {admin, ann}
MCSeeds == {admin}
=============================================================================
