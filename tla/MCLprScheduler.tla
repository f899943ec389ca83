-------------------------- MODULE MCLprScheduler --------------------------
(***************************************************************************)
(* An instance of LprScheduler for TLC: two callers, two workers, a queue  *)
(* of one and four jobs, so that a full queue, two workers and a job       *)
(* submitted from a callback meet.                                         *)
(***************************************************************************)
EXTENDS LprScheduler

CONSTANTS rest, tcp

MCContexts == {rest, tcp}
=============================================================================
