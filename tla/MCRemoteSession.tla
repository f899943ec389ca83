-------------------------- MODULE MCRemoteSession --------------------------
(***************************************************************************)
(* An instance of RemoteSession for TLC: one request, an old and a new     *)
(* connection; the second call of start finds the session alive, refused   *)
(* for its password, or waiting to reconnect.                              *)
(***************************************************************************)
EXTENDS RemoteSession

CONSTANTS r1, l1, l2

MCRequests == {r1}
MCLinks == {l1, l2}
=============================================================================
