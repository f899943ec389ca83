---------------------------- MODULE AnswerOnce ----------------------------
(***************************************************************************)
(* What an asynchronous service promises a caller: every request handed to *)
(* it is answered exactly once as long as the caller is there, and never   *)
(* after the caller is gone.  The plate recognition scheduler              *)
(* (LprScheduler) and the session of a remote client (RemoteSession) are   *)
(* shown to implement this module.                                         *)
(***************************************************************************)
EXTENDS Naturals

CONSTANT Requests  \* everything that may be asked

VARIABLES
    fate,   \* of each request: New, Waiting, Answered or Dropped
    calls,  \* how often its callback ran
    gone    \* the requests whose caller cannot be told any more

vars == <<fate, calls, gone>>

Fates == {"New", "Waiting", "Answered", "Dropped"}

TypeOK ==
    /\ fate \in [Requests -> Fates]
    /\ calls \in [Requests -> Nat]
    /\ gone \subseteq Requests

Init ==
    /\ fate = [r \in Requests |-> "New"]
    /\ calls = [r \in Requests |-> 0]
    /\ gone = {}

Submit(r) ==
    /\ fate[r] = "New"
    /\ fate' = [fate EXCEPT ![r] = "Waiting"]
    /\ UNCHANGED <<calls, gone>>

\* Callbacks run, one or several at a time; a request may be turned down by calling
\* back at once.
Answer(R) ==
    /\ \A r \in R : fate[r] \in {"New", "Waiting"}
    /\ R \intersect gone = {}
    /\ fate' = [r \in Requests |-> IF r \in R THEN "Answered" ELSE fate[r]]
    /\ calls' = [r \in Requests |-> IF r \in R THEN calls[r] + 1 ELSE calls[r]]
    /\ UNCHANGED gone

\* Some callers leave, and some of the requests nobody waits for are given up.
Leave(G, R) ==
    /\ gone' = gone \union G
    /\ \A r \in R : fate[r] = "Waiting" /\ r \in gone'
    /\ fate' = [r \in Requests |-> IF r \in R THEN "Dropped" ELSE fate[r]]
    /\ UNCHANGED calls

Next ==
    \/ \E r \in Requests : Submit(r)
    \/ \E R \in SUBSET Requests : Answer(R)
    \/ \E G, R \in SUBSET Requests : Leave(G, R)

\* Nobody waits for ever.
Settles == \A r \in Requests : fate[r] = "Waiting" ~> fate[r] # "Waiting"

SafeSpec == Init /\ [][Next]_vars
Spec == SafeSpec /\ Settles

\* No request is answered twice.
AtMostOnce == \A r \in Requests : calls[r] = IF fate[r] = "Answered" THEN 1 ELSE 0
=============================================================================
