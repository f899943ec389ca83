----------------------------- MODULE GateOnline -----------------------------
(***************************************************************************)
(* The terminal of a lane at work (apps/gate/main.cpp, handleCommand,      *)
(* handleEntrance, handleExit, recordOffline): it asks the server before   *)
(* it opens the barrier, or records the event and opens while it is off    *)
(* line.  A request waits in a nested event loop (TcpClient::request), in  *)
(* which the next plate may be typed, so that requests wait on top of each *)
(* other and only the last one may go on.  An answer can be late, and the  *)
(* connection can break.                                                   *)
(*                                                                         *)
(* Abstracted: the time-outs come at any time before the answer; logging   *)
(* in and the replay of recorded events, which GateReplay models.          *)
(***************************************************************************)
EXTENDS BarrierGate, Sequences

CONSTANTS
    Plates,
    MaxCommands,  \* bound on the plates typed
    MaxLosses     \* bound on the time-outs, broken connections and failed appends

ASSUME OnlineAssumption == MaxCommands \in Nat /\ MaxLosses \in Nat

VARIABLES
    role,       \* role_: entrance or exit
    typed,      \* the plates typed so far; a request has the number of its plate
    waiting,    \* the requests that wait, the innermost last
    linked,     \* client_.connected() and authenticated_
    onWay,      \* requests on their way to the server
    verdict,    \* what the server made of a request
    answers,    \* answers on their way to the gate
    responses,  \* responses_ of the client, by request
    cut,        \* the requests of connections that broke
    onSite,     \* plates with an open record at the server
    lifted,     \* history: the requests the barrier was opened for
    recorded,   \* history: those recorded off line
    lost,       \* history: those that timed out or were cut off
    losses

online == <<role, typed, waiting, linked, onWay, verdict, answers, responses, cut, onSite,
            lifted, recorded, lost, losses>>
gateVars == <<vars, online>>

Requests == 1 .. MaxCommands

GateInit ==
    /\ Init
    /\ role \in {"entrance", "exit"}
    /\ typed = <<>> /\ waiting = <<>>
    /\ linked \in BOOLEAN
    /\ onWay = {} /\ answers = {} /\ responses = {} /\ cut = {}
    /\ verdict = [i \in Requests |-> "none"]
    /\ onSite \in SUBSET Plates
    /\ lifted = {} /\ recorded = {} /\ lost = {}
    /\ losses = 0

Loss == losses < MaxLosses /\ losses' = losses + 1

\* recordOffline: the barrier opens only for an event that was stored.
RecordOffline(i) ==
    \/ /\ RequestOpen
       /\ lifted' = lifted \union {i} /\ recorded' = recorded \union {i}
       /\ UNCHANGED losses
    \/ Loss /\ UNCHANGED <<vars, lifted, recorded>>

\* A plate is typed (handleCommand), also while requests wait.
TypePlate(p) ==
    LET i == Len(typed) + 1 IN
    /\ i \in Requests
    /\ typed' = Append(typed, p)
    /\ IF linked
       THEN /\ waiting' = Append(waiting, i)
            /\ onWay' = onWay \union {i}
            /\ UNCHANGED <<vars, lifted, recorded, losses>>
       ELSE RecordOffline(i) /\ UNCHANGED <<waiting, onWay>>
    /\ UNCHANGED <<role, linked, verdict, answers, responses, cut, onSite, lost>>

\* parking.enter and parking.leave at the server.  An entry may be refused for other
\* reasons than that the vehicle is on the site.
Decide(i) ==
    LET p == typed[i] IN
    /\ i \in onWay
    /\ onWay' = onWay \ {i}
    /\ \/ /\ p \in onSite <=> role = "exit"
          /\ onSite' = IF role = "exit" THEN onSite \ {p} ELSE onSite \union {p}
          /\ verdict' = [verdict EXCEPT ![i] = "ok"]
       \/ /\ role = "entrance" \/ p \notin onSite
          /\ verdict' = [verdict EXCEPT ![i] = "no"]
          /\ UNCHANGED onSite
    /\ answers' = answers \union ({i} \ cut)
    /\ UNCHANGED <<vars, role, typed, waiting, linked, responses, cut, lifted, recorded, lost, losses>>

\* onReadyRead
Receive(i) ==
    /\ i \in answers
    /\ answers' = answers \ {i}
    /\ responses' = responses \union {i}
    /\ UNCHANGED <<vars, role, typed, waiting, linked, onWay, verdict, cut, onSite, lifted, recorded,
                   lost, losses>>

\* Mutant of AnswersTo: an answer about the same plate will do.
AnswersToPlate(i) == {x \in responses : typed[x] = typed[i]}

\* The responses a request takes for its own: that with its id.
AnswersTo(i) == responses \intersect {i}

Innermost == waiting[Len(waiting)]
Back == SubSeq(waiting, 1, Len(waiting) - 1)

\* The innermost request has its answer, though its time may be over meanwhile.
Conclude ==
    /\ waiting # <<>>
    /\ \E x \in AnswersTo(Innermost) :
           /\ responses' = responses \ {x}
           /\ IF verdict[x] = "ok"
              THEN RequestOpen /\ lifted' = lifted \union {Innermost}
              ELSE UNCHANGED <<vars, lifted>>
    /\ waiting' = Back
    /\ UNCHANGED <<role, typed, linked, onWay, verdict, answers, cut, onSite, recorded, lost, losses>>

\* It gives up; that it was cut off, it finds out in the same way.
GiveUp ==
    /\ waiting # <<>>
    /\ AnswersTo(Innermost) = {}
    /\ IF Innermost \in lost THEN UNCHANGED losses ELSE Loss
    /\ lost' = lost \union {Innermost}
    /\ waiting' = Back
    /\ UNCHANGED <<vars, role, typed, linked, onWay, verdict, answers, responses, cut, onSite,
                   lifted, recorded>>

\* The connection breaks: all responses are thrown away, also those of requests that
\* could not go on yet.  The server may still see to a request it has read.
Disconnect ==
    /\ linked /\ Loss
    /\ linked' = FALSE
    /\ onWay' \in SUBSET onWay /\ answers' = {} /\ responses' = {}
    /\ cut' = DOMAIN typed
    /\ lost' = lost \union {waiting[k] : k \in DOMAIN waiting}
    /\ UNCHANGED <<vars, role, typed, waiting, verdict, onSite, lifted, recorded>>

\* tryConnect
Connect ==
    /\ ~linked
    /\ linked' = TRUE
    /\ UNCHANGED <<vars, role, typed, waiting, onWay, verdict, answers, responses, cut, onSite,
                   lifted, recorded, lost, losses>>

\* The barrier by itself, the loop and the operator.
Barrier == (Tick \/ Timeout \/ VehiclePassed \/ SetFault \/ Reset) /\ UNCHANGED online

GateNext ==
    \/ Barrier
    \/ \E p \in Plates : TypePlate(p)
    \/ \E i \in Requests : Decide(i) \/ Receive(i)
    \/ Conclude \/ GiveUp \/ Disconnect \/ Connect

\* As in BarrierGate; and an event loop that waits is left when there is an answer, or
\* none will come.
GateFairness ==
    /\ WF_gateVars(Tick /\ UNCHANGED online)
    /\ WF_gateVars(OpenTimeout /\ UNCHANGED online) /\ WF_gateVars(HoldTimeout /\ UNCHANGED online)
    /\ WF_gateVars(CloseTimeout /\ UNCHANGED online) /\ WF_gateVars(AlarmTimeout /\ UNCHANGED online)
    /\ WF_gateVars(Conclude) /\ WF_gateVars(GiveUp)
    /\ \A i \in Requests : WF_gateVars(Decide(i)) /\ WF_gateVars(Receive(i))

GateSpec == GateInit /\ [][GateNext]_gateVars /\ GateFairness

-----------------------------------------------------------------------------
(***************************************************************************)
(* Properties.                                                             *)
(***************************************************************************)

\* The barrier opens for a vehicle once for each time the server let it pass or an event
\* of it was stored, in spite of late answers to requests given up before; and it does
\* open for a vehicle the server let pass, unless the request was given up or cut off:
\* then the server has an entry of a vehicle that stands outside.
GateHonest ==
    /\ lifted \subseteq recorded \union {i \in Requests : verdict[i] = "ok"}
    /\ \A i \in 1 .. Len(typed) :
           verdict[i] = "ok" /\ i \notin lifted =>
               i \in lost \/ i \in answers \union responses
    /\ \A k \in DOMAIN waiting : waiting[k] \notin lifted

\* Where a request can be: on its way, answered or taken in by the client in turn, and
\* in all three cases somebody waits for it or it is counted as lost.
Asked == 1 .. Len(typed)
Waits == {waiting[k] : k \in DOMAIN waiting}

OnlineSound ==
    /\ typed \in Seq(Plates) /\ Len(typed) \in 0 .. MaxCommands
    /\ waiting \in Seq(Asked)
    /\ \A j, k \in DOMAIN waiting : waiting[j] = waiting[k] => j = k
    /\ onWay \union answers \union responses \union cut \union lifted \subseteq Asked
    /\ verdict \in [Requests -> {"none", "ok", "no"}]
    /\ \A i \in Requests : i \in onWay \/ i \notin Asked => verdict[i] = "none"
    /\ onWay \intersect (answers \union responses) = {} /\ answers \intersect responses = {}
    /\ onWay \union answers \union responses \subseteq lost \union Waits
    /\ onWay \intersect cut \subseteq lost

\* The inductive invariant of the terminal.
OnlineInv == OnlineSound /\ GateHonest

\* Every request comes to an end, also those below others (handleEntrance, handleExit).
Concluded == \A i \in Requests :
    (\E k \in DOMAIN waiting : waiting[k] = i) ~> ~\E k \in DOMAIN waiting : waiting[k] = i

\* A vehicle that was let through finds the arm up, when no more come it is lowered, and
\* every request at the gate comes to an end.
LaneServes == ReleasedCarPasses /\ ArmComesDown /\ Concluded
=============================================================================
