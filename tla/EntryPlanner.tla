---------------------------- MODULE EntryPlanner ----------------------------
(***************************************************************************)
(* The background planner of entries, composed with the service it enters  *)
(* the cars into.  Requests for an entry wait in a short queue; for the    *)
(* first of them a worker thread searches a spot in a copy of the spots,   *)
(* while the main thread goes on serving other calls.  When the result     *)
(* comes back, the spots and the configuration must still be those the     *)
(* worker saw: if not the search is made again, a few times.               *)
(*                                                                         *)
(* A slot of the main thread is an action; one that calls the service      *)
(* twice is two actions with nothing of the process in between (Busy).     *)
(* The worker reads its copy only, so its work is the time the stage       *)
(* "searching" lasts.                                                      *)
(***************************************************************************)
EXTENDS ParkingCore, SequencesExt

CONSTANTS
    QueueLimit,   \* requests that may wait, the one being searched included
    MaxRetries,   \* searches made again for one request
    MaxTurned     \* bound of the model: callers turned away and not yet told

\* A request that waits has a number until it is answered.
Numbers == 1 .. QueueLimit

ASSUME PlannerAssumption == QueueLimit \in Nat \ {0} /\ MaxRetries \in Nat /\ MaxTurned \in Nat

VARIABLES
    requests,   \* requests_, the numbers of the requests that wait, the oldest first
    request,    \* what a request asks, NoRequest of a number that is free
    turned,     \* callers a full queue turned away, whose timer is pending
    reply,      \* the answer given in the last step
    stage,      \* running_ and what the planner waits for
    plan        \* the copy the worker was given, and what it proposes

plannerVars == <<requests, request, turned, reply, stage, plan>>
allVars == <<vars, plannerVars>>

Stages ==
    {"idle",        \* ~running_
     "timer",       \* the zero timer that calls startNext is pending
     "searching",   \* the worker computes or its result waits in the event loop
     "again",       \* within the slot of the result: startNext is called anew
     "checked"}     \* within the slot of the result: enterImpl comes next

\* No answer, busy, the result of enterImpl, and the errors of the planner itself.
Answers == {"none", "busy", "entered", "refused", "failed", "unstable"}

NoRequest == [plate |-> None, alive |-> FALSE, retries |-> 0]
NoPlan    == [spots |-> [s \in Spots |-> Free], required |-> {}, stale |-> FALSE, proposal |-> None]

RequestType == [plate : Plates \cup {None}, alive : BOOLEAN, retries : 0 .. MaxRetries]
PlanType == [spots : [Spots -> SpotType], required : SUBSET Spots, stale : BOOLEAN,
             proposal : Spots \cup {None}]

\* The main thread is in the middle of a slot.
Busy == stage \in {"again", "checked"}

First == request[Head(requests)]

\* Mutant of Wanted: the context of the request is not looked at.
WantedAlways == TRUE

\* Who asked is still there.
Wanted == First.alive

\* Mutant of Retried: searches are not counted.
RetriedUncounted(r) == r

MayRetry   == First.retries < MaxRetries
Retried(r) == [r EXCEPT !.retries = @ + 1]

-----------------------------------------------------------------------------
(***************************************************************************)
(* The search and the entry.                                               *)
(***************************************************************************)

\* The spot the request has to get: that of the due reservation of the plate, else
\* one held for it.  When there is none, any spot will do.
Required(w, t, p) ==
    IF Due(w, t, p) # {} THEN {w.resv[r].spot : r \in Due(w, t, p)}
    ELSE {s \in Spots : HeldBy(w.spots[s], p)}

\* SpotAllocator::propose on the copy.
Proposals(spots, required, p) ==
    {s \in Spots : /\ required # {} => s \in required
                   /\ spots[s].st = "Available" \/ HeldBy(spots[s], p)}

\* Mutant of Changed: only the configuration is compared.
ChangedConfig(c, spots) == c.stale

\* sameSpots, and the version of the configuration.
Changed(c, spots) == c.stale \/ c.spots # spots

\* checkInImpl with a prepared proposal s.
CheckInPrepared(w0, t, p, s, F) ==
    LET w == Sweep(w0, t, F)
        due == Due(w, t, p)
        r == CHOOSE r \in due : TRUE
        locked == CheckInLock(w, r, F)
    IN  IF due = {} THEN [ok |-> FALSE, w |-> w]
        ELSE IF s # w.resv[r].spot THEN [ok |-> FALSE, w |-> locked]
        ELSE CheckInSpot(locked, r, F)

\* Mutant of EnterPrepared: the prepared spot is occupied unseen.
EnterUnseen(w0, t, p, s, F) ==
    LET w == Sweep(Expire(w0, t, F), t, F)
    IN  IF w.active[p] # None \/ s = None THEN [ok |-> FALSE, w |-> w]
        ELSE [ok |-> TRUE, w |-> OccupyAndRecord(w, p, s, F)]

\* enterImpl with a prepared proposal s.
EnterPrepared(w0, t, p, s, F) ==
    LET arrival == CheckInPrepared(Expire(w0, t, F), t, p, s, F)
        w == arrival.w
        own == {x \in Spots : HeldBy(w.spots[x], p)}
        entered == OccupyAndRecord(w, p, s, F)
    IN  IF arrival.ok THEN arrival
        ELSE IF w.active[p] # None \/ s \notin Proposals(w.spots, own, p)
        THEN [ok |-> FALSE, w |-> w]
        ELSE [ok |-> entered.active[p] = s, w |-> entered]

-----------------------------------------------------------------------------
(***************************************************************************)
(* The slots of the main thread.                                           *)
(***************************************************************************)

PlannerInit ==
    /\ Init
    /\ requests = <<>>
    /\ request = [i \in Numbers |-> NoRequest]
    /\ turned = 0
    /\ reply = "none"
    /\ stage = "idle"
    /\ plan = NoPlan

\* Nobody is answered.
Silent == reply' = "none" /\ UNCHANGED turned

\* finish: the request leaves the queue, the next slot is scheduled, and who asked
\* is told unless it is gone.
Finish(answer) ==
    /\ requests' = Tail(requests)
    /\ stage' = "timer"
    /\ plan' = NoPlan
    /\ request' = [request EXCEPT ![Head(requests)] = NoRequest]
    /\ reply' = IF Wanted THEN answer ELSE "none"
    /\ UNCHANGED turned

\* startNext, for a request whose context lives.
Search ==
    /\ Housekeep
    /\ IF world'.active[First.plate] # None THEN Finish("refused")
       ELSE /\ stage' = "searching"
            /\ plan' = [NoPlan EXCEPT !.spots = world'.spots,
                                      !.required = Required(world', now, First.plate)]
            /\ Silent /\ UNCHANGED <<requests, request>>

Enqueue(p) ==
    \E i \in Numbers :
        /\ request[i] = NoRequest /\ \A j \in 1 .. i - 1 : request[j] # NoRequest
        /\ request' = [request EXCEPT ![i] = [plate |-> p, alive |-> TRUE, retries |-> 0]]
        /\ requests' = Append(requests, i)

\* Mutant of Woken: a request that finds the planner idle does not wake it.
WokenNot == stage

\* A request that comes when running_ is clear sets it, with the zero timer.
Woken == IF stage = "idle" THEN "timer" ELSE stage

\* submit, when the queue has room.
Submit(p) ==
    /\ up /\ ~Busy
    /\ Len(requests) < QueueLimit
    /\ Enqueue(p) /\ Silent
    /\ stage' = Woken
    /\ UNCHANGED <<vars, plan>>

\* submit, when it has none: the caller is told by a timer of its own,
TurnAway ==
    /\ up /\ ~Busy
    /\ Len(requests) >= QueueLimit
    /\ turned < MaxTurned
    /\ turned' = turned + 1
    /\ reply' = "none"
    /\ UNCHANGED <<vars, requests, request, stage, plan>>

\* which is cancelled when the caller is gone before it.
TellBusy(alive) ==
    /\ ~Busy
    /\ turned > 0
    /\ turned' = turned - 1
    /\ reply' = IF alive THEN "busy" ELSE "none"
    /\ UNCHANGED <<vars, requests, request, stage, plan>>

\* Who asked is destroyed, and the QPointer to it is null from then on.
DropContext(i) ==
    /\ ~Busy
    /\ request[i].alive
    /\ request' = [request EXCEPT ![i].alive = FALSE]
    /\ Silent
    /\ UNCHANGED <<vars, requests, stage, plan>>

\* setStrategy and setWeights; only a change during a search is noticed.
Configure ==
    /\ stage = "searching"
    /\ plan' = [plan EXCEPT !.stale = TRUE]
    /\ Silent
    /\ UNCHANGED <<vars, requests, request, stage>>

\* The zero timer: running_ is cleared and startNext called.
Rest ==
    /\ stage = "timer" /\ requests = <<>>
    /\ stage' = "idle"
    /\ Silent
    /\ UNCHANGED <<vars, requests, request, plan>>

Skip ==
    /\ stage \in {"timer", "searching"} /\ requests # <<>> /\ ~Wanted
    /\ Finish("none")
    /\ UNCHANGED vars

StartNext == stage = "timer" /\ requests # <<>> /\ Wanted /\ Search

SearchAgain == stage = "again" /\ Search

\* The result of the worker is delivered.  An exception ended the search:
SearchFails ==
    /\ stage = "searching" /\ Wanted
    /\ Finish("failed")
    /\ UNCHANGED vars

\* or there is a result, which holds only if nothing changed meanwhile.
Finished ==
    /\ stage = "searching" /\ Wanted
    /\ Housekeep
    /\ IF Changed(plan, world'.spots)
       THEN IF MayRetry
            THEN /\ request' = [request EXCEPT ![Head(requests)] = Retried(@)]
                 /\ stage' = "again"
                 /\ plan' = NoPlan
                 /\ Silent /\ UNCHANGED requests
            ELSE Finish("unstable")
       ELSE LET found == Proposals(plan.spots, plan.required, First.plate)
            IN  /\ stage' = "checked"
                /\ \E s \in IF found = {} THEN {None} ELSE found : plan' = [plan EXCEPT !.proposal = s]
                /\ Silent /\ UNCHANGED <<requests, request>>

Commit ==
    /\ stage = "checked"
    /\ \E F \in Failing(SweepWrites \cup {"expire", "checkinLock", "checkin", "entry"}) :
         LET entry == EnterPrepared(world, now, First.plate, plan.proposal, F)
         IN  /\ Fault(F)
             /\ Become(entry.w)
             /\ Finish(IF entry.ok THEN "entered" ELSE "refused")

\* The process goes with its queue; the answers that wait are never given.
Stop ==
    /\ Crash
    /\ requests' = <<>>
    /\ request' = [i \in Numbers |-> NoRequest]
    /\ turned' = 0
    /\ reply' = "none"
    /\ stage' = "idle"
    /\ plan' = NoPlan

\* Calls that are not the planner's, and start-up.
Elsewhere ==
    /\ ~Busy
    /\ Calls \/ Restart \/ RestartFails
    /\ Silent
    /\ UNCHANGED <<requests, request, stage, plan>>

PlannerNext ==
    \/ \E p \in Plates : Submit(p)
    \/ TurnAway
    \/ \E alive \in BOOLEAN : TellBusy(alive)
    \/ \E i \in Numbers : DropContext(i)
    \/ Configure
    \/ Rest
    \/ Skip
    \/ StartNext
    \/ SearchAgain
    \/ SearchFails
    \/ Finished
    \/ Commit
    \/ Stop
    \/ Elsewhere

\* The event loop fires its timers and delivers the result of a worker that ended.
PlannerSpec ==
    /\ PlannerInit
    /\ [][PlannerNext]_allVars
    /\ WF_allVars(Rest)
    /\ WF_allVars(Skip \/ StartNext)
    /\ WF_allVars(Skip \/ SearchFails \/ Finished)
    /\ WF_allVars(SearchAgain)
    /\ WF_allVars(Commit)

-----------------------------------------------------------------------------
(***************************************************************************)
(* Properties.                                                             *)
(***************************************************************************)

\* Every variable stays in its type; the queue holds its limit at most.
PlannerTypeOK ==
    /\ requests \in Seq(Numbers) /\ Len(requests) <= QueueLimit
    /\ request \in [Numbers -> RequestType]
    /\ turned \in 0 .. MaxTurned
    /\ reply \in Answers
    /\ stage \in Stages
    /\ plan \in PlanType

\* No request is forgotten: those that were not answered are in the queue, each
\* once, and while there is one the planner has something to wake it, a timer or a
\* worker, whatever finish, submit and startNext did to running_.
NobodyStranded ==
    /\ PlannerTypeOK
    /\ IsInjective(requests)
    /\ ToSet(requests) = {i \in Numbers : request[i] # NoRequest}
    /\ requests # <<>> => stage # "idle"

\* The planner lets a car in only for a request whose context still lives, on the
\* spot it proposed, and then says so; a request is told it entered only if it did
\* (docs/background-planning.md: no callback and no entry once the context is gone).
EntersForWhoAsks ==
    [][/\ \A p \in Plates :
            Busy /\ up' /\ world'.active[p] # world.active[p] =>
                /\ p = First.plate /\ First.alive
                /\ world.active[p] = None /\ world'.active[p] = plan.proposal
                /\ reply' = "entered"
       /\ reply' = "entered" =>
            /\ world.active[First.plate] = None
            /\ world'.active[First.plate] # None]_allVars

\* A request is refused, while no write fails, only if the car is inside or the
\* spots as they are at the answer offer none of those it may get: a spot taken or
\* given back during the search never makes the answer wrong (sameSpots, the
\* retries).  What it may get is decided before the search: a reservation cancelled
\* during it is not noticed when no spot changes with it.
RefusedForAReason ==
    [][reply' = "refused" /\ faults' = 0 =>
            \/ world.active[First.plate] # None
            \/ Proposals(world'.spots, plan.required, First.plate) = {}]_allVars

\* What the planner does to the service is what its other calls do: it enters the car of
\* the request as enter does, at one moment, or leaves the spots as the housekeeping
\* does, or does nothing, although the spot was chosen in an old copy of the spots.  The
\* exception: a reservation that came up, or ended, during the search and changed no spot
\* (its lock could not be written) meets an entry in which writes fail again.
Tidied ==
    \E F \in Failing(SweepWrites \cup {"expire"}) : world' = Sweep(Expire(world, now, F), now, F)

EntersAtomically ==
    [][<<requests, stage, plan>>' # <<requests, stage, plan>> =>
            \/ UNCHANGED world
            \/ Tidied
            \/ Crash
            \/ Enter(First.plate)
            \/ /\ faults' > faults
               /\ plan.required # Required(world, now, First.plate)]_allVars

\* Every request in the queue gets its answer, unless who asked is gone: the queue
\* moves on after every outcome, whatever is submitted behind the request, and spots
\* that keep changing end in an answer too.
EverybodyAnswered == \A i \in Numbers : request[i].alive ~> ~request[i].alive
=============================================================================
