----------------------------- MODULE GateReplay -----------------------------
(***************************************************************************)
(* The offline path of the gate terminals: a gate that cannot reach the    *)
(* server lets vehicles through on its own, appends an event for each to a *)
(* file (OfflineQueue) and reports the file in batches (gate.replay) when  *)
(* it is connected again; the server applies each event at its original    *)
(* time unless it already has, and the gate takes off the file what the    *)
(* server gave a verdict on.                                               *)
(*                                                                         *)
(* What makes it hard: a batch may be applied and its answer lost, so it   *)
(* is sent again; the gate may stop at any point and start from its file;  *)
(* a request waits in a nested event loop, in which the reconnect timer    *)
(* can start a second replay of the same lines while the one begun at      *)
(* start-up is under way; an append may fail half way.                     *)
(*                                                                         *)
(* Abstracted: JSON, vehicle types, fees, spots (the lot has a capacity),  *)
(* the 30-day window, and the path of a gate that is online.  Login is     *)
(* part of connecting.  A time stamp is the number of an event: a gate     *)
(* never records two events in the same millisecond.                       *)
(***************************************************************************)
EXTENDS Naturals, Sequences, SequencesExt

CONSTANTS
    Gates,       \* the gate terminals, each with its own queue file
    Kind,        \* Kind[g]: "enter" at an entrance, "exit" at an exit
    Plates,      \* number plates
    Capacity,    \* spots of the lot
    BatchLimit,  \* events per gate.replay (limit of OfflineQueue::pending)
    MaxEvents,   \* bound of the model: events ever recorded
    MaxFaults,   \* bound of the model: drops, stops, late answers, failed rewrites
    MaxTorn      \* bound of the model: appends that fail half way

ASSUME KindAssumption == Kind \in [Gates -> {"enter", "exit"}]
ASSUME LimitAssumption == Capacity \in Nat /\ BatchLimit \in Nat \ {0}
ASSUME BoundAssumption == MaxEvents \in Nat /\ MaxFaults \in Nat /\ MaxTorn \in Nat

VARIABLES
    clock,     \* time stamp of the next event
    records,   \* server: the parking records, out = 0 while the vehicle is in
    queue,     \* gate: the lines of the queue file
    cached,    \* gate: cachedCount_
    running,   \* gate: the process runs
    online,    \* gate: connected and authenticated
    awaiting,  \* gate: lines submitted by each replay under way, 0 when none is
    wire,      \* requests on the way to the server
    answers,   \* replays whose answer arrived (responses_)
    released,  \* history: the events a barrier was opened for
    judged,    \* history: the events the server gave a verdict on
    faults,    \* failures so far
    torn       \* appends that failed half way so far

serverVars == <<records, judged>>
fileVars   == <<queue, cached>>
linkVars   == <<online, awaiting, wire, answers>>
vars == <<clock, records, queue, cached, running, online, awaiting, wire, answers,
          released, judged, faults, torn>>

\* A replay is begun by start, before the event loop of the program runs, or by the
\* slot of the reconnect timer, which Qt does not enter again while it is busy.
Callers == {"start", "timer"}

Events == [kind : {"enter", "exit"}, plate : Plates, ts : 1 .. MaxEvents]
Lines  == [event : Events, is : {"good", "bad", "torn"}]

-----------------------------------------------------------------------------
(***************************************************************************)
(* The server: SmartParkTcpServer::actionGateReplay.                       *)
(***************************************************************************)
Inside(recs)       == {i \in DOMAIN recs : recs[i].out = 0}
Active(recs, p)    == {i \in Inside(recs) : recs[i].plate = p}

\* Mutant of SameRecord: only the records of vehicles on the site are searched.
SameRecordOpen(recs, e) ==
    {i \in Inside(recs) : recs[i].plate = e.plate /\ e.kind = "enter" /\ e.ts = recs[i].in}

\* The record an event was applied to already, by plate, kind and time stamp.
SameRecord(recs, e) ==
    {i \in DOMAIN recs : /\ recs[i].plate = e.plate
                         /\ e.ts = IF e.kind = "enter" THEN recs[i].in ELSE recs[i].out}

\* ParkingService::enter and leave at the time of the event.  An event that cannot
\* be applied (already in, lot full, not in, earlier than the entry) is skipped.
Apply(recs, e) ==
    CASE SameRecord(recs, e) # {} -> recs
      [] SameRecord(recs, e) = {} /\ e.kind = "enter" ->
           IF Active(recs, e.plate) = {} /\ Len(SelectSeq(recs, LAMBDA x : x.out = 0)) < Capacity
           THEN Append(recs, [plate |-> e.plate, in |-> e.ts, out |-> 0])
           ELSE recs
      [] OTHER ->
           [i \in DOMAIN recs |->
              IF i \in Active(recs, e.plate) /\ recs[i].in <= e.ts
              THEN [recs[i] EXCEPT !.out = e.ts] ELSE recs[i]]

\* The records after each event of a batch.
Replayed(recs, batch) ==
    LET after[i \in 0 .. Len(batch)] ==
            IF i = 0 THEN recs ELSE Apply(after[i - 1], batch[i])
    IN  after

Replay(recs, batch) == Replayed(recs, batch)[Len(batch)]

-----------------------------------------------------------------------------
(***************************************************************************)
(* The queue file.                                                         *)
(***************************************************************************)

\* A line appended to a file that ends in the middle of one becomes part of it, and
\* the result parses as no event.
Appended(q, e) ==
    IF q # <<>> /\ Last(q).is = "torn"
    THEN Append(Front(q), [event |-> e, is |-> "bad"])
    ELSE Append(q, [event |-> e, is |-> "good"])

Broken(q, e) ==
    IF q # <<>> /\ Last(q).is = "torn" THEN q ELSE Append(q, [event |-> e, is |-> "torn"])

\* Mutant of Pending: the batch begins with the second line.
PendingFromSecond(q) ==
    LET head == SubSeq(q, 2, IF Len(q) < BatchLimit THEN Len(q) ELSE BatchLimit)
    IN  IF \A i \in DOMAIN head : head[i].is = "good"
        THEN [i \in DOMAIN head |-> head[i].event] ELSE <<>>

\* OfflineQueue::pending: the first lines, none when one of them is no event.
Pending(q) ==
    LET head == SubSeq(q, 1, IF Len(q) < BatchLimit THEN Len(q) ELSE BatchLimit)
    IN  IF \A i \in DOMAIN head : head[i].is = "good"
        THEN [i \in DOMAIN head |-> head[i].event] ELSE <<>>

\* Mutant of Rest: one line more is taken off.
RestShort(q, n) ==
    [i \in 1 .. Len(q) - n - 1 |->
        IF q[n + i + 1].is = "torn" THEN [q[n + i + 1] EXCEPT !.is = "bad"] ELSE q[n + i + 1]]

\* OfflineQueue::acknowledge writes what is left line by line.
Rest(q, n) ==
    [i \in 1 .. Len(q) - n |->
        IF q[n + i].is = "torn" THEN [q[n + i] EXCEPT !.is = "bad"] ELSE q[n + i]]

-----------------------------------------------------------------------------
Fault == faults < MaxFaults /\ faults' = faults + 1

Init ==
    /\ clock = 1
    /\ records = <<>>
    /\ queue = [g \in Gates |-> <<>>]
    /\ cached = [g \in Gates |-> 0]
    /\ running = [g \in Gates |-> TRUE]
    /\ online = [g \in Gates |-> FALSE]
    /\ awaiting = [g \in Gates |-> [c \in Callers |-> 0]]
    /\ wire = [g \in Gates |-> <<>>]
    /\ answers = [g \in Gates |-> {}]
    /\ released = {} /\ judged = {}
    /\ faults = 0 /\ torn = 0

\* The terminal reads plates once start has returned from its replay.
Operated(g) == running[g] /\ awaiting[g]["start"] = 0

\* recordOffline: the barrier opens only when the event is on file.
RecordOffline(g, p) ==
    LET e == [kind |-> Kind[g], plate |-> p, ts |-> clock] IN
    /\ Operated(g) /\ ~online[g]
    /\ clock <= MaxEvents
    /\ clock' = clock + 1
    /\ queue' = [queue EXCEPT ![g] = Appended(@, e)]
    /\ cached' = [cached EXCEPT ![g] = @ + 1]
    /\ released' = released \cup {<<g, e>>}
    /\ UNCHANGED <<serverVars, linkVars, running, faults, torn>>

\* An append that fails (the disk is full) may have written part of its line.
AppendFails(g, p) ==
    LET e == [kind |-> Kind[g], plate |-> p, ts |-> clock] IN
    /\ Operated(g) /\ ~online[g]
    /\ clock <= MaxEvents /\ torn < MaxTorn
    /\ torn' = torn + 1
    /\ queue' = [queue EXCEPT ![g] = Broken(@, e)]
    /\ UNCHANGED <<clock, cached, serverVars, linkVars, running, released, faults>>

\* flushQueue up to the wait for the answer, on the connection the gate now has.
Submit(g, c, count) ==
    LET batch == Pending(queue[g]) IN
    IF count = 0 \/ batch = <<>>
    THEN UNCHANGED <<awaiting, wire>>
    ELSE /\ awaiting' = [awaiting EXCEPT ![g][c] = Len(batch)]
         /\ wire' = [wire EXCEPT ![g] = Append(@, [to |-> c, batch |-> batch])]

\* The slot of reconnectTimer_: tryConnect when there is no connection, then
\* flushQueue.  It also runs inside the wait of a replay begun by start.
ReconnectTimer(g) ==
    /\ running[g] /\ awaiting[g]["timer"] = 0
    /\ online' = [online EXCEPT ![g] = TRUE]
    /\ Submit(g, "timer", cached[g])
    /\ UNCHANGED <<clock, serverVars, fileVars, running, answers, released, faults, torn>>

\* Mutant of Start: the lines of the file are not counted.
StartUncounted(g) ==
    /\ ~running[g]
    /\ running' = [running EXCEPT ![g] = TRUE]
    /\ cached' = [cached EXCEPT ![g] = 0]
    /\ online' = [online EXCEPT ![g] = TRUE]
    /\ UNCHANGED <<clock, serverVars, queue, awaiting, wire, answers, released, faults, torn>>

\* The process starts: the lines of the file are counted; start tries to connect
\* and, when it succeeds, replays.
Start(g) ==
    /\ ~running[g]
    /\ running' = [running EXCEPT ![g] = TRUE]
    /\ cached' = [cached EXCEPT ![g] = Len(queue[g])]
    /\ \/ UNCHANGED <<online, awaiting, wire>>
       \/ /\ online' = [online EXCEPT ![g] = TRUE]
          /\ Submit(g, "start", Len(queue[g]))
    /\ UNCHANGED <<clock, serverVars, queue, answers, released, faults, torn>>

\* The server handles the next request of a connection, in one go.
Serve(g) ==
    /\ wire[g] # <<>>
    /\ LET request == Head(wire[g]) IN
         /\ records' = Replay(records, request.batch)
         /\ judged' = judged \cup {<<g, request.batch[i]>> : i \in DOMAIN request.batch}
         /\ answers' = [answers EXCEPT ![g] = @ \cup ({request.to} \cap Callers)]
    /\ wire' = [wire EXCEPT ![g] = Tail(@)]
    /\ UNCHANGED <<clock, fileVars, running, online, awaiting, released, faults, torn>>

\* The wait of the innermost replay is the one that ends first.
Innermost(g, c) == c = "start" => awaiting[g]["timer"] = 0

\* flushQueue from the answer on: every line submitted has a verdict, skipped ones
\* too, and is taken off if the count and the file say that many lines are left.
Acknowledge(g, c) ==
    /\ c \in answers[g] /\ Innermost(g, c)
    /\ LET n == awaiting[g][c] IN
         IF n <= cached[g] /\ n <= Len(queue[g])
         THEN /\ queue' = [queue EXCEPT ![g] = Rest(@, n)]
              /\ cached' = [cached EXCEPT ![g] = @ - n]
         ELSE UNCHANGED fileVars
    /\ answers' = [answers EXCEPT ![g] = @ \ {c}]
    /\ awaiting' = [awaiting EXCEPT ![g][c] = 0]
    /\ UNCHANGED <<clock, serverVars, running, online, wire, released, faults, torn>>

\* The file cannot be rewritten: it stays as it was.
AcknowledgeFails(g, c) ==
    /\ c \in answers[g] /\ Innermost(g, c)
    /\ Fault
    /\ answers' = [answers EXCEPT ![g] = @ \ {c}]
    /\ awaiting' = [awaiting EXCEPT ![g][c] = 0]
    /\ UNCHANGED <<clock, serverVars, fileVars, running, online, wire, released, torn>>

Expected(g, c) == c \in answers[g] \/ \E i \in DOMAIN wire[g] : wire[g][i].to = c

\* TcpClient::request gives up after its timeout.  An answer that comes later finds
\* nobody waiting for it.
TimeOut(g, c) ==
    /\ awaiting[g][c] > 0 /\ Innermost(g, c)
    /\ IF Expected(g, c) THEN Fault ELSE UNCHANGED faults
    /\ awaiting' = [awaiting EXCEPT ![g][c] = 0]
    /\ wire' = [wire EXCEPT ![g] = [i \in DOMAIN @ |->
                  IF @[i].to = c THEN [@[i] EXCEPT !.to = "nobody"] ELSE @[i]]]
    /\ answers' = [answers EXCEPT ![g] = @ \ {c}]
    /\ UNCHANGED <<clock, serverVars, fileVars, running, online, released, torn>>

\* The connection breaks: what was on the way, and what arrived, is gone.
Drop(g) ==
    /\ online[g]
    /\ Fault
    /\ online' = [online EXCEPT ![g] = FALSE]
    /\ wire' = [wire EXCEPT ![g] = <<>>]
    /\ answers' = [answers EXCEPT ![g] = {}]
    /\ UNCHANGED <<clock, serverVars, fileVars, running, awaiting, released, torn>>

\* The terminal stops; its file stays.
Stop(g) ==
    /\ running[g]
    /\ Fault
    /\ running' = [running EXCEPT ![g] = FALSE]
    /\ online' = [online EXCEPT ![g] = FALSE]
    /\ cached' = [cached EXCEPT ![g] = 0]
    /\ awaiting' = [awaiting EXCEPT ![g] = [c \in Callers |-> 0]]
    /\ wire' = [wire EXCEPT ![g] = <<>>]
    /\ answers' = [answers EXCEPT ![g] = {}]
    /\ UNCHANGED <<clock, serverVars, queue, released, torn>>

Next ==
    \E g \in Gates :
        \/ \E p \in Plates : RecordOffline(g, p) \/ AppendFails(g, p)
        \/ ReconnectTimer(g) \/ Start(g) \/ Serve(g) \/ Drop(g) \/ Stop(g)
        \/ \E c \in Callers : Acknowledge(g, c) \/ AcknowledgeFails(g, c) \/ TimeOut(g, c)

Spec == Init /\ [][Next]_vars

\* The timer fires every 5 s and the server is reachable in the end, since a
\* connection breaks a bounded number of times; requests are served and waits end;
\* a terminal that stopped is started again.
Fairness ==
    \A g \in Gates :
        /\ WF_vars(ReconnectTimer(g)) /\ WF_vars(Start(g)) /\ WF_vars(Serve(g))
        /\ \A c \in Callers : WF_vars(Acknowledge(g, c)) /\ WF_vars(TimeOut(g, c))

FairSpec == Spec /\ Fairness

-----------------------------------------------------------------------------
(***************************************************************************)
(* Properties.                                                             *)
(***************************************************************************)

\* Every variable stays in its type.
TypeOK ==
    /\ clock \in 1 .. MaxEvents + 1
    /\ \A i \in DOMAIN records :
         records[i] \in [plate : Plates, in : 1 .. MaxEvents, out : 0 .. MaxEvents]
    /\ \A g \in Gates : /\ Len(queue[g]) <= MaxEvents + MaxTorn
                        /\ \A i \in DOMAIN queue[g] : queue[g][i] \in Lines
                        /\ cached[g] \in 0 .. MaxEvents + MaxTorn
                        /\ \A c \in Callers : awaiting[g][c] \in 0 .. BatchLimit
                        /\ answers[g] \subseteq {c \in Callers : awaiting[g][c] > 0}
    /\ running \in [Gates -> BOOLEAN] /\ online \in [Gates -> BOOLEAN]
    /\ released \subseteq Gates \X Events /\ judged \subseteq Gates \X Events

\* An event takes effect at most once, however often it is sent: no entry makes two
\* records, no exit closes two (docs, "重连后补报且不重复").
AppliedOnce ==
    \A i, j \in DOMAIN records :
        i # j => /\ <<records[i].plate, records[i].in>> # <<records[j].plate, records[j].in>>
                 /\ records[i].out # 0 =>
                      <<records[i].plate, records[i].out>> # <<records[j].plate, records[j].out>>

\* A vehicle that was let through stays on file until the server gave a verdict on it:
\* a lost answer, a restart or a failed rewrite takes off nothing but a judged prefix
\* (docs/tcp-protocol.md, "Gate 只移除「已获结论的前缀」").
NothingDropped ==
    /\ TypeOK
    /\ \A x \in released :
           x \in judged \/ \E i \in DOMAIN queue[x[1]] : queue[x[1]][i].event = x[2]

\* The server gives its verdicts in the order the gate recorded the events: an event
\* has one only when all earlier events of the gate have.
JudgedInOrder ==
    \A x \in judged, y \in released :
        x[1] = y[1] /\ y[2].ts < x[2].ts => y \in judged

\* Two replays of a gate, that of its start and that of the reconnect timer, never wait at
\* the same time while two full batches are on file: the second acknowledgement would take
\* off lines that were never sent.
ShortWhenTwoWait ==
    \A g \in Gates :
        awaiting[g]["start"] > 0 /\ awaiting[g]["timer"] > 0 => cached[g] < 2 * BatchLimit

\* Everything on file is reported and taken off in the end, unless a line of it cannot
\* be read: an event the server can only skip does not block those behind it, and a
\* restart forgets no line.
Drained ==
    \A g \in Gates :
        <>[](queue[g] = <<>> \/ \E i \in DOMAIN queue[g] : queue[g][i].is # "good")

\* A line that can be read leaves the file only when its event has a verdict; the rest is
\* kept and sent again (docs/tcp-protocol.md:92-95).  Like NothingDropped it is true as long
\* as ShortWhenTwoWait is.
OnlyJudgedLeaves ==
    [][\A g \in Gates : \A i \in DOMAIN queue[g] :
         queue[g][i].is = "good" =>
            \/ <<g, queue[g][i].event>> \in judged
            \/ \E k \in DOMAIN queue'[g] : queue'[g][k].event = queue[g][i].event]_vars
=============================================================================
