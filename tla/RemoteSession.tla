--------------------------- MODULE RemoteSession ---------------------------
(***************************************************************************)
(* The remote administration client and the TCP server: the session of the *)
(* client (network/ServerSession.cpp) with its reconnection, heartbeats    *)
(* and pending requests, the snapshot it shows (RemoteDataSource), and the *)
(* sessions of the server with their asynchronous answers, events and idle *)
(* limit (network/SmartParkTcpServer.cpp).  Links lose frames silently,    *)
(* break, or are closed by either side.                                    *)
(*                                                                         *)
(* Abstracted: time (timers fire in any order; what only a slow peer or    *)
(* network brings about counts as a fault), the growing delay between      *)
(* attempts, frames and payloads (a request is a name), the heartbeat      *)
(* frames, which travel apart from the others.  The state of the lot is    *)
(* the number of changes made to it.                                       *)
(***************************************************************************)
EXTENDS Integers, Sequences

CONSTANTS
    Requests,    \* requests of the user interface that change the lot
    Links,       \* connections that may exist at a time
    MaxChanges,  \* bound on the changes made by other clients
    MaxStarts,   \* bound on the calls of start
    MaxFaults,   \* bound on the faults of the network or of a peer
    None         \* no link

ASSUME SessionAssumption ==
    /\ MaxChanges \in Nat /\ MaxStarts \in Nat /\ MaxFaults \in Nat
    /\ {None, "idle", "nobody"} \intersect Links = {}

VARIABLES
    me,        \* the ServerSession and the snapshot shown, see ClientType
    told,      \* what the callback of a request was told
    calls,     \* how often it ran
    alive,     \* the links that carry frames
    toServer,  \* frames on their way, by link
    toClient,
    session,   \* sessions_ of the server: none, open or authenticated
    working,   \* where a request the server answers later is answered: a link, or
               \* "nobody"; "idle" if it is not being worked on
    version,   \* the state of the lot
    applied,   \* how often a request changed it
    others,    \* changes made by other clients
    good,      \* the password last given to start is right
    starts, faults

server == <<session, working, version, applied, others>>
network == <<alive, toServer, toClient>>
vars == <<me, told, calls, network, server, good, starts, faults>>

ClientType ==
    [state : {"Disconnected", "Connecting", "LoggingIn", "Online"},
     sock : {"closed", "opening", "open"}, link : Links \union {None},
     stopped : BOOLEAN,               \* intentionalStop_
     armed : BOOLEAN,                 \* reconnectTimer_ runs
     beating : BOOLEAN,               \* heartbeatTimer_ runs
     missed : Nat,                    \* missedHeartbeats_
     token : Links \union {None},     \* token_, named after the session that gave it
     login : BOOLEAN,                 \* pending_ holds the login,
     pending : SUBSET Requests,       \* these requests of the user interface,
     looks : Nat,                     \* and so many of admin.snapshot
     unacked : BOOLEAN,               \* something written will never be acknowledged
     shown : Nat]                     \* the state of the lot in the last snapshot

NoSession ==
    [state |-> "Disconnected", sock |-> "closed", link |-> None, stopped |-> TRUE,
     armed |-> FALSE, beating |-> FALSE, missed |-> 0, token |-> None, login |-> FALSE,
     pending |-> {}, looks |-> 0, unacked |-> FALSE, shown |-> 0]

Init ==
    /\ me = NoSession
    /\ told = [r \in Requests |-> "nothing"]
    /\ calls = [r \in Requests |-> 0]
    /\ alive = {}
    /\ toServer = [l \in Links |-> <<>>]
    /\ toClient = [l \in Links |-> <<>>]
    /\ session = [l \in Links |-> "none"]
    /\ working = [r \in Requests |-> "idle"]
    /\ version = 0
    /\ applied = [r \in Requests |-> 0]
    /\ good = TRUE
    /\ others = 0 /\ starts = 0 /\ faults = 0

Fault == faults < MaxFaults /\ faults' = faults + 1

\* Callbacks of R run with an outcome.
Tell(R, outcome) ==
    /\ told' = [r \in Requests |-> IF r \in R THEN outcome ELSE told[r]]
    /\ calls' = [r \in Requests |-> IF r \in R THEN calls[r] + 1 ELSE calls[r]]

\* A frame is written to a link; one that carries nothing swallows it.
Written(queue, l, frame) == IF l \in alive THEN [queue EXCEPT ![l] = Append(@, frame)] ELSE queue

-----------------------------------------------------------------------------
(***************************************************************************)
(* ServerSession.                                                          *)
(***************************************************************************)

\* establishConnection: connectToHost does nothing unless the socket is closed.
Established(m) ==
    [m EXCEPT !.token = None, !.missed = 0, !.state = "Connecting",
              !.sock = IF @ = "closed" THEN "opening" ELSE @]

\* Mutant of Reacts: a connection that is refused is not noticed.
ReactsToLoss(m) == ~m.stopped /\ m.state \in {"LoggingIn", "Online"}

\* The handler of stateChanged takes notice of a socket that is closed.
Reacts(m) == ~m.stopped /\ m.state # "Disconnected"

\* Mutant of Forgotten: only the login is forgotten.
ForgottenLogin(m) == [m EXCEPT !.login = FALSE]

\* failPending: nothing is pending any more.
Forgotten(m) == [m EXCEPT !.login = FALSE, !.pending = {}, !.looks = 0]

\* The socket is closed, whoever did it: onSocketDisconnected fails what is pending
\* and arms the timer.
Closed(m) ==
    LET n == [m EXCEPT !.sock = "closed", !.link = None, !.unacked = FALSE] IN
    IF Reacts(m)
    THEN [Forgotten(n) EXCEPT !.token = None, !.beating = FALSE, !.state = "Disconnected",
                              !.armed = TRUE]
    ELSE n

\* The client goes from me to m; the callbacks of what is no longer pending run.
Lose(m) == me' = m /\ Tell(me.pending \ m.pending, "lost")

\* The client closes its socket (abort): the server hears of it if the link works, and
\* may not read any more what was on its way.
HangUp ==
    /\ alive' = alive \ {me.link}
    /\ IF me.link \in alive
       THEN \E rest \in {toServer[me.link], <<>>} :
                toServer' = [toServer EXCEPT ![me.link] = Append(rest, <<"fin">>)]
       ELSE UNCHANGED toServer
    /\ toClient' = [l \in Links |-> IF l = me.link THEN <<>> ELSE toClient[l]]

\* start, at any time: a wrong password can be corrected, a session begun anew.
Start ==
    /\ starts < MaxStarts
    /\ starts' = starts + 1
    /\ good' \in BOOLEAN
    /\ me' = Established([me EXCEPT !.stopped = FALSE])
    /\ UNCHANGED <<told, calls, network, server, faults>>

Stop ==
    /\ me # [NoSession EXCEPT !.shown = me.shown]
    /\ Lose([NoSession EXCEPT !.shown = me.shown])
    /\ HangUp
    /\ UNCHANGED <<server, good, starts, faults>>

\* The reconnect timer fires.
Reconnect ==
    /\ me.armed
    /\ me' = IF me.stopped THEN [me EXCEPT !.armed = FALSE]
             ELSE Established([me EXCEPT !.armed = FALSE])
    /\ UNCHANGED <<told, calls, network, server, good, starts, faults>>

\* The socket is connected: onNewConnection on the one side, authenticate on the other.
Connect ==
    /\ me.sock = "opening"
    /\ \E l \in Links :
           /\ session[l] = "none"
           /\ me' = [me EXCEPT !.sock = "open", !.link = l, !.state = "LoggingIn",
                               !.login = TRUE]
           /\ alive' = alive \union {l}
           /\ toServer' = [toServer EXCEPT ![l] = << <<"login", good>> >>]
           /\ session' = [session EXCEPT ![l] = "open"]
    /\ UNCHANGED <<told, calls, toClient, working, version, applied, others, good, starts, faults>>

\* Nobody listens.
Refused ==
    /\ me.sock = "opening"
    /\ Fault
    /\ Lose(Closed(me))
    /\ UNCHANGED <<network, server, good, starts>>

\* request, called by the user interface.
Ready == me.state = "Online" /\ me.sock = "open"

Swallowed == me.unacked \/ me.link \notin alive

Request(r) ==
    /\ told[r] = "nothing" /\ r \notin me.pending
    /\ IF Ready
       THEN /\ me' = [me EXCEPT !.pending = @ \union {r}, !.unacked = Swallowed]
            /\ toServer' = Written(toServer, me.link, <<"ask", r, me.token>>)
            /\ UNCHANGED <<told, calls>>
       ELSE Tell({r}, "offline") /\ UNCHANGED <<me, toServer>>
    /\ UNCHANGED <<alive, toClient, server, good, starts, faults>>

\* The heartbeat timer: two beats were not answered when the third is due.
WatchdogAborts == me.beating /\ me.state = "Online" /\ me.missed = 2

Watchdog ==
    /\ WatchdogAborts
    /\ me.link \notin alive
    /\ Lose(Closed([me EXCEPT !.missed = 0]))
    /\ HangUp
    /\ UNCHANGED <<server, good, starts, faults>>

\* The same on a link that works, because the answers are late.
LateBeats ==
    /\ WatchdogAborts
    /\ me.link \in alive
    /\ Fault
    /\ Lose(Closed([me EXCEPT !.missed = 0]))
    /\ HangUp
    /\ UNCHANGED <<server, good, starts>>

Heartbeat ==
    /\ me.beating /\ me.state = "Online" /\ me.missed < 2
    /\ me' = [me EXCEPT !.missed = @ + 1, !.unacked = Swallowed]
    /\ UNCHANGED <<told, calls, network, server, good, starts, faults>>

BeatAnswered ==
    /\ me.missed > 0 /\ me.link \in alive
    /\ session[me.link] = "authenticated"
    /\ me' = [me EXCEPT !.missed = 0]
    /\ UNCHANGED <<told, calls, network, server, good, starts, faults>>

\* The operating system gives up on what is not acknowledged.
TransportFails ==
    /\ me.sock = "open" /\ me.unacked
    /\ Lose(Closed(me))
    /\ HangUp
    /\ UNCHANGED <<server, good, starts, faults>>

\* RemoteDataSource::requestSnapshot, when the session goes on line and at each event.
Look(m) == [m EXCEPT !.looks = @ + 1, !.unacked = Swallowed]

\* The pending request with the id of an answer.
Matched(r) == me.pending \intersect {r}

\* onReadyRead, a frame.
Receive ==
    /\ me.sock = "open" /\ toClient[me.link] # <<>>
    /\ LET frame == Head(toClient[me.link]) IN
       /\ toClient' = [toClient EXCEPT ![me.link] = Tail(@)]
       /\ \/ /\ frame[1] = "welcome"
             /\ IF me.login
                THEN /\ me' = Look([me EXCEPT !.login = FALSE, !.token = me.link,
                                              !.missed = 0, !.state = "Online",
                                              !.beating = TRUE])
                     /\ toServer' = Written(toServer, me.link, <<"look", me.link>>)
                ELSE UNCHANGED <<me, toServer>>
             /\ UNCHANGED <<told, calls>>
          \/ /\ frame[1] = "rejected"
             /\ me' = IF me.login
                      THEN [me EXCEPT !.login = FALSE, !.token = None, !.beating = FALSE,
                                      !.state = "Disconnected", !.stopped = TRUE]
                      ELSE me
             /\ UNCHANGED <<told, calls, toServer>>
          \/ /\ frame[1] = "answer"
             /\ me' = [me EXCEPT !.pending = @ \ Matched(frame[2])]
             /\ Tell(Matched(frame[2]), frame[3])
             /\ UNCHANGED toServer
          \/ /\ frame[1] = "lot"
             /\ me' = IF me.looks > 0 THEN [me EXCEPT !.looks = @ - 1, !.shown = frame[2]] ELSE me
             /\ UNCHANGED <<told, calls, toServer>>
          \/ /\ frame[1] = "event"
             /\ IF Ready
                THEN /\ me' = Look(me)
                     /\ toServer' = Written(toServer, me.link, <<"look", me.token>>)
                ELSE UNCHANGED <<me, toServer>>
             /\ UNCHANGED <<told, calls>>
          \/ /\ frame[1] = "fin"
             /\ Lose(Closed(me))
             /\ UNCHANGED toServer
    /\ UNCHANGED <<alive, server, good, starts, faults>>

-----------------------------------------------------------------------------
(***************************************************************************)
(* SmartParkTcpServer.                                                     *)
(***************************************************************************)

\* The session of a link ends (onDisconnected); what is being worked on goes on, but
\* is answered to nobody.
End(l) ==
    /\ session' = [session EXCEPT ![l] = "none"]
    /\ working' = [r \in Requests |-> IF working[r] = l THEN "nobody" ELSE working[r]]
    /\ UNCHANGED <<version, applied, others>>

\* Frames for the client, after the event that all authenticated sessions get if the
\* lot has changed (broadcastEvent, sendToSessions).
Told(l, frames, changed) ==
    [k \in Links |->
        toClient[k] \o (IF changed /\ session[k] = "authenticated" /\ k \in alive
                        THEN << <<"event">> >> ELSE <<>>)
                    \o (IF k = l /\ k \in alive THEN frames ELSE <<>>)]

\* A request is carried out, or refused by the service, and answered.
Act(r, l) ==
    \/ /\ version' = version + 1
       /\ applied' = [applied EXCEPT ![r] = @ + 1]
       /\ toClient' = Told(l, << <<"answer", r, "ok">> >>, TRUE)
    \/ /\ UNCHANGED <<version, applied>>
       /\ toClient' = Told(l, << <<"answer", r, "no">> >>, FALSE)

\* handleMessage: the session is authenticated and the token its own.
Admitted(l, frame) == session[l] = "authenticated" /\ frame[Len(frame)] = l

\* actionLogin.  A connection is used for one login, so the limit on failed ones is not
\* reached.
Login(l, right) ==
    /\ session' = [session EXCEPT ![l] = IF right THEN "authenticated" ELSE @]
    /\ toClient' = Told(l, << <<IF right THEN "welcome" ELSE "rejected">> >>, FALSE)

\* actionAdminSnapshot: the lot as it is at this moment, for nobody else runs meanwhile.
Snapshot == <<"lot", version>>

\* onReadyRead, a frame.
Serve(l) ==
    /\ session[l] # "none" /\ toServer[l] # <<>>
    /\ LET frame == Head(toServer[l]) IN
       /\ toServer' = [toServer EXCEPT ![l] = Tail(@)]
       /\ \/ /\ frame[1] = "login"
             /\ Login(l, frame[2])
             /\ UNCHANGED <<working, version, applied, others>>
          \/ /\ frame[1] = "ask" /\ Admitted(l, frame)
             /\ \/ Act(frame[2], l) /\ UNCHANGED working
                \/ /\ working' = [working EXCEPT ![frame[2]] = l]
                   /\ UNCHANGED <<version, applied, toClient>>
             /\ UNCHANGED <<session, others>>
          \/ /\ frame[1] = "ask" /\ ~Admitted(l, frame)
             /\ toClient' = Told(l, << <<"answer", frame[2], "no">> >>, FALSE)
             /\ UNCHANGED server
          \/ /\ frame[1] = "look" /\ Admitted(l, frame)
             /\ toClient' = Told(l, <<Snapshot>>, FALSE)
             /\ UNCHANGED server
          \/ /\ frame[1] = "fin"
             /\ End(l)
             /\ UNCHANGED toClient
    /\ UNCHANGED <<me, told, calls, alive, good, starts, faults>>

\* Mutant of Concluded: the completion of a request runs again.
ConcludedAgain(r) == IF working[r] = "nobody" THEN "idle" ELSE "nobody"

Concluded(r) == "idle"

\* An entry or a recognition ends: startEnter, startLprRecognize.
Finish(r) ==
    /\ working[r] # "idle"
    /\ working' = [working EXCEPT ![r] = Concluded(r)]
    /\ Act(r, working[r])
    /\ UNCHANGED <<me, told, calls, alive, toServer, session, others, good, starts, faults>>

\* Mutant of Relayed: what comes from the REST side is not passed on.
RelayedNot == FALSE

\* setEventHub: events of other origins are passed on to the sessions.
Relayed == TRUE

ChangeElsewhere ==
    /\ others < MaxChanges
    /\ others' = others + 1
    /\ version' = version + 1
    /\ toClient' = Told(None, <<>>, Relayed)
    /\ UNCHANGED <<me, told, calls, alive, toServer, session, working, applied, good, starts, faults>>

\* disconnectFromHost, or a broken connection: the client hears of it behind what was
\* sent before.
Drop(l) ==
    /\ End(l)
    /\ toServer' = [toServer EXCEPT ![l] = <<>>]
    /\ toClient' = Written(toClient, l, <<"fin">>)
    /\ alive' = alive \ {l}
    /\ UNCHANGED <<me, told, calls, good, starts>>

\* Mutant of Silent: only a session that was authenticated is dropped.
SilentOnceIn(l) ==
    /\ session[l] = "authenticated"
    /\ l \notin alive \/ l # me.link \/ me.state \in {"Connecting", "Disconnected"}

\* No frame comes from the client of a session: the link is dead, the client has hung
\* up, or sends no heartbeats.
Silent(l) ==
    /\ session[l] # "none"
    /\ l \notin alive \/ l # me.link \/ me.state \in {"Connecting", "Disconnected"}

\* kickIdleSessions
Kick(l) == Silent(l) /\ Drop(l) /\ UNCHANGED faults

\* The connection breaks, or a client that is merely slow is kicked.
Break(l) == session[l] # "none" /\ l \in alive /\ Fault /\ Drop(l)

\* The network loses all frames from now on and tells nobody.
Die(l) ==
    /\ l \in alive
    /\ Fault
    /\ alive' = alive \ {l}
    /\ me' = IF l = me.link /\ toServer[l] # <<>> THEN [me EXCEPT !.unacked = TRUE] ELSE me
    /\ toServer' = [toServer EXCEPT ![l] = <<>>]
    /\ toClient' = [toClient EXCEPT ![l] = <<>>]
    /\ UNCHANGED <<told, calls, server, good, starts>>

Next ==
    \/ Start \/ Stop \/ Reconnect \/ Connect \/ Refused
    \/ \E r \in Requests : Request(r) \/ Finish(r)
    \/ Watchdog \/ LateBeats \/ Heartbeat \/ BeatAnswered \/ TransportFails \/ Receive
    \/ \E l \in Links : Serve(l) \/ Kick(l) \/ Break(l) \/ Die(l)
    \/ ChangeElsewhere

\* Timers fire, a working network delivers, a listening server accepts and answers.
Fairness ==
    /\ WF_vars(Reconnect) /\ WF_vars(Connect) /\ WF_vars(Receive) /\ WF_vars(TransportFails)
    /\ WF_vars(Watchdog) /\ WF_vars(Heartbeat) /\ WF_vars(BeatAnswered)
    /\ \A l \in Links : WF_vars(Serve(l)) /\ WF_vars(Kick(l))
    /\ \A r \in Requests : WF_vars(Finish(r))

Spec == Init /\ [][Next]_vars
FairSpec == Spec /\ Fairness

-----------------------------------------------------------------------------
(***************************************************************************)
(* Properties.                                                             *)
(***************************************************************************)

TypeOK ==
    /\ me \in ClientType /\ me.missed <= 2
    /\ told \in [Requests -> {"nothing", "ok", "no", "lost", "offline"}]
    /\ alive \subseteq Links
    /\ session \in [Links -> {"none", "open", "authenticated"}]
    /\ working \in [Requests -> Links \union {"idle", "nobody"}]
    /\ version \in Nat

\* In every state something will take the client further, unless it was stopped: a
\* socket that is open, is being opened, or a timer that will open it.  Requests are
\* pending on an open socket only, and on line means on line: the token is that of
\* the connection.  (Every variable stays in its type.)
SessionSound ==
    /\ TypeOK
    /\ me.stopped \/ me.sock # "closed" \/ me.armed
    /\ me.pending # {} => me.sock = "open"
    /\ me.state = "Online" => /\ me.sock = "open" /\ me.token = me.link
                              /\ me.beating /\ ~me.stopped

\* A request changes the lot at most once, for nothing is sent again after a
\* reconnection; told that it was carried out, it was; refused, or turned down off
\* line, it was not.  Told that the connection was lost, it may have been (comment at
\* the top of ServerSession.h).
AnswerTrue ==
    \A r \in Requests :
        /\ applied[r] <= 1
        /\ told[r] = "ok" => applied[r] = 1
        /\ told[r] \in {"no", "offline"} => applied[r] = 0

\* The client waits on a link that is dead, and has nothing on its way that the
\* operating system would miss: nothing but the heartbeats of an on-line session has a
\* time-out.
Deaf ==
    /\ me.sock = "open" /\ me.link \notin alive /\ toClient[me.link] = <<>>
    /\ ~me.unacked /\ me.state # "Online"

\* To the user interface the session is a service that answers every request once,
\* and it does not leave one waiting unless the client is deaf.
Service == INSTANCE AnswerOnce WITH
    fate <- [r \in Requests |-> IF r \in me.pending THEN "Waiting"
                                ELSE IF told[r] = "nothing" THEN "New" ELSE "Answered"],
    calls <- calls,
    gone <- {}

AnswersOnce ==
    /\ Service!SafeSpec
    /\ \A r \in Requests : r \in me.pending ~> r \notin me.pending \/ Deaf

\* A client that was not stopped, nor refused for its password, is on line again and
\* again: after a refused connection, a broken or a dead one, a kick, a start over a
\* session that was alive; the one exception is a client that went deaf.
Reconnects == ~me.stopped ~> me.state = "Online" \/ me.stopped \/ Deaf

\* While the client is on line, the snapshot it shows catches up with every change of the
\* lot that raises an event, its own or another's (comment in setEventHub: a reservation
\* made on the web must appear).  What a call sweeps on the way has no event of its own.
CatchesUp ==
    me.state = "Online" /\ me.shown # version ~> me.shown = version \/ me.state # "Online"
=============================================================================
