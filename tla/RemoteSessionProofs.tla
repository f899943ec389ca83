------------------------ MODULE RemoteSessionProofs ------------------------
(***************************************************************************)
(* Proofs about RemoteSession, for any requests, links, bounds and faults: *)
(* the session of the client never comes to rest by itself (SessionSound), *)
(* and the client implements the safety part of AnswerOnce.                *)
(*                                                                         *)
(* The client is one record, and most actions replace it as a whole.  What *)
(* has to hold of it is therefore stated of a record (Sound), proved of    *)
(* the operators the actions are made of, and used action by action.       *)
(***************************************************************************)
EXTENDS RemoteSession, TLAPS

LEMMA NamesApart == None \notin Links /\ "idle" \notin Links /\ "nobody" \notin Links
BY SessionAssumption

\* What the queues may hold.
ServerFrames ==
    {<<"login", b>> : b \in BOOLEAN}
        \union {<<"ask", r, k>> : r \in Requests, k \in Links \union {None}}
        \union {<<"look", k>> : k \in Links \union {None}}
        \union {<<"fin">>}

Verdicts == {"ok", "no"}

ClientFrames ==
    {<<"welcome">>, <<"rejected">>, <<"event">>, <<"fin">>}
        \union {<<"lot", n>> : n \in Nat}
        \union {<<"answer", r, v>> : r \in Requests, v \in Verdicts}

Typed ==
    /\ TypeOK
    /\ calls \in [Requests -> Nat]
    /\ toServer \in [Links -> Seq(ServerFrames)]
    /\ toClient \in [Links -> Seq(ClientFrames)]
    /\ good \in BOOLEAN

\* The client m is not at rest unless it was stopped; it is stopped only with nothing
\* pending and no connection being made; a login is pending on a fresh connection only.
Sound(m) ==
    /\ m.stopped \/ m.sock # "closed" \/ m.armed
    /\ m.pending # {} => m.sock = "open"
    /\ m.state = "Online" => /\ m.sock = "open" /\ m.token = m.link
                             /\ m.beating /\ ~m.stopped
    /\ m.sock # "closed" /\ ~m.stopped => m.state # "Disconnected"
    /\ m.login => ~m.stopped /\ m.pending = {} /\ m.state # "Online"
    /\ m.sock = "opening" => ~m.stopped
    /\ m.stopped => m.pending = {}
    /\ m.sock = "open" => m.link \in Links
    /\ m.missed <= 2

\* A request that is pending was not answered.
NotTold == \A r \in me.pending : told[r] = "nothing"

IInv == Typed /\ Sound(me) /\ NotTold

-----------------------------------------------------------------------------
(***************************************************************************)
(* The operators.                                                          *)
(***************************************************************************)

LEMMA NoSessionSound == NoSession \in ClientType /\ Sound(NoSession)
  BY DEF NoSession, ClientType, Sound

\* Closing the socket keeps the client sound, and nothing stays pending.
LEMMA ClosedSound ==
  ASSUME NEW m \in ClientType, Sound(m), m.sock # "closed"
  PROVE  /\ Closed(m) \in ClientType /\ Sound(Closed(m))
         /\ Closed(m).pending = {}
<1> DEFINE n == [m EXCEPT !.sock = "closed", !.link = None, !.unacked = FALSE]
<1>1. /\ n \in ClientType
      /\ n.sock = "closed" /\ n.stopped = m.stopped /\ n.armed = m.armed
      /\ n.pending = m.pending /\ n.state = m.state /\ n.login = m.login
      /\ n.missed = m.missed
  BY DEF ClientType
<1>2. CASE Reacts(m)
  <2> DEFINE c == [Forgotten(n) EXCEPT !.token = None, !.beating = FALSE,
                                       !.state = "Disconnected", !.armed = TRUE]
  <2>1. Closed(m) = c
    BY <1>2 DEF Closed
  <2> HIDE DEF n
  <2>2. /\ c \in ClientType /\ c.pending = {} /\ c.armed /\ c.sock = "closed"
        /\ c.state = "Disconnected" /\ ~c.login
        /\ c.missed = n.missed
    BY <1>1 DEF Forgotten, ClientType
  <2> HIDE DEF c
  <2>3. QED
    BY <1>1, <2>1, <2>2 DEF Sound, ClientType
<1>3. CASE ~Reacts(m)
  <2>1. Closed(m) = n
    BY <1>3 DEF Closed
  <2>2. m.stopped
    BY <1>3 DEF Sound, Reacts, ClientType
  <2> HIDE DEF n
  <2>3. QED
    BY <1>1, <2>1, <2>2 DEF Sound, ClientType
<1>4. QED
  BY <1>2, <1>3

\* establishConnection makes a client that was not stopped move.
LEMMA EstablishedSound ==
  ASSUME NEW m \in ClientType, ~m.stopped, m.pending # {} => m.sock = "open",
         m.login => m.pending = {}, m.sock = "open" => m.link \in Links
  PROVE  /\ Established(m) \in ClientType /\ Sound(Established(m))
         /\ Established(m).pending = m.pending
<1> DEFINE x == IF m.sock = "closed" THEN "opening" ELSE m.sock
           e == [m EXCEPT !.token = None, !.missed = 0, !.state = "Connecting", !.sock = x]
<1>0. x \in {"opening", "open"} /\ (x = "open" <=> m.sock = "open")
  BY DEF ClientType
<1>1. Established(m) = e
  BY DEF Established
<1> HIDE DEF x
<1>x. x \in {"closed", "opening", "open"}
  BY <1>0
<1>2. /\ e \in ClientType
      /\ e.state = "Connecting" /\ e.sock = x
      /\ e.link = m.link /\ e.stopped = m.stopped
      /\ e.pending = m.pending /\ e.login = m.login /\ e.missed = 0
  BY <1>x DEF ClientType
<1> HIDE DEF e
<1>3. QED
  BY <1>0, <1>1, <1>2 DEF Sound

-----------------------------------------------------------------------------
(***************************************************************************)
(* What a step does to the callers.                                        *)
(***************************************************************************)
Outcomes == {"ok", "no", "lost", "offline"}

\* Nobody asks and nobody is told; r is asked; those of R are told.
Quiet == UNCHANGED <<told, calls>> /\ me'.pending = me.pending

Asks(r) ==
    /\ told[r] = "nothing" /\ r \notin me.pending
    /\ UNCHANGED <<told, calls>>
    /\ me'.pending = me.pending \union {r}

Tells(R, outcome) ==
    /\ \A r \in R : told[r] = "nothing"
    /\ Tell(R, outcome)
    /\ me'.pending = me.pending \ R

Move ==
    \/ Quiet
    \/ \E r \in Requests : Asks(r)
    \/ \E R \in SUBSET Requests, outcome \in Outcomes : Tells(R, outcome)

\* A step of this kind keeps the types, and tells nobody twice.
LEMMA MoveTold ==
  ASSUME Typed, NotTold, Move, me' \in ClientType
  PROVE  /\ told' \in [Requests -> {"nothing", "ok", "no", "lost", "offline"}]
         /\ calls' \in [Requests -> Nat]
         /\ NotTold'
<1>1. CASE Quiet
  BY <1>1 DEF Typed, TypeOK, NotTold, Quiet
<1>2. ASSUME NEW r \in Requests, Asks(r)
      PROVE  /\ told' \in [Requests -> {"nothing", "ok", "no", "lost", "offline"}]
             /\ calls' \in [Requests -> Nat]
             /\ NotTold'
  BY <1>2 DEF Typed, TypeOK, NotTold, Asks
<1>3. ASSUME NEW R \in SUBSET Requests, NEW outcome \in Outcomes, Tells(R, outcome)
      PROVE  /\ told' \in [Requests -> {"nothing", "ok", "no", "lost", "offline"}]
             /\ calls' \in [Requests -> Nat]
             /\ NotTold'
  <2>1. /\ told' = [r \in Requests |-> IF r \in R THEN outcome ELSE told[r]]
        /\ calls' = [r \in Requests |-> IF r \in R THEN calls[r] + 1 ELSE calls[r]]
        /\ me'.pending = me.pending \ R
    BY <1>3 DEF Tells, Tell
  <2>2. me.pending \subseteq Requests
    BY DEF Typed, TypeOK, ClientType
  <2>3. QED
    BY <2>1, <2>2 DEF Typed, TypeOK, NotTold, Outcomes
<1>4. QED
  BY <1>1, <1>2, <1>3 DEF Move

\* And to the callers it is a step of the service, or none.
LEMMA MoveService ==
  ASSUME Typed, NotTold, Move, me' \in ClientType
  PROVE  [Service!Next]_(Service!vars)
<1> DEFINE Fate(p, t) == [r \in Requests |-> IF r \in p THEN "Waiting"
                                             ELSE IF t[r] = "nothing" THEN "New" ELSE "Answered"]
           f == Fate(me.pending, told)
           g == Fate(me'.pending, told')
<1>0. me.pending \subseteq Requests
  BY DEF Typed, TypeOK, ClientType
<1>1. CASE Quiet
  <2>1. g = f
    BY <1>1 DEF Quiet
  <2>2. QED
    BY <1>1, <2>1 DEF Quiet, Service!vars
<1>2. ASSUME NEW r \in Requests, Asks(r)
      PROVE  Service!Submit(r)
  <2>1. f[r] = "New"
    BY <1>2 DEF Asks
  <2>2. g = [f EXCEPT ![r] = "Waiting"]
    BY <1>0, <1>2 DEF Asks
  <2>3. QED
    BY <1>2, <2>1, <2>2 DEF Asks, Service!Submit
<1>3. ASSUME NEW R \in SUBSET Requests, NEW outcome \in Outcomes, Tells(R, outcome)
      PROVE  Service!Answer(R)
  <2>1. /\ told' = [r \in Requests |-> IF r \in R THEN outcome ELSE told[r]]
        /\ calls' = [r \in Requests |-> IF r \in R THEN calls[r] + 1 ELSE calls[r]]
        /\ me'.pending = me.pending \ R /\ \A r \in R : told[r] = "nothing"
    BY <1>3 DEF Tells, Tell
  <2>2. \A r \in R : f[r] \in {"New", "Waiting"}
    BY <2>1
  <2>3. g = [r \in Requests |-> IF r \in R THEN "Answered" ELSE f[r]]
    BY <1>0, <2>1 DEF Outcomes
  <2>4. QED
    BY <2>1, <2>2, <2>3 DEF Service!Answer
<1>4. QED
  BY <1>1, <1>2, <1>3 DEF Move, Service!Next

-----------------------------------------------------------------------------
(***************************************************************************)
(* What a step does to the client, action by action.                       *)
(***************************************************************************)
Fine == me' \in ClientType /\ Sound(me') /\ Move

\* Requests that the client drops are told so.
LEMMA LoseMoves ==
  ASSUME Typed, NotTold, NEW m, Lose(m), m.pending \subseteq me.pending
  PROVE  Move
<1> DEFINE R == me.pending \ m.pending
<1>1. R \in SUBSET Requests
  BY DEF Typed, TypeOK, ClientType
<1>2. Tells(R, "lost")
  BY DEF Lose, NotTold, Tells
<1>3. QED
  BY <1>1, <1>2 DEF Move, Outcomes

\* The client stays as it is, and so do the callers.
LEMMA StillFine ==
  ASSUME IInv, UNCHANGED <<me, told, calls>>
  PROVE  Fine
  BY DEF IInv, Typed, TypeOK, Fine, Move, Quiet

LEMMA StartFine ==
  ASSUME IInv, Start
  PROVE  Fine
<1> DEFINE m == [me EXCEPT !.stopped = FALSE]
<1>1. me \in ClientType /\ Sound(me)
  BY DEF IInv, Typed, TypeOK
<1>2. /\ m \in ClientType /\ ~m.stopped /\ m.pending = me.pending
      /\ m.sock = me.sock /\ m.login = me.login /\ m.link = me.link
  BY <1>1 DEF ClientType
<1>3. me' = Established(m) /\ UNCHANGED <<told, calls>>
  BY DEF Start
<1> HIDE DEF m
<1>4. /\ Established(m) \in ClientType /\ Sound(Established(m))
      /\ Established(m).pending = m.pending
  BY <1>1, <1>2, EstablishedSound DEF Sound
<1>5. QED
  BY <1>2, <1>3, <1>4 DEF Fine, Move, Quiet

LEMMA StopFine ==
  ASSUME IInv, Stop
  PROVE  Fine
<1> DEFINE m == [NoSession EXCEPT !.shown = me.shown]
<1>1. me.shown \in Nat
  BY DEF IInv, Typed, TypeOK, ClientType
<1>2. m \in ClientType /\ Sound(m) /\ m.pending = {}
  <2>1. NoSession.pending = {} /\ NoSession \in ClientType /\ Sound(NoSession)
    BY NoSessionSound DEF NoSession
  <2>2. /\ m \in ClientType /\ m.pending = NoSession.pending /\ m.sock = NoSession.sock
        /\ m.stopped = NoSession.stopped /\ m.armed = NoSession.armed
        /\ m.state = NoSession.state /\ m.token = NoSession.token
        /\ m.link = NoSession.link /\ m.beating = NoSession.beating
        /\ m.login = NoSession.login /\ m.missed = NoSession.missed
    BY <1>1, <2>1 DEF ClientType
  <2> HIDE DEF m
  <2>3. QED
    BY <2>1, <2>2 DEF Sound
<1>3. Lose(m)
  BY DEF Stop
<1> HIDE DEF m
<1>4. Move
  BY <1>2, <1>3, LoseMoves DEF IInv
<1>5. QED
  BY <1>2, <1>3, <1>4 DEF Fine, Lose

LEMMA ReconnectFine ==
  ASSUME IInv, Reconnect
  PROVE  Fine
<1> DEFINE m == [me EXCEPT !.armed = FALSE]
<1>1. me \in ClientType /\ Sound(me)
  BY DEF IInv, Typed, TypeOK
<1>2. /\ m \in ClientType /\ m.stopped = me.stopped /\ m.pending = me.pending
      /\ m.sock = me.sock /\ m.login = me.login /\ m.link = me.link
      /\ m.state = me.state /\ m.missed = me.missed
  BY <1>1 DEF ClientType
<1>3. /\ me' = IF me.stopped THEN m ELSE Established(m)
      /\ UNCHANGED <<told, calls>>
  BY DEF Reconnect
<1> HIDE DEF m
<1>4. CASE me.stopped
  <2>1. me' = m
    BY <1>3, <1>4
  <2>2. Sound(m)
    BY <1>1, <1>2, <1>4 DEF Sound
  <2>3. QED
    BY <1>2, <1>3, <2>1, <2>2 DEF Fine, Move, Quiet
<1>5. CASE ~me.stopped
  <2>1. /\ Established(m) \in ClientType /\ Sound(Established(m))
        /\ Established(m).pending = m.pending
    BY <1>1, <1>2, <1>5, EstablishedSound DEF Sound
  <2>2. QED
    BY <1>2, <1>3, <1>5, <2>1 DEF Fine, Move, Quiet
<1>6. QED
  BY <1>4, <1>5

LEMMA ConnectFine ==
  ASSUME IInv, Connect
  PROVE  Fine
<1>1. me \in ClientType /\ Sound(me) /\ me.sock = "opening"
  BY DEF IInv, Typed, TypeOK, Connect
<1>2. PICK l \in Links : /\ me' = [me EXCEPT !.sock = "open", !.link = l,
                                            !.state = "LoggingIn", !.login = TRUE]
                         /\ UNCHANGED <<told, calls>>
  BY DEF Connect
<1>3. /\ me' \in ClientType /\ me'.sock = "open" /\ me'.link = l
      /\ me'.state = "LoggingIn" /\ me'.pending = me.pending
      /\ me'.stopped = me.stopped /\ me'.missed = me.missed
  BY <1>1, <1>2 DEF ClientType
<1>4. me.pending = {} /\ ~me.stopped
  BY <1>1 DEF Sound
<1>5. Sound(me')
  <2>1. me'.pending = {} /\ ~me'.stopped /\ me'.missed <= 2
    BY <1>1, <1>3, <1>4 DEF Sound
  <2>2. QED
    BY <1>3, <2>1 DEF Sound
<1>6. QED
  BY <1>2, <1>3, <1>5 DEF Fine, Move, Quiet

\* The socket is closed, after the count of heartbeats was cleared or not.
LEMMA ClosingFine ==
  ASSUME IInv, me.sock # "closed",
         Lose(Closed(me)) \/ Lose(Closed([me EXCEPT !.missed = 0]))
  PROVE  Fine
<1>1. me \in ClientType /\ Sound(me)
  BY DEF IInv, Typed, TypeOK
<1>2. PICK m \in {me, [me EXCEPT !.missed = 0]} : Lose(Closed(m))
  OBVIOUS
<1>3. /\ m \in ClientType /\ m.stopped = me.stopped /\ m.pending = me.pending
      /\ m.sock = me.sock /\ m.login = me.login /\ m.link = me.link
      /\ m.state = me.state /\ m.armed = me.armed /\ m.token = me.token
      /\ m.beating = me.beating /\ m.missed <= 2
  BY <1>1 DEF ClientType, Sound
<1>4. Sound(m)
  BY <1>1, <1>3 DEF Sound
<1>5. /\ Closed(m) \in ClientType /\ Sound(Closed(m))
      /\ Closed(m).pending = {}
  BY <1>3, <1>4, ClosedSound
<1>6. Move
  BY <1>2, <1>5, LoseMoves DEF IInv
<1>7. QED
  BY <1>2, <1>5, <1>6 DEF Fine, Lose

\* Clients that differ in what Sound does not speak of.
Alike(m, n) ==
    /\ m.state = n.state /\ m.sock = n.sock /\ m.link = n.link /\ m.token = n.token
    /\ m.stopped = n.stopped /\ m.armed = n.armed /\ m.beating = n.beating
    /\ m.login = n.login

LEMMA AlikeFine ==
  ASSUME IInv, me' \in ClientType, Alike(me', me), me'.pending = me.pending,
         me'.missed <= 2, UNCHANGED <<told, calls>>
  PROVE  Fine
<1>1. Sound(me')
  BY DEF IInv, Alike, Sound
<1>2. QED
  BY <1>1 DEF Fine, Move, Quiet

\* Heartbeats, and what is written in vain.
LEMMA HeartbeatFine ==
  ASSUME IInv, \/ Heartbeat \/ BeatAnswered \/ \E l \in Links : Die(l)
  PROVE  Fine
<1>1. me \in ClientType /\ Sound(me)
  BY DEF IInv, Typed, TypeOK
<1>2. UNCHANGED <<told, calls>>
  BY DEF Heartbeat, BeatAnswered, Die
<1>3. CASE Heartbeat
  <2> DEFINE u == Swallowed
             k == me.missed + 1
  <2>1. u \in BOOLEAN /\ k \in Nat
    BY <1>1 DEF Swallowed, ClientType
  <2>2. me' = [me EXCEPT !.missed = k, !.unacked = u]
    BY <1>3 DEF Heartbeat
  <2>3. k <= 2
    BY <1>1, <1>3 DEF Heartbeat, ClientType
  <2> HIDE DEF u, k
  <2>4. /\ me' \in ClientType /\ me'.pending = me.pending /\ me'.missed = k
        /\ Alike(me', me)
    BY <1>1, <2>1, <2>2 DEF ClientType, Alike
  <2>5. QED
    BY <1>2, <2>3, <2>4, AlikeFine
<1>4. CASE BeatAnswered
  <2>1. me' = [me EXCEPT !.missed = 0]
    BY <1>4 DEF BeatAnswered
  <2>2. /\ me' \in ClientType /\ me'.pending = me.pending /\ me'.missed = 0
        /\ Alike(me', me)
    BY <1>1, <2>1 DEF ClientType, Alike
  <2>3. QED
    BY <1>2, <2>2, AlikeFine
<1>5. ASSUME NEW l \in Links, Die(l)
      PROVE  Fine
  <2>1. me' = me \/ me' = [me EXCEPT !.unacked = TRUE]
    BY <1>5 DEF Die
  <2>2. /\ me' \in ClientType /\ me'.pending = me.pending /\ me'.missed = me.missed
        /\ Alike(me', me)
    BY <1>1, <2>1 DEF ClientType, Alike
  <2>3. QED
    BY <1>1, <1>2, <2>2, AlikeFine DEF Sound
<1>6. QED
  BY <1>3, <1>4, <1>5

LEMMA RequestFine ==
  ASSUME IInv, NEW r \in Requests, Request(r)
  PROVE  Fine
<1>1. me \in ClientType /\ Sound(me) /\ told[r] = "nothing" /\ r \notin me.pending
  BY DEF IInv, Typed, TypeOK, Request
<1>2. CASE Ready
  <2> DEFINE u == Swallowed
  <2>1. u \in BOOLEAN
    BY <1>1 DEF Swallowed, ClientType
  <2>2. /\ me' = [me EXCEPT !.pending = me.pending \union {r}, !.unacked = u]
        /\ UNCHANGED <<told, calls>> /\ me.state = "Online" /\ me.sock = "open"
    BY <1>2 DEF Request, Ready
  <2> HIDE DEF u
  <2>3. /\ me' \in ClientType /\ me'.pending = me.pending \union {r}
        /\ me'.missed = me.missed /\ Alike(me', me)
    BY <1>1, <2>1, <2>2 DEF ClientType, Alike
  <2>4. Sound(me')
    BY <1>1, <2>2, <2>3 DEF Sound, Alike
  <2>5. QED
    BY <1>1, <2>2, <2>3, <2>4 DEF Fine, Move, Asks
<1>3. CASE ~Ready
  <2>1. Tell({r}, "offline") /\ me' = me
    BY <1>3 DEF Request
  <2>2. Tells({r}, "offline")
    BY <1>1, <2>1 DEF Tells
  <2>3. QED
    BY <1>1, <2>1, <2>2 DEF Fine, Move, Outcomes
<1>4. QED
  BY <1>2, <1>3

\* What a frame is, told by its first word.
LEMMA ClientFrameKinds ==
  ASSUME NEW x \in ClientFrames
  PROVE  /\ x[1] = "answer" => x[2] \in Requests /\ x[3] \in Verdicts
         /\ x[1] = "lot" => x[2] \in Nat
  BY DEF ClientFrames

LEMMA ReceiveFine ==
  ASSUME IInv, Receive
  PROVE  Fine
<1>1. /\ me \in ClientType /\ Sound(me) /\ me.sock = "open" /\ me.link \in Links
      /\ toClient[me.link] # <<>>
  BY DEF IInv, Typed, TypeOK, Receive, Sound
<1> DEFINE x == Head(toClient[me.link])
           u == Swallowed
           more == me.looks + 1
           fewer == me.looks - 1
<1>2. x \in ClientFrames
  BY <1>1 DEF IInv, Typed
<1>3. u \in BOOLEAN /\ more \in Nat /\ (me.looks > 0 => fewer \in Nat)
  BY <1>1 DEF Swallowed, ClientType
<1>4. CASE x[1] = "welcome" /\ me.login
  <2>1. /\ me' = [[me EXCEPT !.login = FALSE, !.token = me.link, !.missed = 0,
                              !.state = "Online", !.beating = TRUE]
                    EXCEPT !.looks = more, !.unacked = u]
        /\ UNCHANGED <<told, calls>>
    BY <1>1, <1>4 DEF Receive, Look, ClientType
  <2> HIDE DEF u, x, more, fewer
  <2>2. /\ me' \in ClientType /\ me'.pending = me.pending /\ me'.missed = 0
        /\ me'.state = "Online" /\ me'.sock = "open" /\ me'.token = me.link
        /\ me'.link = me.link /\ me'.beating /\ ~me'.login /\ me'.stopped = me.stopped
    BY <1>1, <1>3, <2>1 DEF ClientType
  <2>3. me.pending = {} /\ ~me.stopped
    BY <1>1, <1>4 DEF Sound
  <2>4. Sound(me')
    BY <1>1, <2>2, <2>3 DEF Sound
  <2>5. QED
    BY <2>1, <2>2, <2>4 DEF Fine, Move, Quiet
<1>5. CASE x[1] = "rejected" /\ me.login
  <2>1. /\ me' = [me EXCEPT !.login = FALSE, !.token = None, !.beating = FALSE,
                            !.state = "Disconnected", !.stopped = TRUE]
        /\ UNCHANGED <<told, calls>>
    BY <1>5 DEF Receive
  <2>2. /\ me' \in ClientType /\ me'.pending = me.pending /\ me'.missed = me.missed
        /\ me'.state = "Disconnected" /\ me'.sock = "open" /\ me'.link = me.link
        /\ ~me'.login /\ me'.stopped
    BY <1>1, <2>1 DEF ClientType
  <2>3. me.pending = {}
    BY <1>1, <1>5 DEF Sound
  <2>4. Sound(me')
    BY <1>1, <2>2, <2>3 DEF Sound
  <2>5. QED
    BY <2>1, <2>2, <2>4 DEF Fine, Move, Quiet
<1>6. CASE x[1] = "answer"
  <2> DEFINE R == me.pending \intersect {x[2]}
  <2>1. me' = [me EXCEPT !.pending = me.pending \ R] /\ Tell(R, x[3])
    BY <1>6 DEF Receive, Matched
  <2>2. R \in SUBSET Requests /\ x[3] \in Outcomes
    BY <1>1, <1>2, <1>6, ClientFrameKinds DEF ClientType, Verdicts, Outcomes
  <2> HIDE DEF x, R
  <2>3. /\ me' \in ClientType /\ me'.pending = me.pending \ R
        /\ me'.missed = me.missed /\ Alike(me', me)
    BY <1>1, <2>1, <2>2 DEF ClientType, Alike
  <2>4. Sound(me')
    BY <1>1, <2>3 DEF Sound, Alike
  <2>5. \A r \in R : told[r] = "nothing"
    BY DEF IInv, NotTold, R
  <2>6. Tells(R, x[3])
    BY <2>1, <2>3, <2>5 DEF Tells
  <2>7. QED
    BY <2>2, <2>3, <2>4, <2>6 DEF Fine, Move
<1>7. CASE x[1] = "lot"
  <2>1. x[2] \in Nat
    BY <1>2, <1>7, ClientFrameKinds
  <2>2. /\ me' = IF me.looks > 0 THEN [me EXCEPT !.looks = fewer, !.shown = x[2]] ELSE me
        /\ UNCHANGED <<told, calls>>
    BY <1>7 DEF Receive
  <2> HIDE DEF x, fewer
  <2>3. /\ me' \in ClientType /\ me'.pending = me.pending
        /\ me'.missed = me.missed /\ Alike(me', me)
    <3>1. CASE me.looks > 0
      BY <1>1, <1>3, <2>1, <2>2, <3>1 DEF ClientType, Alike
    <3>2. CASE ~(me.looks > 0)
      BY <1>1, <2>2, <3>2 DEF ClientType, Alike
    <3>3. QED
      BY <3>1, <3>2
  <2>4. QED
    BY <1>1, <2>2, <2>3, AlikeFine DEF Sound
<1>8. CASE x[1] = "event"
  <2>1. /\ me' = me \/ me' = [me EXCEPT !.looks = more, !.unacked = u]
        /\ UNCHANGED <<told, calls>>
    BY <1>8 DEF Receive, Look
  <2> HIDE DEF u, more, fewer
  <2>2. /\ me' \in ClientType /\ me'.pending = me.pending
        /\ me'.missed = me.missed /\ Alike(me', me)
    BY <1>1, <1>3, <2>1 DEF ClientType, Alike
  <2>3. QED
    BY <1>1, <2>1, <2>2, AlikeFine DEF Sound
<1>9. CASE x[1] = "fin"
  BY <1>1, <1>9, ClosingFine DEF Receive
<1>10. CASE x[1] \in {"welcome", "rejected"} /\ ~me.login
  <2>1. UNCHANGED <<me, told, calls>>
    BY <1>10 DEF Receive
  <2>2. QED
    BY <2>1, StillFine
<1>11. QED
  BY <1>4, <1>5, <1>6, <1>7, <1>8, <1>9, <1>10 DEF Receive

\* Whatever happens.
LEMMA ClientStep ==
  ASSUME IInv, Next
  PROVE  Fine
<1>1. CASE Start
  BY <1>1, StartFine
<1>2. CASE Stop
  BY <1>2, StopFine
<1>3. CASE Reconnect
  BY <1>3, ReconnectFine
<1>4. CASE Connect
  BY <1>4, ConnectFine
<1>5. CASE Refused \/ Watchdog \/ LateBeats \/ TransportFails
  <2>1. me.sock # "closed"
    BY <1>5 DEF IInv, Sound, Refused, Watchdog, LateBeats, WatchdogAborts, TransportFails
  <2>2. QED
    BY <1>5, <2>1, ClosingFine DEF Refused, Watchdog, LateBeats, TransportFails
<1>6. ASSUME NEW r \in Requests, Request(r)
      PROVE  Fine
  BY <1>6, RequestFine
<1>7. ASSUME NEW r \in Requests, Finish(r)
      PROVE  Fine
  BY <1>7, StillFine DEF Finish
<1>8. CASE Heartbeat \/ BeatAnswered \/ \E l \in Links : Die(l)
  BY <1>8, HeartbeatFine
<1>9. CASE Receive
  BY <1>9, ReceiveFine
<1>10. ASSUME NEW l \in Links, Serve(l) \/ Kick(l) \/ Break(l)
       PROVE  Fine
  BY <1>10, StillFine DEF Serve, Kick, Break, Drop
<1>11. CASE ChangeElsewhere
  BY <1>11, StillFine DEF ChangeElsewhere
<1>12. QED
  BY <1>1, <1>2, <1>3, <1>4, <1>5, <1>6, <1>7, <1>8, <1>9, <1>10, <1>11 DEF Next

-----------------------------------------------------------------------------
(***************************************************************************)
(* What a step does to the network and the server.                         *)
(***************************************************************************)
ServerType ==
    /\ session' \in [Links -> {"none", "open", "authenticated"}]
    /\ working' \in [Requests -> Links \union {"idle", "nobody"}]
    /\ version' \in Nat

NetworkType ==
    /\ alive' \subseteq Links
    /\ toServer' \in [Links -> Seq(ServerFrames)]
    /\ toClient' \in [Links -> Seq(ClientFrames)]

\* Frames alone and in a row.
LEMMA FrameRows ==
  ASSUME NEW S, NEW x \in S, NEW q \in Seq(S)
  PROVE  <<x>> \in Seq(S) /\ <<>> \in Seq(S) /\ Append(q, x) \in Seq(S)
  OBVIOUS

LEMMA WrittenType ==
  ASSUME NEW S, NEW q \in [Links -> Seq(S)], NEW l, NEW x \in S
  PROVE  Written(q, l, x) \in [Links -> Seq(S)]
<1>1. \A k \in Links : Append(q[k], x) \in Seq(S)
  OBVIOUS
<1>2. QED
  BY <1>1 DEF Written

LEMMA ToldType ==
  ASSUME Typed, NEW l, NEW frames \in Seq(ClientFrames), NEW changed \in BOOLEAN
  PROVE  Told(l, frames, changed) \in [Links -> Seq(ClientFrames)]
<1> SUFFICES ASSUME NEW k \in Links
             PROVE  Told(l, frames, changed)[k] \in Seq(ClientFrames)
  BY DEF Told
<1> DEFINE a == IF changed /\ session[k] = "authenticated" /\ k \in alive
                THEN << <<"event">> >> ELSE <<>>
           b == IF k = l /\ k \in alive THEN frames ELSE <<>>
<1>1. <<"event">> \in ClientFrames
  BY DEF ClientFrames
<1>2. a \in Seq(ClientFrames) /\ b \in Seq(ClientFrames)
  BY <1>1
<1>3. Told(l, frames, changed)[k] = toClient[k] \o a \o b
  BY DEF Told
<1>4. toClient[k] \in Seq(ClientFrames)
  BY DEF Typed
<1> HIDE DEF a, b
<1>5. QED
  BY <1>2, <1>3, <1>4

\* The frames that are written.
LEMMA FramesWritten ==
  /\ <<"fin">> \in ServerFrames /\ <<"fin">> \in ClientFrames
  /\ \A b \in BOOLEAN : <<"login", b>> \in ServerFrames
  /\ \A r \in Requests, k \in Links \union {None} : <<"ask", r, k>> \in ServerFrames
  /\ \A k \in Links \union {None} : <<"look", k>> \in ServerFrames
  /\ <<"welcome">> \in ClientFrames /\ <<"rejected">> \in ClientFrames
  /\ \A n \in Nat : <<"lot", n>> \in ClientFrames
  /\ \A r \in Requests, v \in Verdicts : <<"answer", r, v>> \in ClientFrames
  BY DEF ServerFrames, ClientFrames

LEMMA HangUpType ==
  ASSUME Typed, HangUp
  PROVE  NetworkType
<1> DEFINE l == me.link
<1>1. /\ alive \subseteq Links
      /\ toServer \in [Links -> Seq(ServerFrames)]
      /\ toClient \in [Links -> Seq(ClientFrames)]
  BY DEF Typed, TypeOK
<1>2. alive' \subseteq Links /\ toClient' \in [Links -> Seq(ClientFrames)]
  BY <1>1 DEF HangUp
<1>3. CASE l \in alive
  <2>1. PICK rest \in {toServer[l], <<>>} :
            toServer' = [toServer EXCEPT ![l] = Append(rest, <<"fin">>)]
    BY <1>3 DEF HangUp
  <2>2. Append(rest, <<"fin">>) \in Seq(ServerFrames)
    <3>1. <<"fin">> \in ServerFrames
      BY FramesWritten
    <3>2. rest \in Seq(ServerFrames)
      <4>1. toServer[l] \in Seq(ServerFrames) /\ <<>> \in Seq(ServerFrames)
        BY <1>1, <1>3, <3>1, FrameRows
      <4>2. QED
        BY <4>1
    <3>3. QED
      BY <3>1, <3>2, FrameRows
  <2>3. QED
    BY <1>1, <1>2, <2>1, <2>2 DEF NetworkType
<1>4. CASE l \notin alive
  BY <1>1, <1>2, <1>4 DEF HangUp, NetworkType
<1>5. QED
  BY <1>3, <1>4

LEMMA DropType ==
  ASSUME Typed, NEW l \in Links, Drop(l)
  PROVE  NetworkType /\ ServerType
<1>1. Written(toClient, l, <<"fin">>) \in [Links -> Seq(ClientFrames)]
  BY WrittenType, FramesWritten DEF Typed
<1>2. NetworkType
  BY <1>1 DEF Typed, TypeOK, Drop, NetworkType
<1>3. ServerType
  BY DEF Typed, TypeOK, Drop, End, ServerType
<1>4. QED
  BY <1>2, <1>3

LEMMA ActType ==
  ASSUME Typed, NEW r \in Requests, NEW l, Act(r, l)
  PROVE  version' \in Nat /\ toClient' \in [Links -> Seq(ClientFrames)]
<1>1. \A v \in Verdicts : << <<"answer", r, v>> >> \in Seq(ClientFrames)
  BY FramesWritten, FrameRows
<1>2. "ok" \in Verdicts /\ "no" \in Verdicts /\ version \in Nat
  BY DEF Verdicts, Typed, TypeOK
<1>3. /\ << <<"answer", r, "ok">> >> \in Seq(ClientFrames)
      /\ << <<"answer", r, "no">> >> \in Seq(ClientFrames)
  BY <1>1, <1>2
<1>4. /\ Told(l, << <<"answer", r, "ok">> >>, TRUE) \in [Links -> Seq(ClientFrames)]
      /\ Told(l, << <<"answer", r, "no">> >>, FALSE) \in [Links -> Seq(ClientFrames)]
  <2> DEFINE yes == << <<"answer", r, "ok">> >>
             no == << <<"answer", r, "no">> >>
  <2>1. yes \in Seq(ClientFrames) /\ no \in Seq(ClientFrames)
    BY <1>3
  <2> HIDE DEF yes, no
  <2>2. Told(l, yes, TRUE) \in [Links -> Seq(ClientFrames)]
    BY <2>1, ToldType
  <2>3. Told(l, no, FALSE) \in [Links -> Seq(ClientFrames)]
    BY <2>1, ToldType
  <2>4. QED
    BY <2>2, <2>3 DEF yes, no
<1>5. \/ version' = version + 1 /\ toClient' = Told(l, << <<"answer", r, "ok">> >>, TRUE)
      \/ version' = version /\ toClient' = Told(l, << <<"answer", r, "no">> >>, FALSE)
  BY DEF Act
<1>6. version' \in Nat
  <2>1. version' = version + 1 \/ version' = version
    BY DEF Act
  <2>2. QED
    BY <1>2, <2>1
<1>7. toClient' \in [Links -> Seq(ClientFrames)]
  BY <1>4, <1>5
<1>8. QED
  BY <1>6, <1>7

LEMMA ServeType ==
  ASSUME Typed, NEW l \in Links, Serve(l)
  PROVE  NetworkType /\ ServerType
<1> DEFINE x == Head(toServer[l])
<1>1. /\ toServer[l] \in Seq(ServerFrames) /\ toServer[l] # <<>>
      /\ toServer' = [toServer EXCEPT ![l] = Tail(@)] /\ alive' = alive
      /\ session \in [Links -> {"none", "open", "authenticated"}]
      /\ working \in [Requests -> Links \union {"idle", "nobody"}]
      /\ version \in Nat /\ alive \subseteq Links
      /\ toClient \in [Links -> Seq(ClientFrames)]
  BY DEF Typed, TypeOK, Serve
<1>2. toServer' \in [Links -> Seq(ServerFrames)]
  BY <1>1 DEF Typed
<1>3. x \in ServerFrames
  BY <1>1
<1>4. CASE x[1] = "login"
  <2> DEFINE v == <<IF x[2] THEN "welcome" ELSE "rejected">>
  <2>1. v \in ClientFrames
    BY FramesWritten
  <2>2. << v >> \in Seq(ClientFrames)
    BY <2>1
  <2>3. /\ toClient' = Told(l, << v >>, FALSE) /\ UNCHANGED <<working, version>>
        /\ session' = [session EXCEPT ![l] = IF x[2] THEN "authenticated" ELSE @]
    BY <1>4 DEF Serve, Login
  <2> HIDE DEF v
  <2>4. toClient' \in [Links -> Seq(ClientFrames)]
    BY <2>2, <2>3, ToldType
  <2>5. session' \in [Links -> {"none", "open", "authenticated"}]
    BY <1>1, <2>3
  <2>6. QED
    BY <1>1, <1>2, <2>3, <2>4, <2>5 DEF NetworkType, ServerType
<1>5. CASE x[1] = "ask"
  <2>1. x[2] \in Requests
    BY <1>3, <1>5 DEF ServerFrames
  <2>2. CASE Act(x[2], l) /\ UNCHANGED <<session, working>>
    BY <1>1, <1>2, <2>1, <2>2, ActType DEF NetworkType, ServerType
  <2>3. CASE /\ working' = [working EXCEPT ![x[2]] = l]
             /\ UNCHANGED <<session, version, toClient>>
    BY <1>1, <1>2, <2>3 DEF NetworkType, ServerType
  <2>4. CASE /\ toClient' = Told(l, << <<"answer", x[2], "no">> >>, FALSE)
             /\ UNCHANGED <<session, working, version>>
    <3>1. << <<"answer", x[2], "no">> >> \in Seq(ClientFrames)
      <4>1. <<"answer", x[2], "no">> \in ClientFrames
        BY <2>1, FramesWritten DEF Verdicts
      <4>2. QED
        BY <4>1, FrameRows
    <3>2. toClient' \in [Links -> Seq(ClientFrames)]
      BY <2>4, <3>1, ToldType
    <3>3. QED
      BY <1>1, <1>2, <2>4, <3>2 DEF NetworkType, ServerType
  <2>5. QED
    BY <1>5, <2>2, <2>3, <2>4 DEF Serve, server
<1>6. CASE x[1] = "look"
  <2>1. << <<"lot", version>> >> \in Seq(ClientFrames)
    BY <1>1, FramesWritten
  <2>2. /\ toClient' = Told(l, << <<"lot", version>> >>, FALSE)
        /\ UNCHANGED <<session, working, version>>
    BY <1>6 DEF Serve, Snapshot, server
  <2>3. toClient' \in [Links -> Seq(ClientFrames)]
    BY <2>1, <2>2, ToldType
  <2>4. QED
    BY <1>1, <1>2, <2>2, <2>3 DEF NetworkType, ServerType
<1>7. CASE x[1] = "fin"
  <2>1. End(l) /\ UNCHANGED toClient
    BY <1>7 DEF Serve
  <2>2. QED
    BY <1>1, <1>2, <2>1 DEF End, NetworkType, ServerType
<1>8. QED
  BY <1>4, <1>5, <1>6, <1>7 DEF Serve

\* Whatever happens.
LEMMA NetworkStep ==
  ASSUME IInv, Next
  PROVE  NetworkType /\ ServerType /\ good' \in BOOLEAN
<1>1. /\ Typed /\ me \in ClientType /\ Sound(me) /\ alive \subseteq Links /\ version \in Nat
      /\ toServer \in [Links -> Seq(ServerFrames)]
      /\ toClient \in [Links -> Seq(ClientFrames)]
      /\ session \in [Links -> {"none", "open", "authenticated"}]
      /\ working \in [Requests -> Links \union {"idle", "nobody"}]
      /\ good \in BOOLEAN
  BY DEF IInv, Typed, TypeOK
<1>2. UNCHANGED server => ServerType
  BY <1>1 DEF server, ServerType
<1>3. UNCHANGED network => NetworkType
  BY <1>1 DEF network, NetworkType
<1>4. CASE Start \/ Reconnect \/ Refused \/ Heartbeat \/ BeatAnswered
  BY <1>1, <1>2, <1>3, <1>4 DEF Start, Reconnect, Refused, Heartbeat, BeatAnswered
<1>5. CASE Stop \/ Watchdog \/ LateBeats \/ TransportFails
  BY <1>1, <1>2, <1>5, HangUpType DEF Stop, Watchdog, LateBeats, TransportFails
<1>6. CASE Connect
  <2>1. PICK l \in Links : /\ alive' = alive \union {l}
                           /\ toServer' = [toServer EXCEPT ![l] = << <<"login", good>> >>]
                           /\ session' = [session EXCEPT ![l] = "open"]
    BY <1>6 DEF Connect
  <2>2. UNCHANGED <<toClient, working, version, good>>
    BY <1>6 DEF Connect
  <2>3. << <<"login", good>> >> \in Seq(ServerFrames)
    <3>1. <<"login", good>> \in ServerFrames
      BY <1>1, FramesWritten
    <3>2. QED
      BY <3>1, FrameRows
  <2>4. NetworkType
    BY <1>1, <2>1, <2>2, <2>3 DEF NetworkType
  <2>5. ServerType
    BY <1>1, <2>1, <2>2 DEF ServerType
  <2>6. QED
    BY <1>1, <2>2, <2>4, <2>5
<1>7. ASSUME NEW r \in Requests, Request(r)
      PROVE  NetworkType /\ ServerType /\ good' \in BOOLEAN
  <2> DEFINE x == <<"ask", r, me.token>>
  <2>1. UNCHANGED <<alive, toClient, server, good>>
    BY <1>7 DEF Request
  <2>2. toServer' = toServer \/ toServer' = Written(toServer, me.link, x)
    BY <1>7 DEF Request
  <2>3. x \in ServerFrames
    BY <1>1, FramesWritten DEF ClientType
  <2> HIDE DEF x
  <2>4. toServer' \in [Links -> Seq(ServerFrames)]
    <3>1. toServer \in [Links -> Seq(ServerFrames)]
      BY <1>1
    <3>2. Written(toServer, me.link, x) \in [Links -> Seq(ServerFrames)]
      BY <2>3, <3>1, WrittenType
    <3>3. QED
      BY <2>2, <3>1, <3>2
  <2>5. QED
    BY <1>1, <1>2, <2>1, <2>4 DEF NetworkType
<1>8. CASE Receive
  <2> DEFINE x == <<"look", me.link>>
             y == <<"look", me.token>>
  <2>1. /\ UNCHANGED <<alive, server, good>> /\ me.link \in Links /\ toClient[me.link] # <<>>
        /\ toClient' = [toClient EXCEPT ![me.link] = Tail(@)]
    BY <1>1, <1>8 DEF Receive, Sound
  <2>2. toClient' \in [Links -> Seq(ClientFrames)]
    BY <1>1, <2>1
  <2>3. \/ toServer' = toServer
        \/ toServer' = Written(toServer, me.link, x)
        \/ toServer' = Written(toServer, me.link, y)
    BY <1>8 DEF Receive
  <2>4. x \in ServerFrames /\ y \in ServerFrames
    BY <1>1, FramesWritten DEF ClientType
  <2> HIDE DEF x, y
  <2>5. toServer' \in [Links -> Seq(ServerFrames)]
    <3>1. toServer \in [Links -> Seq(ServerFrames)]
      BY <1>1
    <3>2. /\ Written(toServer, me.link, x) \in [Links -> Seq(ServerFrames)]
          /\ Written(toServer, me.link, y) \in [Links -> Seq(ServerFrames)]
      BY <2>4, <3>1, WrittenType
    <3>3. QED
      BY <2>3, <3>1, <3>2
  <2>6. QED
    BY <1>1, <1>2, <2>1, <2>2, <2>5 DEF NetworkType
<1>9. ASSUME NEW l \in Links, Serve(l)
      PROVE  NetworkType /\ ServerType /\ good' \in BOOLEAN
  BY <1>1, <1>9, ServeType DEF Serve
<1>10. ASSUME NEW l \in Links, Kick(l) \/ Break(l)
       PROVE  NetworkType /\ ServerType /\ good' \in BOOLEAN
  BY <1>1, <1>10, DropType DEF Kick, Break, Drop
<1>11. ASSUME NEW l \in Links, Die(l)
       PROVE  NetworkType /\ ServerType /\ good' \in BOOLEAN
  <2>1. /\ alive' = alive \ {l} /\ UNCHANGED <<server, good>>
        /\ toServer' = [toServer EXCEPT ![l] = <<>>]
        /\ toClient' = [toClient EXCEPT ![l] = <<>>]
    BY <1>11 DEF Die
  <2>2. QED
    BY <1>1, <1>2, <2>1 DEF NetworkType
<1>12. ASSUME NEW r \in Requests, Finish(r)
       PROVE  NetworkType /\ ServerType /\ good' \in BOOLEAN
  <2>1. /\ working' = [working EXCEPT ![r] = "idle"] /\ Act(r, working[r])
        /\ UNCHANGED <<alive, toServer, session, good>>
    BY <1>12 DEF Finish, Concluded
  <2>2. version' \in Nat /\ toClient' \in [Links -> Seq(ClientFrames)]
    BY <1>1, <2>1, ActType
  <2>3. QED
    BY <1>1, <2>1, <2>2 DEF NetworkType, ServerType
<1>13. CASE ChangeElsewhere
  <2> DEFINE nothing == <<>>
  <2>1. /\ version' = version + 1 /\ toClient' = Told(None, nothing, TRUE)
        /\ UNCHANGED <<alive, toServer, session, working, good>>
    BY <1>13 DEF ChangeElsewhere, Relayed
  <2>2. nothing \in Seq(ClientFrames)
    OBVIOUS
  <2> HIDE DEF nothing
  <2>3. toClient' \in [Links -> Seq(ClientFrames)]
    <3>1. Told(None, nothing, TRUE) \in [Links -> Seq(ClientFrames)]
      BY <1>1, <2>2, ToldType
    <3>2. QED
      BY <2>1, <3>1
  <2>4. version' \in Nat
    BY <1>1, <2>1
  <2>5. QED
    BY <1>1, <2>1, <2>3, <2>4 DEF NetworkType, ServerType
<1>14. QED
  BY <1>4, <1>5, <1>6, <1>7, <1>8, <1>9, <1>10, <1>11, <1>12, <1>13 DEF Next

-----------------------------------------------------------------------------
(***************************************************************************)
(* Where a request is.  It is in one place at most: in the queue of one    *)
(* link, being worked on, or answered; and the answers, those on their way *)
(* and those given, agree with what became of the lot.                     *)
(***************************************************************************)

\* The requests in a queue to the server, in it once each; the answers in one to the
\* client.
AsksOf(q) == {r \in Requests : \E i \in DOMAIN q : q[i][1] = "ask" /\ q[i][2] = r}

Single(q) ==
    \A i, j \in DOMAIN q :
        q[i][1] = "ask" /\ q[j][1] = "ask" /\ q[i][2] = q[j][2] => i = j

AnswersIn(q) ==
    {x \in Requests \X Verdicts :
        \E i \in DOMAIN q : q[i][1] = "answer" /\ q[i][2] = x[1] /\ q[i][3] = x[2]}

Sent(r) == \E l \in Links : r \in AsksOf(toServer[l])
Reply(r, v) == \E l \in Links : <<r, v>> \in AnswersIn(toClient[l])
UnderWay(r) == Sent(r) \/ working[r] # "idle"
Untouched(r) == ~UnderWay(r) /\ applied[r] = 0
Fresh(r) == told[r] = "nothing" /\ r \notin me.pending

Once(r) ==
    /\ applied[r] \in {0, 1}
    /\ ~(Sent(r) /\ working[r] # "idle")
    /\ UnderWay(r) => applied[r] = 0
    /\ UnderWay(r) \/ Fresh(r) \/ told[r] = "offline" => \A v \in Verdicts : ~Reply(r, v)
    /\ Fresh(r) \/ told[r] = "offline" => Untouched(r)
    /\ Reply(r, "ok") \/ told[r] = "ok" => applied[r] = 1
    /\ Reply(r, "no") \/ told[r] = "no" => Untouched(r)

Apart ==
    /\ \A l \in Links : Single(toServer[l])
    /\ \A l, k \in Links : l # k => AsksOf(toServer[l]) \intersect AsksOf(toServer[k]) = {}

OnceInv ==
    /\ applied \in [Requests -> Nat]
    /\ Apart
    /\ \A r \in Requests : Once(r)

\* What the operations on queues do to the requests and the answers in them.
LEMMA EmptyQueue == AsksOf(<<>>) = {} /\ Single(<<>>) /\ AnswersIn(<<>>) = {}
BY DEF AsksOf, Single, AnswersIn

LEMMA AppendQueue ==
  ASSUME NEW S, NEW q \in Seq(S), NEW x
  PROVE  /\ x[1] # "ask" => AsksOf(Append(q, x)) = AsksOf(q)
         /\ x[1] # "ask" /\ Single(q) => Single(Append(q, x))
         /\ \A r \in Requests : x[1] = "ask" /\ x[2] = r /\ r \notin AsksOf(q) /\ Single(q) =>
                AsksOf(Append(q, x)) = AsksOf(q) \union {r} /\ Single(Append(q, x))
         /\ x[1] # "answer" => AnswersIn(Append(q, x)) = AnswersIn(q)
<1> DEFINE n == Len(q)
           a == Append(q, x)
<1>1. /\ n \in Nat /\ DOMAIN q = 1 .. n /\ DOMAIN a = 1 .. n + 1
      /\ a[n + 1] = x /\ \A i \in 1 .. n : a[i] = q[i]
  OBVIOUS
<1> HIDE DEF n, a
<1>2. \A i \in DOMAIN a : i \in DOMAIN q \/ i = n + 1
  BY <1>1
<1>3. n + 1 \in DOMAIN a /\ DOMAIN q \subseteq DOMAIN a
  BY <1>1
<1>4. x[1] # "ask" => AsksOf(a) = AsksOf(q)
  BY <1>1, <1>2, <1>3 DEF AsksOf
<1>5. x[1] # "ask" /\ Single(q) => Single(a)
  BY <1>1, <1>2, <1>3 DEF Single
<1>6. ASSUME NEW r \in Requests, x[1] = "ask", x[2] = r, r \notin AsksOf(q), Single(q)
      PROVE  AsksOf(a) = AsksOf(q) \union {r} /\ Single(a)
  <2>1. AsksOf(a) = AsksOf(q) \union {r}
    BY <1>1, <1>2, <1>3, <1>6 DEF AsksOf
  <2>2. \A i \in DOMAIN q : ~(q[i][1] = "ask" /\ q[i][2] = r)
    BY <1>6 DEF AsksOf
  <2>3. Single(a)
    BY <1>1, <1>2, <1>3, <1>6, <2>2 DEF Single
  <2>4. QED
    BY <2>1, <2>3
<1>7. x[1] # "answer" => AnswersIn(a) = AnswersIn(q)
  BY <1>1, <1>2, <1>3 DEF AnswersIn
<1>8. QED
  BY <1>4, <1>5, <1>6, <1>7 DEF a

LEMMA TailQueue ==
  ASSUME NEW S, NEW q \in Seq(S), q # <<>>
  PROVE  /\ AsksOf(Tail(q)) \subseteq AsksOf(q)
         /\ Single(q) => Single(Tail(q))
         /\ Head(q)[1] = "ask" /\ Single(q) => Head(q)[2] \notin AsksOf(Tail(q))
         /\ Head(q)[1] = "ask" /\ Head(q)[2] \in Requests => Head(q)[2] \in AsksOf(q)
         /\ AnswersIn(Tail(q)) \subseteq AnswersIn(q)
         /\ Head(q)[1] = "answer" /\ <<Head(q)[2], Head(q)[3]>> \in Requests \X Verdicts =>
                <<Head(q)[2], Head(q)[3]>> \in AnswersIn(q)
<1> DEFINE n == Len(q)
           t == Tail(q)
<1>1. /\ n \in Nat /\ n >= 1 /\ DOMAIN q = 1 .. n /\ DOMAIN t = 1 .. n - 1
      /\ Head(q) = q[1] /\ \A i \in 1 .. n - 1 : t[i] = q[i + 1]
  OBVIOUS
<1> HIDE DEF n, t
<1>2. \A i \in DOMAIN t : i + 1 \in DOMAIN q /\ t[i] = q[i + 1] /\ i + 1 # 1
  BY <1>1
<1>3. 1 \in DOMAIN q /\ DOMAIN t \subseteq Int
  BY <1>1
<1>4. AsksOf(t) \subseteq AsksOf(q)
  BY <1>2 DEF AsksOf
<1>5. Single(q) => Single(t)
  <2> SUFFICES ASSUME Single(q), NEW i \in DOMAIN t, NEW j \in DOMAIN t,
                      t[i][1] = "ask", t[j][1] = "ask", t[i][2] = t[j][2]
               PROVE  i = j
    BY DEF Single
  <2>1. i + 1 = j + 1
    BY <1>2 DEF Single
  <2>2. QED
    BY <1>3, <2>1
<1>6. Head(q)[1] = "ask" /\ Single(q) => Head(q)[2] \notin AsksOf(t)
  BY <1>1, <1>2, <1>3 DEF AsksOf, Single
<1>7. Head(q)[1] = "ask" /\ Head(q)[2] \in Requests => Head(q)[2] \in AsksOf(q)
  BY <1>1, <1>3 DEF AsksOf
<1>8. AnswersIn(t) \subseteq AnswersIn(q)
  BY <1>2 DEF AnswersIn
<1>9. Head(q)[1] = "answer" /\ <<Head(q)[2], Head(q)[3]>> \in Requests \X Verdicts =>
          <<Head(q)[2], Head(q)[3]>> \in AnswersIn(q)
  BY <1>1, <1>3 DEF AnswersIn
<1>10. QED
  BY <1>4, <1>5, <1>6, <1>7, <1>8, <1>9 DEF t

LEMMA JoinedQueues ==
  ASSUME NEW S, NEW q \in Seq(S), NEW p \in Seq(S)
  PROVE  AnswersIn(q \o p) \subseteq AnswersIn(q) \union AnswersIn(p)
<1> DEFINE n == Len(q)
           j == q \o p
<1>1. /\ n \in Nat /\ Len(p) \in Nat /\ DOMAIN q = 1 .. n /\ DOMAIN p = 1 .. Len(p)
      /\ DOMAIN j = 1 .. n + Len(p)
      /\ \A i \in 1 .. n + Len(p) : j[i] = IF i <= n THEN q[i] ELSE p[i - n]
  OBVIOUS
<1> HIDE DEF n, j
<1>2. \A i \in DOMAIN j : \/ i \in DOMAIN q /\ j[i] = q[i]
                          \/ i - n \in DOMAIN p /\ j[i] = p[i - n]
  BY <1>1
<1>3. AnswersIn(j) \subseteq AnswersIn(q) \union AnswersIn(p)
  BY <1>2 DEF AnswersIn
<1>4. QED
  BY <1>3 DEF j

\* A step after which no request and no answer is where there was none, nothing more is
\* applied, and nobody is told anything but that the connection was lost.
NothingNew ==
    /\ \A l \in Links : /\ Single(toServer'[l])
                        /\ AsksOf(toServer'[l]) \subseteq AsksOf(toServer[l])
                        /\ AnswersIn(toClient'[l]) \subseteq AnswersIn(toClient[l])
    /\ \A r \in Requests : working'[r] = "idle" <=> working[r] = "idle"
    /\ applied' = applied

OnlyLost == \A r \in Requests :
    told'[r] = told[r] \/ (r \in me.pending /\ told'[r] = "lost")

\* No request becomes fresh again.
LEMMA MoveFresh ==
  ASSUME Typed, NotTold, Move
  PROVE  \A r \in Requests : Fresh(r)' => Fresh(r)
<1>0. me.pending \subseteq Requests /\ told \in [Requests -> {"nothing"} \union Outcomes]
  BY DEF Typed, TypeOK, ClientType, Outcomes
<1>1. CASE Quiet
  BY <1>1 DEF Quiet, Fresh
<1>2. ASSUME NEW r \in Requests, Asks(r)
      PROVE  \A x \in Requests : Fresh(x)' => Fresh(x)
  BY <1>2 DEF Asks, Fresh
<1>3. ASSUME NEW R \in SUBSET Requests, NEW outcome \in Outcomes, Tells(R, outcome)
      PROVE  \A x \in Requests : Fresh(x)' => Fresh(x)
  <2>1. /\ told' = [r \in Requests |-> IF r \in R THEN outcome ELSE told[r]]
        /\ me'.pending = me.pending \ R /\ outcome # "nothing"
    BY <1>3 DEF Tells, Tell, Outcomes
  <2>2. QED
    BY <2>1 DEF Fresh
<1>4. QED
  BY <1>1, <1>2, <1>3 DEF Move

LEMMA NothingNewOnce ==
  ASSUME IInv, OnceInv, Move, NothingNew, OnlyLost
  PROVE  OnceInv'
<1>1. \A r \in Requests : Fresh(r)' => Fresh(r)
  BY MoveFresh DEF IInv
<1>2. Apart'
  BY DEF OnceInv, Apart, NothingNew
<1>3. ASSUME NEW r \in Requests
      PROVE  Once(r)'
  <2>1. Once(r)
    BY DEF OnceInv
  <2>2. /\ Sent(r)' => Sent(r)
        /\ \A v \in Verdicts : Reply(r, v)' => Reply(r, v)
        /\ working'[r] = "idle" <=> working[r] = "idle"
        /\ applied'[r] = applied[r]
    BY DEF NothingNew, Sent, Reply
  <2>3. UnderWay(r)' => UnderWay(r)
    BY <2>2 DEF UnderWay
  <2>4. Untouched(r) => Untouched(r)'
    BY <2>2, <2>3 DEF Untouched
  <2>5. Fresh(r)' => Fresh(r)
    BY <1>1
  <2>6. /\ told'[r] = "offline" => told[r] = "offline"
        /\ told'[r] = "ok" => told[r] = "ok"
        /\ told'[r] = "no" => told[r] = "no"
    BY DEF OnlyLost
  <2>7. "ok" \in Verdicts /\ "no" \in Verdicts
    BY DEF Verdicts
  <2>8. QED
    BY <2>1, <2>2, <2>3, <2>4, <2>5, <2>6, <2>7 DEF Once
<1>4. QED
  BY <1>2, <1>3 DEF OnceInv, NothingNew

\* The queues of a state.
LEMMA Queues ==
  ASSUME Typed, NEW l \in Links
  PROVE  /\ toServer[l] \in Seq(ServerFrames) /\ toClient[l] \in Seq(ClientFrames)
         /\ DOMAIN toServer = Links /\ DOMAIN toClient = Links
BY DEF Typed

\* Frames that are neither a request nor an answer change nothing.
LEMMA PlainFrames ==
  /\ <<"fin">>[1] \notin {"ask", "answer"}
  /\ \A b : <<"login", b>>[1] \notin {"ask", "answer"}
  /\ \A k : <<"look", k>>[1] \notin {"ask", "answer"}
OBVIOUS

LEMMA HangUpNew ==
  ASSUME IInv, OnceInv, HangUp, UNCHANGED server
  PROVE  NothingNew
<1>1. UNCHANGED <<working, applied>>
  BY DEF server
<1>2. ASSUME NEW l \in Links
      PROVE  Single(toServer'[l]) /\ AsksOf(toServer'[l]) \subseteq AsksOf(toServer[l])
  <2>1. Single(toServer[l]) /\ toServer[l] \in Seq(ServerFrames) /\ DOMAIN toServer = Links
    BY Queues DEF OnceInv, Apart, IInv
  <2>2. CASE toServer'[l] = toServer[l]
    BY <2>1, <2>2
  <2>3. CASE toServer'[l] # toServer[l]
    <3>1. PICK rest \in {toServer[l], <<>>} : toServer'[l] = Append(rest, <<"fin">>)
      BY <2>1, <2>3 DEF HangUp
    <3>2. rest \in Seq(ServerFrames) /\ Single(rest) /\ AsksOf(rest) \subseteq AsksOf(toServer[l])
      <4>1. CASE rest = toServer[l]
        BY <2>1, <4>1
      <4>2. CASE rest = <<>>
        BY <4>2, EmptyQueue
      <4>3. QED
        BY <3>1, <4>1, <4>2
    <3> DEFINE fin == <<"fin">>
    <3>3. fin[1] # "ask"
      OBVIOUS
    <3> HIDE DEF fin
    <3>4. Single(Append(rest, fin)) /\ AsksOf(Append(rest, fin)) = AsksOf(rest)
      BY <3>2, <3>3, AppendQueue
    <3>5. QED
      BY <3>1, <3>2, <3>4 DEF fin
  <2>4. QED
    BY <2>2, <2>3
<1>3. ASSUME NEW l \in Links
      PROVE  AnswersIn(toClient'[l]) \subseteq AnswersIn(toClient[l])
  BY EmptyQueue DEF HangUp
<1>4. QED
  BY <1>1, <1>2, <1>3 DEF NothingNew

LEMMA WrittenNew ==
  ASSUME IInv, OnceInv, NEW k, NEW x, x[1] \notin {"ask", "answer"}, NEW l \in Links
  PROVE  /\ Single(Written(toServer, k, x)[l])
         /\ AsksOf(Written(toServer, k, x)[l]) = AsksOf(toServer[l])
         /\ AnswersIn(Written(toClient, k, x)[l]) = AnswersIn(toClient[l])
<1>1. /\ Single(toServer[l]) /\ toServer[l] \in Seq(ServerFrames)
      /\ toClient[l] \in Seq(ClientFrames) /\ DOMAIN toServer = Links /\ DOMAIN toClient = Links
  BY Queues DEF OnceInv, Apart, IInv
<1>2. /\ Single(Append(toServer[l], x)) /\ AsksOf(Append(toServer[l], x)) = AsksOf(toServer[l])
      /\ AnswersIn(Append(toClient[l], x)) = AnswersIn(toClient[l])
  BY <1>1, AppendQueue
<1>3. /\ Written(toServer, k, x)[l] \in {toServer[l], Append(toServer[l], x)}
      /\ Written(toClient, k, x)[l] \in {toClient[l], Append(toClient[l], x)}
  BY <1>1 DEF Written
<1>4. QED
  BY <1>1, <1>2, <1>3

\* Events and frames without an answer add none.
LEMMA ToldNew ==
  ASSUME Typed, NEW k, NEW frames \in Seq(ClientFrames), NEW changed, NEW l \in Links
  PROVE  AnswersIn(Told(k, frames, changed)[l]) \subseteq AnswersIn(toClient[l]) \union AnswersIn(frames)
<1> DEFINE event == << <<"event">> >>
           a == IF changed /\ session[l] = "authenticated" /\ l \in alive THEN event ELSE <<>>
           b == IF l = k /\ l \in alive THEN frames ELSE <<>>
<1>1. toClient[l] \in Seq(ClientFrames)
  BY Queues
<1>2. event \in Seq(ClientFrames) /\ AnswersIn(event) = {}
  <2>1. event \in Seq(ClientFrames)
    BY DEF ClientFrames
  <2>2. DOMAIN event = {1} /\ event[1][1] = "event"
    OBVIOUS
  <2>3. QED
    BY <2>1, <2>2 DEF AnswersIn
<1> HIDE DEF event
<1>3. a \in Seq(ClientFrames) /\ AnswersIn(a) = {}
  BY <1>2, EmptyQueue
<1>4. b \in Seq(ClientFrames) /\ AnswersIn(b) \subseteq AnswersIn(frames)
  BY EmptyQueue
<1>5. Told(k, frames, changed)[l] = (toClient[l] \o a) \o b
  BY DEF Told, event
<1> HIDE DEF a, b
<1>6. toClient[l] \o a \in Seq(ClientFrames)
  BY <1>1, <1>3
<1>7. AnswersIn(toClient[l] \o a) \subseteq AnswersIn(toClient[l])
  BY <1>1, <1>3, JoinedQueues
<1>8. AnswersIn((toClient[l] \o a) \o b) \subseteq AnswersIn(toClient[l]) \union AnswersIn(frames)
  <2> DEFINE p == toClient[l] \o a
  <2>1. p \in Seq(ClientFrames)
    BY <1>6
  <2> HIDE DEF p
  <2>2. AnswersIn(p \o b) \subseteq AnswersIn(p) \union AnswersIn(b)
    BY <1>4, <2>1, JoinedQueues
  <2>3. QED
    BY <1>4, <1>7, <2>2 DEF p
<1>9. QED
  BY <1>5, <1>8

\* The client asks, or turns the user down.
LEMMA RequestOnce ==
  ASSUME IInv, OnceInv, NEW r \in Requests, Request(r)
  PROVE  OnceInv'
<1>1. /\ Fresh(r) /\ UNCHANGED <<toClient, working, applied>>
      /\ me \in ClientType /\ told \in [Requests -> {"nothing", "ok", "no", "lost", "offline"}]
      /\ "ok" \in Verdicts /\ "no" \in Verdicts
  BY DEF Request, Fresh, server, IInv, Typed, TypeOK, Verdicts
<1>2. Untouched(r) /\ \A v \in Verdicts : ~Reply(r, v)
  BY <1>1 DEF OnceInv, Once
<1>3. \A x \in Requests, v \in Verdicts : Reply(x, v)' <=> Reply(x, v)
  BY <1>1 DEF Reply
<1>4. CASE Ready
  <2> DEFINE x == <<"ask", r, me.token>>
  <2>1. /\ me'.pending = me.pending \union {r} /\ UNCHANGED told
        /\ toServer' = Written(toServer, me.link, x)
    BY <1>1, <1>4 DEF Request, ClientType
  <2>2. x[1] = "ask" /\ x[2] = r
    OBVIOUS
  <2> HIDE DEF x
  <2>3. ASSUME NEW l \in Links
        PROVE  /\ Single(toServer'[l])
               /\ \/ AsksOf(toServer'[l]) = AsksOf(toServer[l])
                  \/ l = me.link /\ AsksOf(toServer'[l]) = AsksOf(toServer[l]) \union {r}
    <3>1. /\ toServer[l] \in Seq(ServerFrames) /\ Single(toServer[l]) /\ DOMAIN toServer = Links
          /\ r \notin AsksOf(toServer[l])
      BY <1>2, Queues DEF IInv, OnceInv, Apart, Untouched, UnderWay, Sent
    <3>2. /\ Single(Append(toServer[l], x))
          /\ AsksOf(Append(toServer[l], x)) = AsksOf(toServer[l]) \union {r}
      BY <2>2, <3>1, AppendQueue
    <3>3. \/ toServer'[l] = toServer[l]
          \/ l = me.link /\ toServer'[l] = Append(toServer[l], x)
      BY <2>1, <3>1 DEF Written
    <3>4. QED
      BY <3>1, <3>2, <3>3
  <2>4. \A l \in Links : r \notin AsksOf(toServer[l])
    BY <1>2 DEF Untouched, UnderWay, Sent
  <2>5. Apart'
    BY <2>3, <2>4 DEF OnceInv, Apart
  <2>6. ASSUME NEW y \in Requests
        PROVE  Once(y)'
    <3>1. Once(y)
      BY DEF OnceInv
    <3>2. CASE y = r
      <4>1. ~Fresh(r)' /\ told'[r] = "nothing"
        BY <1>1, <2>1 DEF Fresh
      <4>2. working'[r] = "idle" /\ applied'[r] = 0 /\ \A v \in Verdicts : ~Reply(r, v)'
        BY <1>1, <1>2, <1>3 DEF Untouched, UnderWay
      <4>3. QED
        BY <1>1, <3>2, <4>1, <4>2 DEF Once
    <3>3. CASE y # r
      <4>1. Sent(y)' <=> Sent(y)
        BY <2>3, <3>3 DEF Sent
      <4>2. Fresh(y)' <=> Fresh(y)
        BY <2>1, <3>3 DEF Fresh
      <4>3. (UnderWay(y)' <=> UnderWay(y)) /\ (Untouched(y)' <=> Untouched(y))
        BY <1>1, <4>1 DEF UnderWay, Untouched
      <4>4. QED
        BY <1>1, <1>3, <2>1, <3>1, <4>1, <4>2, <4>3 DEF Once
    <3>4. QED
      BY <3>2, <3>3
  <2>7. QED
    BY <1>1, <2>5, <2>6 DEF OnceInv
<1>5. CASE ~Ready
  <2>1. /\ UNCHANGED <<me, toServer>>
        /\ told' = [x \in Requests |-> IF x \in {r} THEN "offline" ELSE told[x]]
    BY <1>5 DEF Request, Tell
  <2>2. \A y \in Requests : (Sent(y)' <=> Sent(y)) /\ (UnderWay(y)' <=> UnderWay(y))
                            /\ (Untouched(y)' <=> Untouched(y))
    BY <1>1, <2>1 DEF Sent, UnderWay, Untouched
  <2>3. \A y \in Requests : Fresh(y)' => Fresh(y)
    BY <2>1 DEF Fresh
  <2>4. ASSUME NEW y \in Requests
        PROVE  Once(y)'
    <3>1. Once(y)
      BY DEF OnceInv
    <3>2. told'[y] = told[y] \/ (y = r /\ told'[y] = "offline")
      BY <2>1
    <3>3. CASE told'[y] = told[y]
      BY <1>1, <1>3, <2>2, <2>3, <3>1, <3>3 DEF Once
    <3>4. CASE y = r /\ told'[y] = "offline"
      BY <1>1, <1>2, <1>3, <2>2, <3>1, <3>4 DEF Once
    <3>5. QED
      BY <3>2, <3>3, <3>4
  <2>5. Apart'
    BY <2>1 DEF OnceInv, Apart
  <2>6. QED
    BY <1>1, <2>4, <2>5 DEF OnceInv
<1>6. QED
  BY <1>4, <1>5

\* The request r, which is under way, is carried out, refused or put to work.
Served(r, v) ==
    /\ UNCHANGED <<me, told>> /\ applied' \in [Requests -> Nat]
    /\ \A l \in Links : /\ Single(toServer'[l])
                        /\ AsksOf(toServer'[l]) \subseteq AsksOf(toServer[l])
                        /\ AnswersIn(toClient'[l]) \subseteq AnswersIn(toClient[l]) \union {<<r, v>>}
    /\ \A x \in Requests \ {r} : /\ working'[x] = "idle" <=> working[x] = "idle"
                                 /\ applied'[x] = applied[x]
    /\ \A l \in Links : r \notin AsksOf(toServer'[l])
    /\ \/ v = "ok" /\ applied'[r] = applied[r] + 1 /\ working'[r] = "idle"
       \/ v = "no" /\ applied'[r] = applied[r] /\ working'[r] = "idle"
       \/ v = "none" /\ applied'[r] = applied[r] /\ working'[r] # "idle"

LEMMA ServedOnce ==
  ASSUME IInv, OnceInv, NEW r \in Requests, NEW v, UnderWay(r), Served(r, v)
  PROVE  OnceInv'
<1>0. "ok" \in Verdicts /\ "no" \in Verdicts /\ "none" \notin Verdicts
  BY DEF Verdicts
<1>1. Apart'
  BY DEF OnceInv, Apart, Served
<1>2. Once(r)'
  <2>1. Once(r)
    BY DEF OnceInv
  <2>2. /\ applied[r] = 0 /\ \A w \in Verdicts : ~Reply(r, w)
        /\ ~Fresh(r) /\ told[r] \notin {"offline", "ok", "no"}
    BY <2>1 DEF Once, Untouched
  <2>3. ~Sent(r)'
    BY DEF Served, Sent
  <2>4. \A w \in Verdicts : Reply(r, w)' => w = v
    BY <2>2 DEF Served, Reply
  <2>5. ~Fresh(r)' /\ told'[r] \notin {"offline", "ok", "no"}
    BY <2>2 DEF Served, Fresh
  <2>6. CASE v = "ok" /\ applied'[r] = applied[r] + 1 /\ working'[r] = "idle"
    BY <1>0, <2>2, <2>3, <2>4, <2>5, <2>6 DEF Once, UnderWay
  <2>7. CASE v = "no" /\ applied'[r] = applied[r] /\ working'[r] = "idle"
    BY <1>0, <2>2, <2>3, <2>4, <2>5, <2>7 DEF Once, UnderWay, Untouched
  <2>8. CASE v = "none" /\ applied'[r] = applied[r] /\ working'[r] # "idle"
    BY <1>0, <2>2, <2>3, <2>4, <2>5, <2>8 DEF Once, UnderWay, Untouched
  <2>9. QED
    BY <2>6, <2>7, <2>8 DEF Served
<1>3. ASSUME NEW y \in Requests, y # r
      PROVE  Once(y)'
  <2>1. Once(y)
    BY DEF OnceInv
  <2>2. \A w \in Verdicts : Reply(y, w)' => Reply(y, w)
    BY <1>3 DEF Served, Reply
  <2>3. (Sent(y)' => Sent(y)) /\ (Fresh(y)' <=> Fresh(y)) /\ told'[y] = told[y]
    BY DEF Served, Sent, Fresh
  <2>4. (working'[y] = "idle" <=> working[y] = "idle") /\ applied'[y] = applied[y]
    BY <1>3 DEF Served
  <2>5. (UnderWay(y)' => UnderWay(y)) /\ (Untouched(y) => Untouched(y)')
    BY <2>3, <2>4 DEF UnderWay, Untouched
  <2>6. QED
    BY <1>0, <2>1, <2>2, <2>3, <2>4, <2>5 DEF Once
<1>4. QED
  BY <1>1, <1>2, <1>3 DEF OnceInv, Served

\* The frames of an answer.
LEMMA AnswerFrame ==
  ASSUME NEW r \in Requests, NEW v \in Verdicts
  PROVE  /\ << <<"answer", r, v>> >> \in Seq(ClientFrames)
         /\ AnswersIn(<< <<"answer", r, v>> >>) = {<<r, v>>}
<1> DEFINE x == <<"answer", r, v>>
           q == <<x>>
<1>1. x \in ClientFrames
  BY FramesWritten
<1>2. x[1] = "answer" /\ x[2] = r /\ x[3] = v
  OBVIOUS
<1> HIDE DEF x
<1>3. q \in Seq(ClientFrames) /\ DOMAIN q = {1} /\ q[1] = x
  BY <1>1
<1> HIDE DEF q
<1>4. AnswersIn(q) = {<<r, v>>}
  BY <1>2, <1>3 DEF AnswersIn
<1>5. QED
  BY <1>3, <1>4 DEF q, x

\* What Act does, when the request has left the queues.
LEMMA ActServes ==
  ASSUME IInv, OnceInv, NEW r \in Requests, NEW k, Act(r, k), UnderWay(r),
         UNCHANGED <<me, told>>,
         \A l \in Links : /\ Single(toServer'[l])
                          /\ AsksOf(toServer'[l]) \subseteq AsksOf(toServer[l])
                          /\ r \notin AsksOf(toServer'[l]),
         \A x \in Requests \ {r} : working'[x] = "idle" <=> working[x] = "idle",
         working'[r] = "idle"
  PROVE  OnceInv'
<1>0. Typed /\ applied[r] \in {0, 1} /\ "ok" \in Verdicts /\ "no" \in Verdicts
      /\ applied \in [Requests -> Nat]
  BY DEF IInv, OnceInv, Once, Verdicts
<1>1. ASSUME applied' = [applied EXCEPT ![r] = @ + 1],
             toClient' = Told(k, << <<"answer", r, "ok">> >>, TRUE)
      PROVE  OnceInv'
  <2>1. \A l \in Links :
            AnswersIn(toClient'[l]) \subseteq AnswersIn(toClient[l]) \union {<<r, "ok">>}
    <3> DEFINE q == << <<"answer", r, "ok">> >>
    <3>0. toClient' = Told(k, q, TRUE)
      BY <1>1
    <3>1. q \in Seq(ClientFrames) /\ AnswersIn(q) = {<<r, "ok">>}
      BY <1>0, AnswerFrame
    <3> HIDE DEF q
    <3>2. \A l \in Links : AnswersIn(Told(k, q, TRUE)[l])
                               \subseteq AnswersIn(toClient[l]) \union AnswersIn(q)
      BY <1>0, <3>1, ToldNew
    <3>3. QED
      BY <3>0, <3>1, <3>2
  <2>2. /\ applied' \in [Requests -> Nat] /\ applied'[r] = applied[r] + 1
        /\ \A x \in Requests \ {r} : applied'[x] = applied[x]
    BY <1>0, <1>1
  <2>3. Served(r, "ok")
    BY <2>1, <2>2, ZenonT(30) DEF Served
  <2>4. QED
    BY <2>3, ServedOnce
<1>2. ASSUME applied' = applied, toClient' = Told(k, << <<"answer", r, "no">> >>, FALSE)
      PROVE  OnceInv'
  <2>1. \A l \in Links :
            AnswersIn(toClient'[l]) \subseteq AnswersIn(toClient[l]) \union {<<r, "no">>}
    <3> DEFINE q == << <<"answer", r, "no">> >>
    <3>0. toClient' = Told(k, q, FALSE)
      BY <1>2
    <3>1. q \in Seq(ClientFrames) /\ AnswersIn(q) = {<<r, "no">>}
      BY <1>0, AnswerFrame
    <3> HIDE DEF q
    <3>2. \A l \in Links : AnswersIn(Told(k, q, FALSE)[l])
                               \subseteq AnswersIn(toClient[l]) \union AnswersIn(q)
      BY <1>0, <3>1, ToldNew
    <3>3. QED
      BY <3>0, <3>1, <3>2
  <2>2. applied' \in [Requests -> Nat] /\ \A x \in Requests : applied'[x] = applied[x]
    BY <1>0, <1>2
  <2>3. Served(r, "no")
    BY <2>1, <2>2, ZenonT(30) DEF Served
  <2>4. QED
    BY <2>3, ServedOnce
<1>3. QED
  BY <1>1, <1>2 DEF Act

\* An answer arrives: the callback of its request runs, if that is still pending.
LEMMA AnswerOnce ==
  ASSUME IInv, OnceInv, Receive, Head(toClient[me.link])[1] = "answer"
  PROVE  OnceInv'
<1> DEFINE x == Head(toClient[me.link])
           r == x[2]
           v == x[3]
           R == me.pending \intersect {r}
<1>1. /\ me \in ClientType /\ me.link \in Links /\ toClient[me.link] # <<>>
      /\ toClient[me.link] \in Seq(ClientFrames) /\ DOMAIN toClient = Links
      /\ told \in [Requests -> {"nothing", "ok", "no", "lost", "offline"}]
      /\ "ok" \in Verdicts /\ "no" \in Verdicts
  BY Queues DEF IInv, Typed, TypeOK, Receive, Sound, Verdicts
<1>2. /\ toClient' = [toClient EXCEPT ![me.link] = Tail(@)]
      /\ me' = [me EXCEPT !.pending = @ \ R] /\ Tell(R, v)
      /\ UNCHANGED <<toServer, working, applied>>
  BY DEF Receive, Matched, server
<1>3. r \in Requests /\ v \in Verdicts
  BY <1>1, ClientFrameKinds
<1>4. Reply(r, v)
  <2>1. <<r, v>> \in AnswersIn(toClient[me.link])
    BY <1>1, <1>3, TailQueue
  <2>2. QED
    BY <1>1, <2>1 DEF Reply
<1> HIDE DEF x, r, v, R
<1>5. \A y \in Requests, w \in Verdicts : Reply(y, w)' => Reply(y, w)
  <2>1. \A l \in Links : AnswersIn(toClient'[l]) \subseteq AnswersIn(toClient[l])
    BY <1>1, <1>2, TailQueue
  <2>2. QED
    BY <2>1 DEF Reply
<1>6. /\ R \subseteq {r} /\ R \subseteq me.pending
      /\ me'.pending = me.pending \ R
      /\ \A y \in Requests : told'[y] = IF y \in R THEN v ELSE told[y]
  BY <1>1, <1>2 DEF R, ClientType, Tell
<1>7. \A y \in Requests : (Sent(y)' <=> Sent(y)) /\ (UnderWay(y)' <=> UnderWay(y))
                          /\ (Untouched(y)' <=> Untouched(y))
  BY <1>2 DEF Sent, UnderWay, Untouched
<1>8. \A y \in Requests : Fresh(y)' => Fresh(y)
  BY <1>3, <1>6 DEF Fresh, Verdicts
<1>9. ASSUME NEW y \in Requests
      PROVE  Once(y)'
  <2>1. Once(y)
    BY DEF OnceInv
  <2>2. CASE y \notin R
    <3>1. told'[y] = told[y]
      BY <1>6, <2>2
    <3>2. QED
      BY <1>1, <1>2, <1>5, <1>7, <1>8, <2>1, <3>1 DEF Once
  <2>3. CASE y \in R
    <3>1. y = r /\ told'[y] = v /\ ~Fresh(y)'
      BY <1>1, <1>3, <1>6, <2>3 DEF Fresh, Verdicts
    <3>2. CASE v = "ok"
      BY <1>1, <1>2, <1>4, <1>5, <1>7, <2>1, <3>1, <3>2 DEF Once
    <3>3. CASE v = "no"
      BY <1>1, <1>2, <1>4, <1>5, <1>7, <2>1, <3>1, <3>3 DEF Once
    <3>4. QED
      BY <1>3, <3>2, <3>3 DEF Verdicts
  <2>4. QED
    BY <2>2, <2>3
<1>10. Apart'
  BY <1>2 DEF OnceInv, Apart
<1>11. QED
  BY <1>2, <1>9, <1>10 DEF OnceInv

\* Every other frame leaves the requests where they are.
LEMMA ReceiveNew ==
  ASSUME IInv, OnceInv, Receive, Head(toClient[me.link])[1] # "answer"
  PROVE  NothingNew /\ OnlyLost
<1> DEFINE x == <<"look", me.link>>
           y == <<"look", me.token>>
<1>1. /\ me \in ClientType /\ me.link \in Links /\ toClient[me.link] # <<>>
      /\ toClient[me.link] \in Seq(ClientFrames) /\ DOMAIN toClient = Links
      /\ \A l \in Links : Single(toServer[l])
  BY Queues DEF IInv, Typed, TypeOK, Receive, Sound, OnceInv, Apart
<1>2. /\ toClient' = [toClient EXCEPT ![me.link] = Tail(@)] /\ UNCHANGED <<working, applied>>
      /\ UNCHANGED told \/ \E m : Lose(m)
  BY DEF Receive, server
<1>3. OnlyLost
  BY <1>1, <1>2 DEF OnlyLost, Lose, Tell, ClientType
<1>4. \/ toServer' = toServer
      \/ toServer' = Written(toServer, me.link, x)
      \/ toServer' = Written(toServer, me.link, y)
  BY DEF Receive
<1>5. x[1] \notin {"ask", "answer"} /\ y[1] \notin {"ask", "answer"}
  BY PlainFrames
<1> HIDE DEF x, y
<1>6. \A l \in Links : Single(toServer'[l]) /\ AsksOf(toServer'[l]) \subseteq AsksOf(toServer[l])
  BY <1>1, <1>4, <1>5, WrittenNew
<1>7. \A l \in Links : AnswersIn(toClient'[l]) \subseteq AnswersIn(toClient[l])
  BY <1>1, <1>2, TailQueue
<1>8. QED
  BY <1>2, <1>3, <1>6, <1>7 DEF NothingNew

\* The server reads a frame.
LEMMA ServeOnce ==
  ASSUME IInv, OnceInv, NEW l \in Links, Serve(l), Move
  PROVE  OnceInv'
<1> DEFINE x == Head(toServer[l])
           r == x[2]
<1>1. /\ toServer[l] \in Seq(ServerFrames) /\ toServer[l] # <<>> /\ DOMAIN toServer = Links
      /\ Single(toServer[l]) /\ UNCHANGED <<me, told>>
      /\ toServer' = [toServer EXCEPT ![l] = Tail(@)] /\ Typed
      /\ applied \in [Requests -> Nat] /\ working \in [Requests -> Links \union {"idle", "nobody"}]
  BY Queues DEF IInv, OnceInv, Apart, Serve, Typed, TypeOK
<1>2. x \in ServerFrames
  BY <1>1
<1>3. \A k \in Links : Single(toServer'[k]) /\ AsksOf(toServer'[k]) \subseteq AsksOf(toServer[k])
  <2>1. Single(Tail(toServer[l])) /\ AsksOf(Tail(toServer[l])) \subseteq AsksOf(toServer[l])
    BY <1>1, TailQueue
  <2>2. QED
    BY <1>1, <2>1 DEF OnceInv, Apart
<1>4. CASE x[1] = "ask"
  <2>1. r \in Requests
    BY <1>2, <1>4 DEF ServerFrames
  <2>2. r \in AsksOf(toServer[l]) /\ r \notin AsksOf(Tail(toServer[l]))
    BY <1>1, <1>4, <2>1, TailQueue
  <2>3. UnderWay(r) /\ working[r] = "idle"
    BY <2>1, <2>2 DEF OnceInv, Once, UnderWay, Sent
  <2>4. \A k \in Links : r \notin AsksOf(toServer'[k])
    BY <1>1, <2>2 DEF OnceInv, Apart
  <2>5. CASE Act(r, l) /\ UNCHANGED working
    BY <1>1, <1>3, <2>1, <2>3, <2>4, <2>5, ActServes
  <2>6. CASE /\ working' = [working EXCEPT ![r] = l]
             /\ UNCHANGED <<applied, toClient>>
    <3>1. working'[r] # "idle" /\ \A y \in Requests \ {r} : working'[y] = working[y]
      BY <1>1, <2>1, <2>6, NamesApart
    <3>2. Served(r, "none")
      BY <1>1, <1>3, <2>4, <2>6, <3>1, ZenonT(30) DEF Served
    <3>3. QED
      BY <2>1, <2>3, <3>2, ServedOnce
  <2>7. CASE /\ toClient' = Told(l, << <<"answer", r, "no">> >>, FALSE)
             /\ UNCHANGED <<working, applied>>
    <3> DEFINE q == << <<"answer", r, "no">> >>
    <3>1. q \in Seq(ClientFrames) /\ AnswersIn(q) = {<<r, "no">>}
      BY <2>1, AnswerFrame DEF Verdicts
    <3>2. toClient' = Told(l, q, FALSE)
      BY <2>7
    <3> HIDE DEF q, x, r
    <3>3. \A k \in Links : AnswersIn(toClient'[k])
                               \subseteq AnswersIn(toClient[k]) \union {<<r, "no">>}
      BY <1>1, <3>1, <3>2, ToldNew
    <3>4. Served(r, "no")
      BY <1>1, <1>3, <2>3, <2>4, <2>7, <3>3, ZenonT(30) DEF Served
    <3>5. QED
      BY <2>1, <2>3, <3>4, ServedOnce
  <2>8. QED
    BY <1>4, <2>5, <2>6, <2>7 DEF Serve, server
<1>5. CASE x[1] # "ask"
  <2>1. /\ \A y \in Requests : working'[y] = "idle" <=> working[y] = "idle"
        /\ applied' = applied
    <3>1. CASE x[1] \in {"login", "look"}
      BY <3>1 DEF Serve, server
    <3>2. CASE x[1] = "fin"
      <4>1. End(l)
        BY <3>2 DEF Serve
      <4>2. QED
        BY <1>1, <4>1, NamesApart DEF End
    <3>3. QED
      BY <1>5, <3>1, <3>2 DEF Serve
  <2>2. \A k \in Links : AnswersIn(toClient'[k]) \subseteq AnswersIn(toClient[k])
    <3>1. CASE x[1] = "login"
      <4> DEFINE f == <<IF x[2] THEN "welcome" ELSE "rejected">>
                 q == << f >>
      <4>1. f \in ClientFrames /\ f[1] # "answer"
        BY FramesWritten
      <4>2. toClient' = Told(l, q, FALSE)
        BY <3>1 DEF Serve, Login
      <4> HIDE DEF f
      <4>3. q \in Seq(ClientFrames) /\ AnswersIn(q) = {}
        BY <4>1 DEF AnswersIn
      <4> HIDE DEF q
      <4>4. QED
        BY <1>1, <4>2, <4>3, ToldNew
    <3>2. CASE x[1] = "look"
      <4> DEFINE f == <<"lot", version>>
                 q == << f >>
      <4>1. f \in ClientFrames /\ f[1] # "answer"
        BY <1>1, FramesWritten DEF Typed, TypeOK
      <4>2. toClient' = Told(l, q, FALSE)
        BY <3>2 DEF Serve, Snapshot
      <4> HIDE DEF f
      <4>3. q \in Seq(ClientFrames) /\ AnswersIn(q) = {}
        BY <4>1 DEF AnswersIn
      <4> HIDE DEF q
      <4>4. QED
        BY <1>1, <4>2, <4>3, ToldNew
    <3>3. CASE x[1] = "fin"
      BY <3>3 DEF Serve
    <3>4. QED
      BY <1>5, <3>1, <3>2, <3>3 DEF Serve
  <2>3. NothingNew
    BY <1>3, <2>1, <2>2 DEF NothingNew
  <2>4. OnlyLost
    BY <1>1 DEF OnlyLost
  <2>5. QED
    BY <2>3, <2>4, NothingNewOnce
<1>6. QED
  BY <1>4, <1>5

\* A request the server was working on is answered.
LEMMA FinishOnce ==
  ASSUME IInv, OnceInv, NEW r \in Requests, Finish(r)
  PROVE  OnceInv'
<1>1. /\ working[r] # "idle" /\ working' = [working EXCEPT ![r] = "idle"]
      /\ Act(r, working[r]) /\ UNCHANGED <<me, told, toServer>>
      /\ working \in [Requests -> Links \union {"idle", "nobody"}]
  BY DEF Finish, Concluded, IInv, Typed, TypeOK
<1>2. UnderWay(r) /\ ~Sent(r)
  BY <1>1 DEF OnceInv, Once, UnderWay
<1>3. /\ working'[r] = "idle"
      /\ \A x \in Requests \ {r} : working'[x] = "idle" <=> working[x] = "idle"
  BY <1>1
<1>4. \A l \in Links : /\ Single(toServer'[l])
                       /\ AsksOf(toServer'[l]) \subseteq AsksOf(toServer[l])
                       /\ r \notin AsksOf(toServer'[l])
  BY <1>1, <1>2 DEF OnceInv, Apart, Sent
<1>5. QED
  BY <1>1, <1>2, <1>3, <1>4, ActServes

\* A session ends at the server, or the link dies.
LEMMA DropNew ==
  ASSUME IInv, OnceInv, NEW l \in Links, Drop(l) \/ Die(l)
  PROVE  NothingNew
<1>1. /\ \A k \in Links : Single(toServer[k]) /\ Single(<<>>) /\ AsksOf(<<>>) = {}
                          /\ AnswersIn(<<>>) = {}
      /\ DOMAIN toServer = Links /\ DOMAIN toClient = Links
      /\ working \in [Requests -> Links \union {"idle", "nobody"}]
  BY Queues, EmptyQueue DEF IInv, OnceInv, Apart, Typed, TypeOK
<1>2. toServer' = [toServer EXCEPT ![l] = <<>>] /\ applied' = applied
  BY DEF Drop, Die, End, server
<1>3. \A k \in Links : Single(toServer'[k]) /\ AsksOf(toServer'[k]) \subseteq AsksOf(toServer[k])
  BY <1>1, <1>2
<1>4. \A r \in Requests : working'[r] = "idle" <=> working[r] = "idle"
  BY <1>1, NamesApart DEF Drop, Die, End, server
<1>5. \A k \in Links : AnswersIn(toClient'[k]) \subseteq AnswersIn(toClient[k])
  <2>1. CASE Drop(l)
    <3> DEFINE fin == <<"fin">>
    <3>1. toClient' = Written(toClient, l, fin)
      BY <2>1 DEF Drop
    <3>2. fin[1] \notin {"ask", "answer"}
      OBVIOUS
    <3> HIDE DEF fin
    <3>3. QED
      BY <3>1, <3>2, WrittenNew
  <2>2. CASE Die(l)
    BY <1>1, <2>2 DEF Die
  <2>3. QED
    BY <2>1, <2>2
<1>6. QED
  BY <1>2, <1>3, <1>4, <1>5 DEF NothingNew

LEMMA OnceStep ==
  ASSUME IInv, OnceInv, Next
  PROVE  OnceInv'
<1>1. Move /\ me \in ClientType
  BY ClientStep DEF Fine, IInv, Typed, TypeOK
<1>2. UNCHANGED told => OnlyLost
  BY DEF OnlyLost
<1>3. ASSUME NEW m, Lose(m)
      PROVE  OnlyLost
  BY <1>1, <1>3 DEF Lose, Tell, OnlyLost, ClientType
<1>4. UNCHANGED <<network, server>> => NothingNew
  BY DEF OnceInv, Apart, NothingNew, network, server
<1>5. CASE Start \/ Reconnect \/ Heartbeat \/ BeatAnswered
  BY <1>1, <1>2, <1>4, <1>5, NothingNewOnce DEF Start, Reconnect, Heartbeat, BeatAnswered
<1>6. CASE Refused
  BY <1>1, <1>3, <1>4, <1>6, NothingNewOnce DEF Refused
<1>7. CASE Stop \/ Watchdog \/ LateBeats \/ TransportFails
  <2>1. HangUp /\ UNCHANGED server /\ \E m : Lose(m)
    BY <1>7 DEF Stop, Watchdog, LateBeats, TransportFails
  <2>2. NothingNew /\ OnlyLost
    BY <1>3, <2>1, HangUpNew
  <2>3. QED
    BY <1>1, <2>2, NothingNewOnce
<1>8. CASE Connect
  <2> DEFINE x == <<"login", good>>
             q == << x >>
  <2>1. PICK l \in Links : toServer' = [toServer EXCEPT ![l] = q]
    BY <1>8 DEF Connect
  <2>2. UNCHANGED <<toClient, working, applied, told>>
    BY <1>8 DEF Connect
  <2>3. x[1] # "ask" /\ x \in ServerFrames
    BY FramesWritten DEF IInv, Typed
  <2> HIDE DEF x
  <2>4. Single(q) /\ AsksOf(q) = {}
    BY <2>3 DEF Single, AsksOf
  <2> HIDE DEF q
  <2>5. \A k \in Links : Single(toServer'[k]) /\ AsksOf(toServer'[k]) \subseteq AsksOf(toServer[k])
    BY <2>1, <2>4, Queues DEF OnceInv, Apart, IInv
  <2>6. NothingNew
    BY <2>2, <2>5 DEF NothingNew
  <2>7. QED
    BY <1>1, <1>2, <2>2, <2>6, NothingNewOnce
<1>9. ASSUME NEW r \in Requests, Request(r) \/ Finish(r)
      PROVE  OnceInv'
  BY <1>9, RequestOnce, FinishOnce
<1>10. CASE Receive
  <2>1. CASE Head(toClient[me.link])[1] = "answer"
    BY <1>10, <2>1, AnswerOnce
  <2>2. CASE Head(toClient[me.link])[1] # "answer"
    BY <1>1, <1>10, <2>2, ReceiveNew, NothingNewOnce
  <2>3. QED
    BY <2>1, <2>2
<1>11. ASSUME NEW l \in Links, Serve(l)
       PROVE  OnceInv'
  BY <1>1, <1>11, ServeOnce
<1>12. ASSUME NEW l \in Links, Kick(l) \/ Break(l) \/ Die(l)
       PROVE  OnceInv'
  <2>1. (Drop(l) \/ Die(l)) /\ UNCHANGED told
    BY <1>12 DEF Kick, Break, Drop, Die
  <2>2. NothingNew
    BY <2>1, DropNew
  <2>3. QED
    BY <1>1, <1>2, <2>1, <2>2, NothingNewOnce
<1>13. CASE ChangeElsewhere
  <2> DEFINE q == <<>>
  <2>1. toClient' = Told(None, q, Relayed) /\ UNCHANGED <<told, toServer, working, applied>>
    BY <1>13 DEF ChangeElsewhere
  <2>2. q \in Seq(ClientFrames) /\ AnswersIn(q) = {} /\ Typed
    BY EmptyQueue DEF IInv
  <2> HIDE DEF q
  <2>3. \A k \in Links : AnswersIn(toClient'[k]) \subseteq AnswersIn(toClient[k])
    BY <2>1, <2>2, ToldNew
  <2>4. NothingNew
    BY <2>1, <2>3 DEF NothingNew, OnceInv, Apart
  <2>5. QED
    BY <1>1, <1>2, <2>1, <2>4, NothingNewOnce
<1>14. QED
  BY <1>5, <1>6, <1>7, <1>8, <1>9, <1>10, <1>11, <1>12, <1>13 DEF Next

-----------------------------------------------------------------------------
(***************************************************************************)
(* The theorems.                                                           *)
(***************************************************************************)
LEMMA InvInit == Init => IInv
<1> SUFFICES ASSUME Init
             PROVE  IInv
  OBVIOUS
<1>1. me \in ClientType /\ Sound(me) /\ me.missed <= 2 /\ me.pending = {}
  BY NoSessionSound DEF Init, NoSession, Sound
<1>2. /\ toServer \in [Links -> Seq(ServerFrames)]
      /\ toClient \in [Links -> Seq(ClientFrames)]
  BY DEF Init
<1>3. QED
  BY <1>1, <1>2 DEF Init, IInv, Typed, TypeOK, NotTold

LEMMA InvStep == IInv /\ [Next]_vars => IInv'
<1> SUFFICES ASSUME IInv, [Next]_vars
             PROVE  IInv'
  OBVIOUS
<1>1. CASE Next
  <2>1. Fine /\ NetworkType /\ ServerType /\ good' \in BOOLEAN
    BY <1>1, ClientStep, NetworkStep
  <2>2. /\ told' \in [Requests -> {"nothing", "ok", "no", "lost", "offline"}]
        /\ calls' \in [Requests -> Nat]
        /\ NotTold'
    BY <2>1, MoveTold DEF Fine, IInv
  <2>3. me'.missed <= 2
    BY <2>1 DEF Fine, Sound
  <2>4. QED
    BY <2>1, <2>2, <2>3 DEF IInv, Typed, TypeOK, Fine, NetworkType, ServerType
<1>2. CASE UNCHANGED vars
  BY <1>2 DEF vars, network, server, IInv, Typed, TypeOK, NotTold
<1>3. QED
  BY <1>1, <1>2

\* Whatever the network does and however often start and stop are called, a client that
\* was not stopped has something that takes it further, requests wait on an open
\* socket only, and it is on line with the token of its connection only.
THEOREM ClientNeverStuck == Spec => []SessionSound
<1>1. IInv => SessionSound
  BY DEF IInv, Typed, Sound, SessionSound
<1>2. QED
  BY <1>1, InvInit, InvStep, PTL DEF Spec

\* To the user interface the session is the service of AnswerOnce, as far as safety
\* goes: every step hands in a request, runs callbacks of requests that have not been
\* answered, or does neither.
THEOREM SessionServes == Spec => Service!SafeSpec
<1>1. Init => Service!Init
  <2>1. Init => me.pending = {}
    BY DEF Init, NoSession
  <2>2. QED
    BY <2>1 DEF Init, Service!Init
<1>2. IInv /\ [Next]_vars => [Service!Next]_(Service!vars)
  <2> SUFFICES ASSUME IInv, [Next]_vars
               PROVE  [Service!Next]_(Service!vars)
    OBVIOUS
  <2>1. CASE Next
    BY <2>1, ClientStep, MoveService DEF Fine, IInv
  <2>2. CASE UNCHANGED vars
    BY <2>2 DEF vars, Service!vars
  <2>3. QED
    BY <2>1, <2>2
<1>3. QED
  BY <1>1, <1>2, InvInit, InvStep, PTL DEF Spec, Service!SafeSpec

LEMMA OnceInit == Init => OnceInv
<1> SUFFICES ASSUME Init
             PROVE  OnceInv
  OBVIOUS
<1>1. /\ \A l \in Links : toServer[l] = <<>> /\ toClient[l] = <<>>
      /\ Single(<<>>) /\ AsksOf(<<>>) = {} /\ AnswersIn(<<>>) = {}
  BY EmptyQueue DEF Init
<1>2. Apart
  BY <1>1 DEF Apart
<1>3. ASSUME NEW r \in Requests
      PROVE  Once(r)
  <2>1. ~Sent(r) /\ \A v \in Verdicts : ~Reply(r, v)
    BY <1>1 DEF Sent, Reply
  <2>2. applied[r] = 0 /\ working[r] = "idle" /\ told[r] = "nothing"
    BY DEF Init
  <2>3. "ok" \in Verdicts /\ "no" \in Verdicts
    BY DEF Verdicts
  <2>4. QED
    BY <2>1, <2>2, <2>3 DEF Once, UnderWay, Untouched
<1>4. QED
  BY <1>2, <1>3 DEF OnceInv, Init

\* Where every request is: in one place at most, its answer in agreement with the lot.
THEOREM RequestsInOnePlace == Spec => [](IInv /\ OnceInv)
<1>1. IInv /\ OnceInv /\ [Next]_vars => IInv' /\ OnceInv'
  <2> SUFFICES ASSUME IInv, OnceInv, [Next]_vars
               PROVE  IInv' /\ OnceInv'
    OBVIOUS
  <2>1. IInv'
    BY InvStep
  <2>2. CASE Next
    BY <2>1, <2>2, OnceStep
  <2>3. CASE UNCHANGED vars
    <3>1. OnceInv'
      BY <2>3 DEF vars, network, server, OnceInv, Apart, Once, Sent, Reply, UnderWay,
                  Untouched, Fresh
    <3>2. QED
      BY <2>1, <3>1
  <2>4. QED
    BY <2>2, <2>3
<1>2. QED
  BY <1>1, InvInit, OnceInit, PTL DEF Spec

\* A request changes the lot at most once whatever links break and however often the
\* client connects again; what the user is told of it is what became of it.
THEOREM AnswersAreTrue == Spec => []AnswerTrue
<1>1. OnceInv => AnswerTrue
  <2> SUFFICES ASSUME OnceInv, NEW r \in Requests
               PROVE  /\ applied[r] <= 1
                      /\ told[r] = "ok" => applied[r] = 1
                      /\ told[r] \in {"no", "offline"} => applied[r] = 0
    BY DEF AnswerTrue
  <2>1. Once(r)
    BY DEF OnceInv
  <2>2. applied[r] <= 1
    BY <2>1 DEF Once
  <2>3. QED
    BY <2>1, <2>2 DEF Once, Untouched
<1>2. QED
  BY <1>1, RequestsInOnePlace, PTL

\* The callbacks of a request run as often as it was answered.
Counted == \A r \in Requests : calls[r] = IF told[r] = "nothing" THEN 0 ELSE 1

LEMMA CountedStep == IInv /\ Counted /\ [Next]_vars => Counted'
<1> SUFFICES ASSUME IInv, Counted, [Next]_vars
             PROVE  Counted'
  OBVIOUS
<1>1. ASSUME Next
      PROVE  Counted'
  <2>1. Move
    BY <1>1, ClientStep DEF Fine
  <2>2. CASE Quiet \/ \E r \in Requests : Asks(r)
    BY <2>2 DEF Quiet, Asks, Counted
  <2>3. ASSUME NEW R \in SUBSET Requests, NEW outcome \in Outcomes, Tells(R, outcome)
        PROVE  Counted'
    BY <2>3 DEF Tells, Tell, Counted, Outcomes
  <2>4. QED
    BY <2>1, <2>2, <2>3 DEF Move
<1>2. CASE UNCHANGED vars
  BY <1>2 DEF vars, Counted
<1>3. QED
  BY <1>1, <1>2

\* No callback of the user interface runs twice, nor while its request waits.
THEOREM AnsweredAtMostOnce == Spec => []Service!AtMostOnce
<1>1. Init => Counted
  BY DEF Init, Counted
<1>2. IInv /\ Counted => Service!AtMostOnce
  BY DEF IInv, NotTold, Counted, Service!AtMostOnce
<1>3. QED
  BY <1>1, <1>2, InvInit, InvStep, CountedStep, PTL DEF Spec
=============================================================================
