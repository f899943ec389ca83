----------------------------- MODULE GateProofs -----------------------------
(***************************************************************************)
(* Proofs about BarrierGate, for every choice of the four delays, and      *)
(* about GateOnline, the terminal that drives it, for every number of      *)
(* plates, requests and losses.                                            *)
(***************************************************************************)
EXTENDS GateOnline, SequenceTheorems, TLAPS

LEMMA Delays ==
  /\ Calm \in Nat /\ HoldTime <= Calm /\ ClosingTime <= Calm
  /\ HoldTime \in Nat /\ ClosingTime \in Nat
  /\ Delay["open"] = OpeningTime /\ Delay["hold"] = HoldTime
  /\ Delay["close"] = ClosingTime /\ Delay["alarm"] = AlarmTime
  /\ \A k \in Timers : Delay[k] \in Nat
BY TimesAssumption DEF Calm, Delay, Timers

\* What the operations of the clock do to each timer.
LEMMA Clock ==
  ASSUME NEW tm \in [Timers -> Int], \A k \in Timers : tm[k] \in Idle .. Delay[k],
         NEW j \in Timers
  PROVE  /\ Started(tm, j) \in [Timers -> Int] /\ Cancelled(tm, j) \in [Timers -> Int]
         /\ \A k \in Timers : /\ Started(tm, j)[k] = IF k = j THEN Delay[j] ELSE tm[k]
                              /\ Cancelled(tm, j)[k] = IF k = j THEN Idle ELSE tm[k]
                              /\ Started(tm, j)[k] \in Idle .. Delay[k]
                              /\ Cancelled(tm, j)[k] \in Idle .. Delay[k]
BY Delays DEF Started, Cancelled, Idle

\* Time spares the timers that are idle or due.
LEMMA Ageing ==
  ASSUME NEW tm \in [Timers -> Int], \A k \in Timers : tm[k] \in Idle .. Delay[k]
  PROVE  /\ Aged(tm) \in [Timers -> Int]
         /\ \A k \in Timers : /\ Aged(tm)[k] = IF tm[k] > 0 THEN tm[k] - 1 ELSE tm[k]
                              /\ Aged(tm)[k] \in Idle .. Delay[k]
                              /\ Aged(tm)[k] # Idle <=> tm[k] # Idle
BY Delays DEF Aged, Idle

LEMMA InitInv ==
  ASSUME Init
  PROVE  IInv
<1>1. TypeOK
  <2>1. /\ timer \in [Timers -> Int] /\ \A k \in Timers : timer[k] = -1
        /\ Calm \in 0 .. Calm
    BY Delays DEF Init, Idle
  <2>2. \A k \in Timers : timer[k] \in Idle .. Delay[k]
    BY <2>1, Delays DEF Idle
  <2>3. QED
    BY <2>1, <2>2 DEF Init, TypeOK, States
<1>2. OnlyAwaitedTimers
  BY DEF Init, OnlyAwaitedTimers, Awaited
<1>3. TimersAgree
  BY DEF Init, TimersAgree
<1>4. QED
  BY <1>1, <1>2, <1>3 DEF IInv

LEMMA StepInv ==
  ASSUME IInv, [Next]_vars
  PROVE  IInv'
<1> USE DEF IInv
<1>0. /\ timer \in [Timers -> Int] /\ \A k \in Timers : timer[k] \in Idle .. Delay[k]
      /\ "open" \in Timers /\ "hold" \in Timers /\ "close" \in Timers /\ "alarm" \in Timers
  BY DEF TypeOK, Timers
<1>1. CASE Tick
  <2>1. TypeOK'
    BY <1>0, <1>1, Ageing, Delays DEF Tick, TypeOK
  <2>2. OnlyAwaitedTimers'
    BY <1>0, <1>1, Ageing DEF Tick, OnlyAwaitedTimers
  <2>3. TimersAgree'
    BY <1>0, <1>1, Ageing, Delays DEF Tick, TypeOK, TimersAgree, OnlyAwaitedTimers, Awaited, Idle
  <2>4. QED
    BY <2>1, <2>2, <2>3
<1>2. CASE OpenTimeout
  <2>1. state = "Opening"
    BY <1>0, <1>2 DEF OpenTimeout, OnlyAwaitedTimers, Awaited, TypeOK, States, Idle
  <2> DEFINE tm == Cancelled(timer, "open")
             next == IF faultInjected THEN "alarm" ELSE "hold"
  <2>2. /\ state' = IF faultInjected THEN "Fault" ELSE "Open"
        /\ timer' = Started(tm, next)
        /\ faultInjected' = faultInjected /\ quiet' = quiet
    BY <1>2, <2>1 DEF OpenTimeout
  <2>3. /\ tm \in [Timers -> Int]
        /\ \A k \in Timers : tm[k] \in Idle .. Delay[k]
        /\ \A k \in Timers : tm[k] = IF k = "open" THEN Idle ELSE timer[k]
    BY <1>0, Clock
  <2>4. next \in Timers
    BY <1>0
  <2> HIDE DEF tm
  <2>5. TypeOK'
    BY <2>2, <2>3, <2>4, Clock DEF TypeOK, States
  <2>6. \A k \in Timers : timer'[k] = IF k = next THEN Delay[next] ELSE tm[k]
    BY <2>2, <2>3, <2>4, Clock
  <2>7. OnlyAwaitedTimers'
    BY <2>1, <2>2, <2>3, <2>6, Delays DEF OnlyAwaitedTimers, Awaited, Timers, Idle
  <2>8. TimersAgree'
    BY <2>2, <2>6, Delays, <1>0 DEF TimersAgree, TypeOK
  <2>9. QED
    BY <2>5, <2>7, <2>8
<1>3. CASE HoldTimeout
  <2>1. state = "Open"
    BY <1>0, <1>3 DEF HoldTimeout, OnlyAwaitedTimers, Awaited, TypeOK, States, Idle
  <2> DEFINE tm == Cancelled(timer, "hold")
  <2>2. /\ state' = "Closing" /\ timer' = Started(tm, "close")
        /\ faultInjected' = faultInjected /\ quiet' = quiet
    BY <1>3, <2>1 DEF HoldTimeout
  <2>3. /\ tm \in [Timers -> Int]
        /\ \A k \in Timers : tm[k] \in Idle .. Delay[k]
        /\ \A k \in Timers : tm[k] = IF k = "hold" THEN Idle ELSE timer[k]
    BY <1>0, Clock
  <2> HIDE DEF tm
  <2>4. TypeOK'
    BY <1>0, <2>2, <2>3, Clock DEF TypeOK, States
  <2>5. \A k \in Timers : timer'[k] = IF k = "close" THEN ClosingTime ELSE tm[k]
    BY <1>0, <2>2, <2>3, Clock, Delays
  <2>6. OnlyAwaitedTimers'
    BY <2>1, <2>2, <2>3, <2>5, Delays DEF OnlyAwaitedTimers, Awaited, Timers, Idle
  <2>7. TimersAgree'
    BY <1>0, <2>2, <2>5, Delays DEF TimersAgree, TypeOK
  <2>8. QED
    BY <2>4, <2>6, <2>7
<1>4. CASE CloseTimeout
  <2>1. state = "Closing"
    BY <1>0, <1>4 DEF CloseTimeout, OnlyAwaitedTimers, Awaited, TypeOK, States, Idle
  <2>2. /\ state' = "Closed" /\ timer' = Cancelled(timer, "close")
        /\ faultInjected' = faultInjected /\ quiet' = quiet
    BY <1>4, <2>1 DEF CloseTimeout
  <2>3. TypeOK'
    BY <1>0, <2>2, Clock DEF TypeOK, States
  <2>4. OnlyAwaitedTimers'
    BY <1>0, <2>1, <2>2, Clock DEF OnlyAwaitedTimers, Awaited, Timers
  <2>5. QED
    BY <2>2, <2>3, <2>4 DEF TimersAgree
<1>5. CASE AlarmTimeout
  <2>1. state = "Fault"
    BY <1>0, <1>5 DEF AlarmTimeout, OnlyAwaitedTimers, Awaited, TypeOK, States, Idle
  <2>2. timer' = Started(timer, "alarm") /\ UNCHANGED <<state, faultInjected, quiet>>
    BY <1>5, <2>1 DEF AlarmTimeout
  <2>3. TypeOK'
    BY <1>0, <2>2, Clock DEF TypeOK
  <2>4. OnlyAwaitedTimers'
    BY <1>0, <2>1, <2>2, Clock, Delays DEF OnlyAwaitedTimers, Awaited, Timers, Idle
  <2>5. QED
    BY <2>1, <2>2, <2>3, <2>4 DEF TimersAgree
<1>6. CASE RequestOpen
  <2>1. quiet' = 0 /\ faultInjected' = faultInjected /\ 0 \in 0 .. Calm
    BY <1>6, Delays DEF RequestOpen
  <2>2. CASE state = "Closed"
    <3>1. state' = "Opening" /\ timer' = Started(timer, "open")
      BY <1>6, <2>2 DEF RequestOpen
    <3>2. QED
      BY <1>0, <2>1, <2>2, <3>1, Clock, Delays
      DEF TypeOK, States, OnlyAwaitedTimers, Awaited, Timers, Idle, TimersAgree
  <2>3. CASE state = "Open"
    <3>1. state' = state /\ timer' = Started(timer, "hold")
      BY <1>6, <2>3 DEF RequestOpen
    <3>2. QED
      BY <1>0, <2>1, <2>3, <3>1, Clock, Delays
      DEF TypeOK, States, OnlyAwaitedTimers, Awaited, Timers, Idle, TimersAgree
  <2>4. CASE state = "Closing"
    <3>1. state' = "Opening" /\ timer' = Started(Cancelled(timer, "close"), "open")
      BY <1>6, <2>4 DEF RequestOpen
    <3>2. QED
      BY <1>0, <2>1, <2>4, <3>1, Clock, Delays
      DEF TypeOK, States, OnlyAwaitedTimers, Awaited, Timers, Idle, TimersAgree
  <2>5. CASE state \in {"Opening", "Fault"}
    <3>1. state' = state /\ timer' = timer
      BY <1>6, <2>5 DEF RequestOpen
    <3>2. QED
      BY <2>1, <2>5, <3>1 DEF TypeOK, OnlyAwaitedTimers, TimersAgree
  <2>6. QED
    BY <2>2, <2>3, <2>4, <2>5 DEF TypeOK, States
<1>7. CASE VehiclePassed
  <2>1. quiet' = 0 /\ faultInjected' = faultInjected /\ 0 \in 0 .. Calm
    BY <1>7, Delays DEF VehiclePassed
  <2>2. CASE state = "Open"
    <3>1. state' = "Closing" /\ timer' = Started(Cancelled(timer, "hold"), "close")
      BY <1>7, <2>2 DEF VehiclePassed
    <3>2. QED
      BY <1>0, <2>1, <2>2, <3>1, Clock, Delays
      DEF TypeOK, States, OnlyAwaitedTimers, Awaited, Timers, Idle, TimersAgree
  <2>3. CASE state = "Closing"
    <3>1. state' = "Opening" /\ timer' = Started(Cancelled(timer, "close"), "open")
      BY <1>7, <2>3 DEF VehiclePassed
    <3>2. QED
      BY <1>0, <2>1, <2>3, <3>1, Clock, Delays
      DEF TypeOK, States, OnlyAwaitedTimers, Awaited, Timers, Idle, TimersAgree
  <2>4. CASE state \notin {"Open", "Closing"}
    <3>1. state' = state /\ timer' = timer
      BY <1>7, <2>4 DEF VehiclePassed
    <3>2. QED
      BY <2>1, <2>4, <3>1 DEF TypeOK, OnlyAwaitedTimers, TimersAgree
  <2>5. QED
    BY <2>2, <2>3, <2>4
<1>8. CASE SetFault
  BY <1>8 DEF SetFault, TypeOK, OnlyAwaitedTimers, TimersAgree
<1>9. CASE Reset
  <2> DEFINE tm == Cancelled(timer, "open")
  <2>1. /\ state = "Fault" /\ state' = "Closed" /\ timer' = Cancelled(tm, "alarm")
        /\ faultInjected' = faultInjected /\ quiet' = quiet
    BY <1>9 DEF Reset
  <2>2. /\ tm \in [Timers -> Int]
        /\ \A k \in Timers : tm[k] \in Idle .. Delay[k]
        /\ \A k \in Timers : tm[k] = IF k = "open" THEN Idle ELSE timer[k]
    BY <1>0, Clock
  <2> HIDE DEF tm
  <2>3. TypeOK'
    BY <1>0, <2>1, <2>2, Clock DEF TypeOK, States
  <2>4. OnlyAwaitedTimers'
    BY <1>0, <2>1, <2>2, Clock DEF OnlyAwaitedTimers, Awaited, Timers
  <2>5. QED
    BY <2>1, <2>3, <2>4 DEF TimersAgree
<1>10. CASE UNCHANGED vars
  BY <1>10 DEF vars, TypeOK, OnlyAwaitedTimers, TimersAgree
<1>11. QED
  BY <1>1, <1>2, <1>3, <1>4, <1>5, <1>6, <1>7, <1>8, <1>9, <1>10 DEF Next, Timeout

-----------------------------------------------------------------------------

\* The invariant: types, pending timers, and the timers against the history.
THEOREM GateInductive == Spec => []IInv
BY InitInv, StepInv, PTL DEF Spec

\* In every state exactly the timer that ends the state is pending.
THEOREM NoStaleTimer == Spec => []OnlyAwaitedTimers
<1>1. IInv => OnlyAwaitedTimers
  BY DEF IInv
<1>2. QED
  BY <1>1, GateInductive, PTL

\* The arm starts down only behind a car or after a full hold.
THEOREM FullHold == Spec => HoldIsFull
<1>1. IInv /\ [Next]_vars =>
        [state = "Open" /\ state' = "Closing" => quiet' = 0 \/ quiet >= HoldTime]_vars
  <2> SUFFICES ASSUME IInv, Next, state = "Open", state' = "Closing", quiet' # 0
               PROVE  quiet >= HoldTime
    BY DEF vars
  <2>1. HoldTimeout
    BY DEF Next, Timeout, Tick, OpenTimeout, CloseTimeout, AlarmTimeout, RequestOpen,
           VehiclePassed, SetFault, Reset
  <2>2. QED
    BY <2>1, Delays DEF HoldTimeout, IInv, TypeOK, TimersAgree
<1>2. QED
  BY <1>1, GateInductive, PTL DEF Spec, HoldIsFull

\* No car that was released or detected while the arm was on its way down has it
\* arrive at the bottom.
THEOREM ArmAlwaysReverses == Spec => ArmReverses
<1>1. IInv /\ [Next]_vars =>
        [state = "Closing" /\ state' = "Closed" => quiet >= ClosingTime]_vars
  <2> SUFFICES ASSUME IInv, Next, state = "Closing", state' = "Closed"
               PROVE  quiet >= ClosingTime
    BY DEF vars
  <2>1. CloseTimeout
    BY DEF Next, Timeout, Tick, OpenTimeout, HoldTimeout, AlarmTimeout, RequestOpen,
           VehiclePassed, SetFault, Reset
  <2>2. QED
    BY <2>1, Delays DEF CloseTimeout, IInv, TypeOK, TimersAgree
<1>2. QED
  BY <1>1, GateInductive, PTL DEF Spec, ArmReverses

-----------------------------------------------------------------------------
(***************************************************************************)
(* The terminal.                                                           *)
(***************************************************************************)

\* Whatever the terminal does, the barrier takes one of its own steps or none.
LEMMA GateDrivesBarrier == GateNext => [Next]_vars
BY DEF GateNext, Barrier, Next, Timeout, TypePlate, RecordOffline, Decide, Receive, Conclude,
       GiveUp, Disconnect, Connect, Loss, vars

LEMMA OnlineInit ==
  ASSUME GateInit
  PROVE  OnlineInv
<1>1. /\ typed = <<>> /\ Len(typed) = 0 /\ typed \in Seq(Plates) /\ Asked = {}
      /\ waiting \in Seq(Asked) /\ DOMAIN waiting = {} /\ Len(typed) \in 0 .. MaxCommands
  BY OnlineAssumption DEF GateInit, Asked
<1>2. OnlineSound
  BY <1>1 DEF GateInit, OnlineSound, Waits, Requests
<1>3. GateHonest
  BY <1>1 DEF GateInit, GateHonest
<1>4. QED
  BY <1>2, <1>3 DEF OnlineInv

\* What the innermost request is, and what is left when it is taken away.
LEMMA Popped ==
  ASSUME OnlineSound, waiting # <<>>
  PROVE  /\ Innermost \in Asked /\ Innermost \in Waits
         /\ Back \in Seq(Asked)
         /\ DOMAIN Back \subseteq DOMAIN waiting
         /\ \A k \in DOMAIN Back : Back[k] = waiting[k] /\ Back[k] # Innermost
         /\ {Back[k] : k \in DOMAIN Back} = Waits \ {Innermost}
<1>1. waiting \in Seq(Asked) /\ Len(waiting) \in Nat /\ Len(waiting) # 0
      /\ DOMAIN waiting = 1 .. Len(waiting)
  BY DEF OnlineSound
<1>2. Len(waiting) \in DOMAIN waiting
  BY <1>1
<1>3. Back \in Seq(Asked) /\ Len(Back) = Len(waiting) - 1 /\ DOMAIN Back = 1 .. Len(waiting) - 1
      /\ \A k \in 1 .. Len(waiting) - 1 : Back[k] = waiting[k]
  BY <1>1 DEF Back
<1>4. \A k \in DOMAIN waiting : k \in DOMAIN Back <=> waiting[k] # Innermost
  BY <1>1, <1>2, <1>3 DEF Innermost, OnlineSound
<1>5. QED
  BY <1>1, <1>2, <1>3, <1>4 DEF Innermost, Waits

\* A request is new when its plate is typed, and has nothing said about it.
LEMMA Typed ==
  ASSUME OnlineSound, NEW p \in Plates, Len(typed) + 1 \in Requests,
         typed' = Append(typed, p)
  PROVE  /\ typed' \in Seq(Plates) /\ Len(typed') = Len(typed) + 1
         /\ Len(typed') \in 0 .. MaxCommands
         /\ Asked' = Asked \union {Len(typed) + 1} /\ Len(typed) + 1 \notin Asked
         /\ verdict[Len(typed) + 1] = "none"
         /\ Seq(Asked) \subseteq Seq(Asked')
<1>1. /\ typed \in Seq(Plates) /\ Len(typed) \in Nat
      /\ Len(typed) + 1 <= MaxCommands /\ MaxCommands \in Nat
  BY OnlineAssumption DEF OnlineSound, Requests
<1>2. typed' \in Seq(Plates) /\ Len(typed') = Len(typed) + 1
  BY <1>1
<1>3. Asked' = Asked \union {Len(typed) + 1} /\ Len(typed) + 1 \notin Asked
  BY <1>1, <1>2 DEF Asked
<1>4. verdict[Len(typed) + 1] = "none"
  BY <1>3 DEF OnlineSound
<1>5. ASSUME NEW s \in Seq(Asked)
      PROVE  s \in Seq(Asked')
  <2>1. Len(s) \in Nat /\ s = [k \in 1 .. Len(s) |-> s[k]] /\ \A k \in 1 .. Len(s) : s[k] \in Asked'
    BY <1>3
  <2>2. QED
    BY <2>1, SeqDef
<1>6. QED
  BY <1>1, <1>2, <1>3, <1>4, <1>5

LEMMA TypePlateOnline ==
  ASSUME OnlineInv, NEW p \in Plates, TypePlate(p)
  PROVE  OnlineInv'
<1> USE DEF OnlineInv
<1> DEFINE i == Len(typed) + 1
<1>1. /\ i \in Requests /\ typed' = Append(typed, p)
      /\ UNCHANGED <<role, linked, verdict, answers, responses, cut, onSite, lost>>
  BY DEF TypePlate
<1>2. /\ typed' \in Seq(Plates) /\ Len(typed') = i /\ Len(typed') \in 0 .. MaxCommands
      /\ Asked' = Asked \union {i} /\ i \notin Asked /\ verdict[i] = "none"
      /\ Seq(Asked) \subseteq Seq(Asked')
  BY <1>1, Typed
<1>3. i \notin onWay \union answers \union responses \union cut \union lifted \union Waits
  BY <1>2 DEF OnlineSound, Waits
<1> HIDE DEF i
<1>4. CASE linked
  <2>1. /\ waiting' = Append(waiting, i) /\ onWay' = onWay \union {i}
        /\ UNCHANGED <<lifted, recorded>>
    BY <1>4 DEF TypePlate, i
  <2>2. /\ waiting \in Seq(Asked') /\ i \in Asked' /\ Len(waiting) \in Nat
        /\ DOMAIN waiting = 1 .. Len(waiting)
    BY <1>2 DEF OnlineSound
  <2>3. /\ waiting' \in Seq(Asked') /\ DOMAIN waiting' = DOMAIN waiting \union {Len(waiting) + 1}
        /\ waiting'[Len(waiting) + 1] = i /\ Len(waiting) + 1 \notin DOMAIN waiting
        /\ \A k \in DOMAIN waiting : waiting'[k] = waiting[k]
    BY <2>1, <2>2
  <2>4. Waits' = Waits \union {i}
    BY <2>3 DEF Waits
  <2>5. \A j, k \in DOMAIN waiting' : waiting'[j] = waiting'[k] => j = k
    BY <1>3, <2>3 DEF OnlineSound, Waits
  <2>6. OnlineSound'
    BY <1>1, <1>2, <1>3, <2>1, <2>3, <2>4, <2>5 DEF OnlineSound
  <2>7. \A k \in DOMAIN waiting' : waiting'[k] \notin lifted'
    BY <1>3, <2>1, <2>3 DEF GateHonest
  <2>8. \A x \in 1 .. Len(typed') :
            verdict'[x] = "ok" /\ x \notin lifted' => x \in lost' \/ x \in answers' \union responses'
    BY <1>1, <1>2, <2>1 DEF GateHonest, Asked
  <2>9. QED
    BY <1>1, <2>1, <2>6, <2>7, <2>8 DEF GateHonest
<1>5. CASE ~linked
  <2>1. /\ waiting' = waiting /\ onWay' = onWay
        /\ \/ lifted' = lifted \union {i} /\ recorded' = recorded \union {i}
           \/ lifted' = lifted /\ recorded' = recorded
    BY <1>5 DEF TypePlate, RecordOffline, i
  <2>2. Waits' = Waits
    BY <2>1 DEF Waits
  <2>3. OnlineSound'
    BY <1>1, <1>2, <2>1, <2>2 DEF OnlineSound
  <2>4. \A k \in DOMAIN waiting' : waiting'[k] \notin lifted'
    BY <1>3, <2>1 DEF GateHonest, Waits
  <2>5. \A x \in 1 .. Len(typed') :
            verdict'[x] = "ok" /\ x \notin lifted' => x \in lost' \/ x \in answers' \union responses'
    BY <1>1, <1>2, <2>1 DEF GateHonest, Asked
  <2>6. QED
    BY <1>1, <2>1, <2>3, <2>4, <2>5 DEF GateHonest
<1>6. QED
  BY <1>4, <1>5

LEMMA DecideOnline ==
  ASSUME OnlineInv, NEW i \in Requests, Decide(i)
  PROVE  OnlineInv'
<1> USE DEF OnlineInv
<1>1. /\ i \in onWay /\ onWay' = onWay \ {i} /\ answers' = answers \union ({i} \ cut)
      /\ \E v \in {"ok", "no"} : verdict' = [verdict EXCEPT ![i] = v]
      /\ UNCHANGED <<typed, waiting, responses, cut, lifted, recorded, lost>>
  BY DEF Decide
<1>2. Asked' = Asked /\ Waits' = Waits
  BY <1>1 DEF Asked, Waits
<1>3. i \in Asked /\ verdict[i] = "none" /\ i \in lost \union Waits /\ (i \in cut => i \in lost)
  BY <1>1 DEF OnlineSound
<1>4. /\ verdict' \in [Requests -> {"none", "ok", "no"}] /\ verdict'[i] # "none"
      /\ \A x \in Requests : x # i => verdict'[x] = verdict[x]
  BY <1>1 DEF OnlineSound
<1>5. OnlineSound'
  BY <1>1, <1>2, <1>3, <1>4 DEF OnlineSound
<1>6. lifted' \subseteq recorded' \union {x \in Requests : verdict'[x] = "ok"}
  BY <1>1, <1>3, <1>4 DEF GateHonest
<1>7. \A x \in 1 .. Len(typed') :
          verdict'[x] = "ok" /\ x \notin lifted' => x \in lost' \/ x \in answers' \union responses'
  <2> SUFFICES ASSUME NEW x \in 1 .. Len(typed), verdict'[x] = "ok", x \notin lifted
               PROVE  x \in lost \/ x \in answers' \union responses
    BY <1>1
  <2>1. x \in Requests
    BY OnlineAssumption DEF Requests, OnlineSound
  <2>2. QED
    BY <1>1, <1>3, <1>4, <2>1 DEF GateHonest
<1>8. QED
  BY <1>1, <1>5, <1>6, <1>7 DEF GateHonest

LEMMA ConcludeOnline ==
  ASSUME OnlineInv, Conclude
  PROVE  OnlineInv'
<1> USE DEF OnlineInv
<1>1. /\ waiting # <<>> /\ waiting' = Back
      /\ Innermost \in responses /\ responses' = responses \ {Innermost}
      /\ lifted' = IF verdict[Innermost] = "ok" THEN lifted \union {Innermost} ELSE lifted
      /\ UNCHANGED <<typed, onWay, verdict, answers, cut, recorded, lost>>
  BY DEF Conclude, AnswersTo
<1>2. /\ Innermost \in Asked /\ Innermost \in Waits /\ Back \in Seq(Asked)
      /\ DOMAIN Back \subseteq DOMAIN waiting
      /\ \A k \in DOMAIN Back : Back[k] = waiting[k] /\ Back[k] # Innermost
      /\ {Back[k] : k \in DOMAIN Back} = Waits \ {Innermost}
  BY <1>1, Popped
<1>3. /\ Asked' = Asked /\ Waits' = Waits \ {Innermost}
      /\ Asked \subseteq Requests
  <2>1. Len(typed) \in 0 .. MaxCommands /\ MaxCommands \in Nat
    BY OnlineAssumption DEF OnlineSound
  <2>2. Asked \subseteq Requests
    BY <2>1 DEF Asked, Requests
  <2>3. Waits' = Waits \ {Innermost}
    BY <1>1, <1>2 DEF Waits
  <2>4. QED
    BY <1>1, <2>2, <2>3 DEF Asked
<1>4. OnlineSound'
  BY <1>1, <1>2, <1>3 DEF OnlineSound
<1>5. lifted' \subseteq recorded' \union {x \in Requests : verdict'[x] = "ok"}
  BY <1>1, <1>2, <1>3 DEF GateHonest
<1>6. \A x \in 1 .. Len(typed') :
          verdict'[x] = "ok" /\ x \notin lifted' => x \in lost' \/ x \in answers' \union responses'
  BY <1>1 DEF GateHonest
<1>7. \A k \in DOMAIN waiting' : waiting'[k] \notin lifted'
  BY <1>1, <1>2 DEF GateHonest
<1>8. QED
  BY <1>4, <1>5, <1>6, <1>7 DEF GateHonest

LEMMA GiveUpOnline ==
  ASSUME OnlineInv, GiveUp
  PROVE  OnlineInv'
<1> USE DEF OnlineInv
<1>1. /\ waiting # <<>> /\ waiting' = Back /\ lost' = lost \union {Innermost}
      /\ UNCHANGED <<typed, onWay, verdict, answers, responses, cut, lifted, recorded>>
  BY DEF GiveUp
<1>2. /\ Back \in Seq(Asked) /\ DOMAIN Back \subseteq DOMAIN waiting
      /\ \A k \in DOMAIN Back : Back[k] = waiting[k] /\ Back[k] # Innermost
      /\ {Back[k] : k \in DOMAIN Back} = Waits \ {Innermost}
  BY <1>1, Popped
<1>3. Asked' = Asked /\ Waits' = Waits \ {Innermost}
  BY <1>1, <1>2 DEF Asked, Waits
<1>4. OnlineSound'
  BY <1>1, <1>2, <1>3 DEF OnlineSound
<1>5. QED
  BY <1>1, <1>2, <1>4 DEF GateHonest

LEMMA OnlineStep ==
  ASSUME OnlineInv, [GateNext]_gateVars
  PROVE  OnlineInv'
<1> USE DEF OnlineInv
<1>1. CASE Barrier \/ Connect \/ UNCHANGED gateVars
  <2>1. UNCHANGED <<typed, waiting, onWay, verdict, answers, responses, cut, lifted, recorded, lost>>
    BY <1>1 DEF Barrier, Connect, gateVars, online
  <2>2. QED
    BY <2>1 DEF OnlineSound, GateHonest, Asked, Waits
<1>2. ASSUME NEW i \in Requests, Receive(i)
      PROVE  OnlineInv'
  <2>1. /\ i \in answers /\ answers' = answers \ {i} /\ responses' = responses \union {i}
        /\ UNCHANGED <<typed, waiting, onWay, verdict, cut, lifted, recorded, lost>>
    BY <1>2 DEF Receive
  <2>2. Asked' = Asked /\ Waits' = Waits
    BY <2>1 DEF Asked, Waits
  <2>3. OnlineSound'
    BY <2>1, <2>2 DEF OnlineSound
  <2>4. QED
    BY <2>1, <2>3 DEF GateHonest
<1>3. CASE Disconnect
  <2>1. /\ onWay' \subseteq onWay /\ answers' = {} /\ responses' = {} /\ cut' = DOMAIN typed
        /\ lost' = lost \union Waits
        /\ UNCHANGED <<typed, waiting, verdict, lifted, recorded>>
    BY <1>3 DEF Disconnect, Waits
  <2>2. Asked' = Asked /\ Waits' = Waits /\ DOMAIN typed = Asked
    BY <2>1 DEF Asked, Waits, OnlineSound
  <2>3. \A x \in Requests : verdict'[x] # "none" => verdict[x] # "none"
    BY <2>1
  <2>4. onWay \subseteq lost' /\ answers \subseteq lost' /\ responses \subseteq lost'
    BY <2>1 DEF OnlineSound
  <2>5. \A x \in Requests : x \in onWay' \/ x \notin Asked' => verdict'[x] = "none"
    BY <2>1, <2>2 DEF OnlineSound
  <2>6. OnlineSound'
    BY <2>1, <2>2, <2>4, <2>5 DEF OnlineSound
  <2>7. QED
    BY <2>1, <2>4, <2>6 DEF GateHonest
<1>4. QED
  BY <1>1, <1>2, <1>3, TypePlateOnline, DecideOnline, ConcludeOnline, GiveUpOnline
  DEF GateNext

-----------------------------------------------------------------------------

\* The barrier keeps its invariant when the terminal drives it: no stale timer is left
\* behind by releases that come on top of each other, late or after a reconnection.
THEOREM LaneKeepsBarrier == GateSpec => []IInv
<1>1. GateInit => Init
  BY DEF GateInit
<1>2. [GateNext]_gateVars => [Next]_vars
  BY GateDrivesBarrier DEF gateVars
<1>3. QED
  BY <1>1, <1>2, InitInv, StepInv, PTL DEF GateSpec

\* The inductive invariant of the terminal.
THEOREM OnlineInductive == GateSpec => []OnlineInv
BY OnlineInit, OnlineStep, PTL DEF GateSpec

\* The barrier opens for every request at most for the reason the server or the stored
\* event gave, and a vehicle the server let pass is let through or counted as lost.
THEOREM GateIsHonest == GateSpec => []GateHonest
<1>1. OnlineInv => GateHonest
  BY DEF OnlineInv
<1>2. QED
  BY <1>1, OnlineInductive, PTL

\* Behind the terminal, too, the arm starts down only behind a car or after a full hold,
\* and reverses for a car released or detected on its way down.
THEOREM LaneKeepsHold == GateSpec => HoldIsFull /\ ArmReverses
<1>1. GateSpec => Spec
  <2>1. GateInit => Init
    BY DEF GateInit
  <2>2. [GateNext]_gateVars => [Next]_vars
    BY GateDrivesBarrier DEF gateVars
  <2>3. QED
    BY <2>1, <2>2, PTL DEF GateSpec, Spec
<1>2. QED
  BY <1>1, FullHold, ArmAlwaysReverses, PTL
=============================================================================
