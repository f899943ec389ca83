---------------------------- MODULE BarrierGate ----------------------------
(***************************************************************************)
(* The state machine of the barrier at an entrance or exit lane            *)
(* (apps/gate/BarrierGate.cpp), driven by the releases of the terminal, by *)
(* the ground loop and by four single-shot timers of the clock it is given.*)
(*                                                                         *)
(* Events and timer callbacks run on one thread.  A timer fires some time  *)
(* after it is due, never before: between the two, any event may come, so  *)
(* a callback can find the machine in another state than it was set in.    *)
(*                                                                         *)
(* Abstracted: the log, the count of reversals (nothing reads it).         *)
(***************************************************************************)
EXTENDS Integers

CONSTANTS
    OpeningTime,  \* kOpeningMs
    HoldTime,     \* kHoldTimeoutMs
    ClosingTime,  \* kClosingMs
    AlarmTime     \* kFaultAlarmMs

ASSUME TimesAssumption ==
    OpeningTime \in Nat /\ HoldTime \in Nat /\ ClosingTime \in Nat /\ AlarmTime \in Nat

VARIABLES
    state,          \* state_
    timer,          \* time left of each timer, or Idle: openTimer_, holdTimer_, ...
    faultInjected,  \* faultInjected_: the motor cannot lift the arm
    quiet           \* history: time since the last car was released or detected

vars == <<state, timer, faultInjected, quiet>>

States == {"Closed", "Opening", "Open", "Closing", "Fault"}
Timers == {"open", "hold", "close", "alarm"}
Idle == -1

Delay == [open |-> OpeningTime, hold |-> HoldTime, close |-> ClosingTime, alarm |-> AlarmTime]

\* Long enough for quiet to outlast both the hold and the way down.
Calm == HoldTime + ClosingTime

-----------------------------------------------------------------------------
(***************************************************************************)
(* The clock.  start cancels what is left of the same timer.               *)
(***************************************************************************)
Started(tm, k) == [tm EXCEPT ![k] = Delay[k]]
Cancelled(tm, k) == [tm EXCEPT ![k] = Idle]
Aged(tm) == [k \in Timers |-> IF tm[k] > 0 THEN tm[k] - 1 ELSE tm[k]]

Init ==
    /\ state = "Closed"
    /\ timer = [k \in Timers |-> Idle]
    /\ faultInjected = FALSE
    /\ quiet = Calm

Tick ==
    /\ timer' = Aged(timer)
    /\ quiet' = IF quiet < Calm THEN quiet + 1 ELSE quiet
    /\ UNCHANGED <<state, faultInjected>>

\* Mutant of OpenTimeout: an arm that does not arrive is not reported as a fault.
OpenTimeoutSilent ==
    /\ timer["open"] = 0
    /\ IF state = "Opening" /\ ~faultInjected
       THEN /\ state' = "Open"
            /\ timer' = Started(Cancelled(timer, "open"), "hold")
       ELSE /\ timer' = Cancelled(timer, "open")
            /\ UNCHANGED state
    /\ UNCHANGED <<faultInjected, quiet>>

\* The callback of startOpening.
OpenTimeout ==
    /\ timer["open"] = 0
    /\ CASE state # "Opening" ->
              /\ timer' = Cancelled(timer, "open")
              /\ UNCHANGED state
         [] state = "Opening" /\ faultInjected ->
              /\ state' = "Fault"
              /\ timer' = Started(Cancelled(timer, "open"), "alarm")
         [] OTHER ->
              /\ state' = "Open"
              /\ timer' = Started(Cancelled(timer, "open"), "hold")
    /\ UNCHANGED <<faultInjected, quiet>>

\* The callback of startHold.
HoldTimeout ==
    /\ timer["hold"] = 0
    /\ IF state = "Open"
       THEN /\ state' = "Closing"
            /\ timer' = Started(Cancelled(timer, "hold"), "close")
       ELSE /\ timer' = Cancelled(timer, "hold")
            /\ UNCHANGED state
    /\ UNCHANGED <<faultInjected, quiet>>

\* The callback of startClosing.
CloseTimeout ==
    /\ timer["close"] = 0
    /\ state' = IF state = "Closing" THEN "Closed" ELSE state
    /\ timer' = Cancelled(timer, "close")
    /\ UNCHANGED <<faultInjected, quiet>>

\* The callback of startFaultAlarm: the alarm sounds until the reset.
AlarmTimeout ==
    /\ timer["alarm"] = 0
    /\ timer' = IF state = "Fault" THEN Started(timer, "alarm") ELSE Cancelled(timer, "alarm")
    /\ UNCHANGED <<state, faultInjected, quiet>>

-----------------------------------------------------------------------------
(***************************************************************************)
(* The events.                                                             *)
(***************************************************************************)

\* Mutant of RequestOpen: only a closed barrier takes notice of a release.
RequestOpenIgnored ==
    /\ IF state = "Closed"
       THEN /\ state' = "Opening"
            /\ timer' = Started(timer, "open")
       ELSE UNCHANGED <<state, timer>>
    /\ quiet' = 0
    /\ UNCHANGED faultInjected

\* requestOpen: the terminal let a vehicle through.
RequestOpen ==
    /\ CASE state = "Closed" ->
              /\ state' = "Opening"
              /\ timer' = Started(timer, "open")
         [] state = "Open" ->
              /\ timer' = Started(timer, "hold")
              /\ UNCHANGED state
         [] state = "Closing" ->
              /\ state' = "Opening"
              /\ timer' = Started(Cancelled(timer, "close"), "open")
         [] state \in {"Opening", "Fault"} -> UNCHANGED <<state, timer>>
    /\ quiet' = 0
    /\ UNCHANGED faultInjected

\* vehiclePassed: the ground loop sees a vehicle; an arm on its way down reverses.
VehiclePassed ==
    /\ CASE state = "Open" ->
              /\ state' = "Closing"
              /\ timer' = Started(Cancelled(timer, "hold"), "close")
         [] state = "Closing" ->
              /\ state' = "Opening"
              /\ timer' = Started(Cancelled(timer, "close"), "open")
         [] OTHER -> UNCHANGED <<state, timer>>
    /\ quiet' = 0
    /\ UNCHANGED faultInjected

SetFault ==
    /\ faultInjected' \in BOOLEAN
    /\ UNCHANGED <<state, timer, quiet>>

\* Mutant of Reset: the alarm goes on.
ResetKeepsAlarm ==
    /\ state = "Fault"
    /\ state' = "Closed"
    /\ timer' = Cancelled(timer, "open")
    /\ UNCHANGED <<faultInjected, quiet>>

\* reset: a barrier at fault is closed by hand.
Reset ==
    /\ state = "Fault"
    /\ state' = "Closed"
    /\ timer' = Cancelled(Cancelled(timer, "open"), "alarm")
    /\ UNCHANGED <<faultInjected, quiet>>

Timeout == OpenTimeout \/ HoldTimeout \/ CloseTimeout \/ AlarmTimeout

Next == Tick \/ Timeout \/ RequestOpen \/ VehiclePassed \/ SetFault \/ Reset

\* Time goes on and the event loop runs the callback of a timer that is due; no
\* vehicle and no operator has to come.
Fairness ==
    /\ WF_vars(Tick)
    /\ WF_vars(OpenTimeout) /\ WF_vars(HoldTimeout) /\ WF_vars(CloseTimeout)
    /\ WF_vars(AlarmTimeout)

Spec == Init /\ [][Next]_vars
FairSpec == Spec /\ Fairness

-----------------------------------------------------------------------------
(***************************************************************************)
(* Properties.                                                             *)
(***************************************************************************)

\* Every variable stays in its type.
TypeOK ==
    /\ state \in States
    /\ timer \in [Timers -> Int]
    /\ \A k \in Timers : timer[k] \in Idle .. Delay[k]
    /\ faultInjected \in BOOLEAN
    /\ quiet \in 0 .. Calm

\* The timer that moves the machine on from its state, if any.
Awaited == [Closed |-> {}, Opening |-> {"open"}, Open |-> {"hold"},
            Closing |-> {"close"}, Fault |-> {"alarm"}]

\* No stale timer is left behind and no state is left without the timer that ends
\* it: in every state exactly the timer of that state is pending, so that neither a
\* reversal nor a reset is undone by an older callback, and a raised arm always has
\* something that brings it down.
OnlyAwaitedTimers == \A k \in Timers : timer[k] # Idle <=> k \in Awaited[state]

\* The arm starts down only behind a car, or when the full hold has passed since
\* the last car was let through: a release while the arm is up renews the hold.
HoldIsFull ==
    [][state = "Open" /\ state' = "Closing" => quiet' = 0 \/ quiet >= HoldTime]_vars

\* The arm is never all the way down within the time it takes to lower it of a car
\* having been released or detected: it has reversed instead (comments in
\* requestOpen and vehiclePassed).
ArmReverses ==
    [][state = "Closing" /\ state' = "Closed" => quiet >= ClosingTime]_vars

\* A car that was let through finds the arm up, unless the motor is stuck.
ReleasedCarPasses == state = "Opening" ~> state \in {"Open", "Fault"}

\* When no more cars come, the arm comes down and stays down (or is at fault).
ArmComesDown ==
    <>[][~(RequestOpen \/ VehiclePassed)]_vars => <>[](state \in {"Closed", "Fault"})

\* The distance of the pending timer from its end, against the history.
TimersAgree ==
    /\ state = "Open" => HoldTime - timer["hold"] <= quiet
    /\ state = "Closing" => ClosingTime - timer["close"] <= quiet

\* The inductive invariant.
IInv == TypeOK /\ OnlyAwaitedTimers /\ TimersAgree
=============================================================================
