--------------------------- MODULE LprScheduler ---------------------------
(***************************************************************************)
(* The scheduler of plate recognitions (network/PlateRecognition.cpp): a   *)
(* bounded queue, a few workers that each run a script in a process group  *)
(* of their own, a watchdog per script and the destruction of callers.     *)
(*                                                                         *)
(* Everything runs on the thread of the event loop, but calls nest: a      *)
(* callback may submit again or destroy a caller, a destroyed caller       *)
(* cancels its jobs one by one and each cancellation may start the next    *)
(* job.  The calls in progress are the stack; an event is taken only when  *)
(* it is empty.  Scripts run by themselves and end at any time.            *)
(*                                                                         *)
(* Abstracted: images, the text of outcomes, the length of the time-out    *)
(* (the watchdog may fire whenever a script is held for running), the mode *)
(* without a script.                                                       *)
(***************************************************************************)
EXTENDS Integers, FiniteSets, SequencesExt

CONSTANTS
    MaxJobs,         \* bound on the recognitions asked for
    Contexts,        \* callers: the REST gateway, the TCP server
    MaxConcurrency,  \* settings_.maxConcurrency
    QueueLimit       \* settings_.queueLimit

ASSUME LprAssumption ==
    /\ MaxJobs \in Nat
    /\ MaxConcurrency \in Nat \ {0}
    /\ QueueLimit \in Nat \ {0}

Jobs == 1 .. MaxJobs

VARIABLES
    submitted,     \* number of recognitions asked for so far
    contextOf,     \* the caller of each of them
    contexts,      \* the callers that are alive
    fate,          \* what has become of each job
    calls,         \* history: how often its callback ran
    pending,       \* pending_
    running,       \* running_
    tree,          \* the process group of each job
    stack,         \* the calls in progress, innermost last
    shuttingDown   \* shuttingDown_

vars == <<submitted, contextOf, contexts, fate, calls, pending, running, tree,
          stack, shuttingDown>>

\* Posted: failAsync has queued a timer event with the answer.
Fates == {"New", "Queued", "Running", "Posted", "Answered", "Dropped"}

\* Script: /bin/sh runs.  Helpers: it has ended, what it started in the background
\* has not, and may never.
Trees == {"None", "Script", "Helpers"}

\* Pump: startNext.  Callback: done, called by finishTask.  Notice: done, called by
\* the timer event of failAsync.  Destroy: the destroyed signal of a caller.
Frames == {<<"Pump">>, <<"Callback">>, <<"Notice">>} \union {<<"Destroy", c>> : c \in Contexts}

Idle == stack = <<>>
Top(k) == ~Idle /\ Last(stack)[1] = k

\* Calls from outside come from the event loop or from a callback.
MayCall == ~shuttingDown /\ (Idle \/ Top("Callback") \/ Top("Notice"))

\* startNext on top of the calls s, unless one is already in progress.
Pumped(s) ==
    IF <<"Pump">> \in ToSet(s) THEN s ELSE Append(s, <<"Pump">>)

\* Mutant of Freed: the slot of a job that is done is not given back.
FreedNot(j) == running

Freed(j) == running \ {j}

Init ==
    /\ submitted = 0
    /\ contextOf \in [Jobs -> Contexts]
    /\ contexts = Contexts
    /\ fate = [j \in Jobs |-> "New"]
    /\ calls = [j \in Jobs |-> 0]
    /\ pending = <<>>
    /\ running = {}
    /\ tree = [j \in Jobs |-> "None"]
    /\ stack = <<>>
    /\ shuttingDown = FALSE

-----------------------------------------------------------------------------
(***************************************************************************)
(* Calls of the scheduler.                                                 *)
(***************************************************************************)

\* Mutant of QueueFull: one more than the limit is taken.
QueueFullLate == Len(pending) > QueueLimit

QueueFull == Len(pending) >= QueueLimit

\* handleLprRecognize, after its checks: the gateway asks in its own name, so that the
\* answer is dropped with it and not with the connection it came from.
Asked(j) ==
    /\ MayCall
    /\ submitted < MaxJobs
    /\ j = submitted + 1
    /\ contextOf[j] \in contexts

\* submit: a full queue is answered later, with a failure.
Submit ==
    \E j \in Jobs :
       /\ Asked(j)
       /\ submitted' = j
       /\ IF QueueFull
          THEN /\ fate' = [fate EXCEPT ![j] = "Posted"]
               /\ UNCHANGED <<pending, stack>>
          ELSE /\ fate' = [fate EXCEPT ![j] = "Queued"]
               /\ pending' = Append(pending, j)
               /\ stack' = Pumped(stack)
    /\ UNCHANGED <<contextOf, contexts, calls, running, tree, shuttingDown>>

\* A caller is being destroyed: it can no longer be called back.
Destroy(c) ==
    /\ MayCall
    /\ c \in contexts
    /\ contexts' = contexts \ {c}
    /\ stack' = Append(stack, <<"Destroy", c>>)
    /\ UNCHANGED <<submitted, contextOf, fate, calls, pending, running, tree, shuttingDown>>

\* The jobs of c that are still connected to its destroyed signal.
Connected(c) == {j \in Jobs : contextOf[j] = c /\ fate[j] \in {"Queued", "Running"}}

\* terminateProcessTree: the whole group of a job is ended.
Killed(j) == [tree EXCEPT ![j] = "None"]

\* The queue without j (removeOne).
Without(j) ==
    IF j \in ToSet(pending)
    THEN RemoveAt(pending, CHOOSE i \in DOMAIN pending : pending[i] = j)
    ELSE pending

\* cancelTask, in the order in which the jobs were connected.
CancelTask ==
    /\ Top("Destroy")
    /\ \E j \in Connected(Last(stack)[2]) :
          /\ \A i \in Connected(Last(stack)[2]) : j <= i
          /\ fate' = [fate EXCEPT ![j] = "Dropped"]
          /\ pending' = Without(j)
          /\ running' = Freed(j)
          /\ tree' = Killed(j)
          /\ stack' = IF j \in running THEN Pumped(stack) ELSE stack
    /\ UNCHANGED <<submitted, contextOf, contexts, calls, shuttingDown>>

\* The caller is gone, and with it the timer events posted to it.
Destroyed ==
    /\ Top("Destroy")
    /\ LET c == Last(stack)[2] IN
       /\ Connected(c) = {}
       /\ fate' = [j \in Jobs |-> IF contextOf[j] = c /\ fate[j] = "Posted" THEN "Dropped"
                                  ELSE fate[j]]
    /\ stack' = Front(stack)
    /\ UNCHANGED <<submitted, contextOf, contexts, calls, pending, running, tree, shuttingDown>>

-----------------------------------------------------------------------------
(***************************************************************************)
(* startNext and startTask.                                                *)
(***************************************************************************)
CanStart == pending # <<>> /\ Cardinality(running) < MaxConcurrency

\* The caller died while the job was queued.
StartDead(j) ==
    /\ contextOf[j] \notin contexts
    /\ fate' = [fate EXCEPT ![j] = "Dropped"]
    /\ UNCHANGED <<calls, running, tree, stack>>

\* The image cannot be written.
StartWithoutImage(j) ==
    /\ contextOf[j] \in contexts
    /\ fate' = [fate EXCEPT ![j] = "Posted"]
    /\ UNCHANGED <<calls, running, tree, stack>>

\* start reports at once that the script cannot be run: finishTask, whose startNext
\* does nothing because this one is in progress.
StartRefused(j) ==
    /\ contextOf[j] \in contexts
    /\ fate' = [fate EXCEPT ![j] = "Answered"]
    /\ calls' = [calls EXCEPT ![j] = @ + 1]
    /\ stack' = Append(stack, <<"Callback">>)
    /\ UNCHANGED <<running, tree>>

StartScript(j) ==
    /\ contextOf[j] \in contexts
    /\ fate' = [fate EXCEPT ![j] = "Running"]
    /\ running' = running \union {j}
    /\ tree' = [tree EXCEPT ![j] = "Script"]
    /\ UNCHANGED <<calls, stack>>

StartTask ==
    /\ Top("Pump")
    /\ CanStart
    /\ pending' = Tail(pending)
    /\ LET j == Head(pending) IN
       StartDead(j) \/ StartWithoutImage(j) \/ StartRefused(j) \/ StartScript(j)
    /\ UNCHANGED <<submitted, contextOf, contexts, shuttingDown>>

PumpDone ==
    /\ Top("Pump")
    /\ ~CanStart
    /\ stack' = Front(stack)
    /\ UNCHANGED <<submitted, contextOf, contexts, fate, calls, pending, running, tree,
                   shuttingDown>>

\* Mutant of Resumed: finishTask does not look for the next job.
ResumedNot(s) == s

\* What finishTask does after its callback.
Resumed(s) == Pumped(s)

Return ==
    /\ Top("Callback") \/ Top("Notice")
    /\ stack' = IF Top("Callback") THEN Resumed(Front(stack)) ELSE Front(stack)
    /\ UNCHANGED <<submitted, contextOf, contexts, fate, calls, pending, running, tree,
                   shuttingDown>>

-----------------------------------------------------------------------------
(***************************************************************************)
(* Events.                                                                 *)
(***************************************************************************)

\* The script ends by itself; what it left in the background runs on or not.
ScriptEnds(j) ==
    /\ tree[j] = "Script"
    /\ tree' \in {[tree EXCEPT ![j] = "None"], [tree EXCEPT ![j] = "Helpers"]}
    /\ UNCHANGED <<submitted, contextOf, contexts, fate, calls, pending, running, stack,
                   shuttingDown>>

\* finishTask: the job is taken off the books before its caller is told.
FinishTask(j) ==
    /\ running' = Freed(j)
    /\ fate' = [fate EXCEPT ![j] = "Answered"]
    /\ calls' = [calls EXCEPT ![j] = @ + 1]
    /\ stack' = Append(stack, <<"Callback">>)
    /\ UNCHANGED <<submitted, contextOf, contexts, pending, shuttingDown>>

\* The event loop reports the end of a script, or that it could not be started.
\* What it left in the background is not touched.
Finished(j) ==
    /\ Idle
    /\ j \in running
    /\ tree[j] # "Script"
    /\ FinishTask(j)
    /\ UNCHANGED tree

\* The watchdog fires, perhaps when the script has ended and nobody has noticed.
Watchdog(j) ==
    /\ Idle
    /\ j \in running
    /\ tree' = Killed(j)
    /\ FinishTask(j)

\* The timer event of failAsync.
Deliver(j) ==
    /\ Idle
    /\ ~shuttingDown
    /\ fate[j] = "Posted"
    /\ contextOf[j] \in contexts
    /\ fate' = [fate EXCEPT ![j] = "Answered"]
    /\ calls' = [calls EXCEPT ![j] = @ + 1]
    /\ stack' = Append(stack, <<"Notice">>)
    /\ UNCHANGED <<submitted, contextOf, contexts, pending, running, tree, shuttingDown>>

\* shutdown, at the end of the program: nobody is called back any more.
Shutdown ==
    /\ Idle
    /\ ~shuttingDown
    /\ shuttingDown' = TRUE
    /\ fate' = [j \in Jobs |-> IF fate[j] \in {"Queued", "Running", "Posted"} THEN "Dropped"
                               ELSE fate[j]]
    /\ pending' = <<>>
    /\ running' = {}
    /\ tree' = [j \in Jobs |-> IF j \in running THEN "None" ELSE tree[j]]
    /\ UNCHANGED <<submitted, contextOf, contexts, calls, stack>>

Next ==
    \/ Submit \/ CancelTask \/ Destroyed \/ StartTask \/ PumpDone \/ Return \/ Shutdown
    \/ \E c \in Contexts : Destroy(c)
    \/ \E j \in Jobs : ScriptEnds(j) \/ Finished(j) \/ Watchdog(j) \/ Deliver(j)

\* Code that runs goes on, timers fire.  No script has to end, nobody has to call.
Fairness ==
    /\ WF_vars(CancelTask) /\ WF_vars(Destroyed)
    /\ WF_vars(StartTask) /\ WF_vars(PumpDone) /\ WF_vars(Return)
    /\ \A j \in Jobs : WF_vars(Watchdog(j)) /\ WF_vars(Deliver(j))

Spec == Init /\ [][Next]_vars
FairSpec == Spec /\ Fairness

-----------------------------------------------------------------------------
(***************************************************************************)
(* Properties.                                                             *)
(***************************************************************************)

\* Every variable stays in its type, and no call of startNext runs inside another.
TypeOK ==
    /\ submitted \in 0 .. MaxJobs
    /\ contextOf \in [Jobs -> Contexts]
    /\ contexts \subseteq Contexts
    /\ fate \in [Jobs -> Fates]
    /\ calls \in [Jobs -> Nat]
    /\ pending \in Seq(Jobs)
    /\ running \subseteq Jobs
    /\ tree \in [Jobs -> Trees]
    /\ stack \in Seq(Frames)
    /\ \A i, k \in DOMAIN stack :
          stack[i] = <<"Pump">> /\ stack[k] = <<"Pump">> => i = k
    /\ shuttingDown \in BOOLEAN

\* However calls nest: no more scripts run than there are workers, no more jobs wait
\* than the queue may hold, no script runs that no worker answers for, be it after a
\* time-out, a destroyed caller or the end of the program, and only a job that was started
\* and not given up leaves anything behind (comment above LprSettings).
BoundedLoad ==
    /\ Cardinality(running) <= MaxConcurrency
    /\ Len(pending) <= QueueLimit
    /\ {j \in Jobs : tree[j] = "Script"} \subseteq running
    /\ \A j \in Jobs : tree[j] # "None" => fate[j] \in {"Running", "Answered"}

\* The queue, the workers and the fate of each job tell the same story.
BooksAgree ==
    /\ running = {j \in Jobs : fate[j] = "Running"}
    /\ ToSet(pending) = {j \in Jobs : fate[j] = "Queued"}
    /\ IsInjective(pending)

\* The three together.
LoadSound == TypeOK /\ BoundedLoad /\ BooksAgree

\* Between two events no worker is free while a job waits: a slot given back inside a
\* callback, a cancellation or a failed start is taken again before the loop goes on.
WorkConserving ==
    Idle => pending = <<>> \/ Cardinality(running) = MaxConcurrency

\* To the callers the scheduler is a service that answers every request exactly once,
\* unless the caller is destroyed first, and then never: whatever the order in which
\* the script ends, its watchdog fires and the caller goes (comment at submit).
AbstractFate ==
    [j \in Jobs |-> IF fate[j] \in {"Queued", "Running", "Posted"} THEN "Waiting" ELSE fate[j]]
Gone == {j \in Jobs : contextOf[j] \notin contexts \/ shuttingDown}

Service == INSTANCE AnswerOnce
    WITH Requests <- Jobs, fate <- AbstractFate, calls <- calls, gone <- Gone

AnswersOnce == Service!Spec
=============================================================================
