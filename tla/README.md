# A verification development for SmartPark

TLA+ models of SmartPark's own logic, checked with TLC on small instances and,
where a statement matters for every size, proved with TLAPS. Every definition is
translated from the source; `PROJECT.json` ("map") names the lines of each.

    tlc -config ParkingCore.cfg MCParkingCore.tla     # one run
    tlapm ParkingProofs.tla                           # one proof module

1. The system; 2. Modules; 3. Runs; 4. Proofs; 5. Disagreements between the code and
what it says of itself; 6. What is not modelled.

## 1. The system

SmartPark manages a car park: cars enter, are given a spot, may have reserved one
ahead against a deposit, and pay when they leave. One server process holds the
state in memory and mirrors every change to SQLite; desktop, web, TCP clients and
gate terminals call it.

| component | state | operations | interacts with |
|---|---|---|---|
| `ParkingService` | spots, parking records, bookings | enter, leave, emergencyEnter, reserve, release, create/confirm/cancelBooking, expire… | owns `ReservationService`; writes through `ParkingRepository` |
| `ReservationService` | reservations, deposit payments | create, cancel, checkIn, sweep, exit settlement, restore | the spots of `ParkingService`; payment gateway; database |
| `FakePaymentGateway` | a sequence number, a failure switch | charge, refund, forfeit | called by `ReservationService` before the matching write |
| `ParkingRepository` | the tables | one transaction per operation, two partial unique indexes | SQLite |
| `BackgroundEntryPlanner` | queue of 8 requests, one worker | submit, search, commit or retry | a snapshot of the spots; `enterImpl` |
| `SmartParkTcpServer` | sessions and tokens | login, actions, `gate.replay`, idle kick | `ParkingService`, event hub |
| `RestGateway` | payment orders, WebSocket sessions | order create/confirm/expire, actions | `ParkingService`, `UserStore`, event hub |
| gate terminal (`apps/gate`) | barrier, queue file, connection | entrance, exit, offline recording, replay, reconnect | TCP server; barrier |
| `BarrierGate` | state, four timers | requestOpen, vehiclePassed, setFault, reset | a clock |
| `LprScheduler` | queue, running processes | submit, finish, watchdog, cancel | recognition scripts |
| `ServerSession`, `RemoteDataSource` | connection, token, pending requests; snapshot shown | start, stop, request, reconnect, heartbeat | TCP server |
| `UserStore`, `AuditLogService` | accounts, tokens; hash chain | login, lock-out, revoke; record, verify | SQLite |
| `BillingService`, `SpotAllocator`, `GridPlanner` | none | fee; best spot; route | pure |

All calls of the service run on the Qt main thread, one after the other. What is
hard is therefore not two calls at once but

* **calls of several writes**, each of which may fail: what was charged, unlocked or
  occupied before the failing write, and what the code puts back;
* **crashes and restarts** between calls: start-up validates the database and refuses
  it when it looks inconsistent;
* **orders of calls nobody wrote a test for**: cancel and book again, an emergency
  entry of a car with a reservation, an eviction, a failed check-in followed by an
  ordinary entry;
* **nested event loops and timers** in the gate terminal, batches whose answer is lost,
  and files that end in the middle of a line;
* **work done on a snapshot** by a worker thread and committed later.

What makes each component correct:

* core: one open reservation per plate and per spot; a car on a spot exactly when its
  record says so; memory equal to the database; every deposit charged once and
  settled once; no lock that outlives its reservation; start-up accepts what the
  service wrote;
* gate terminal: what was let through is reported, in order, and takes effect once;
* barrier: never down on a released car; comes down in the end; no stale timer;
* entry planner: a commit is one atomic entry valid at that moment, one answer per
  request;
* payment orders: paid once, only for the visit they were made for;
* recognition: bounded processes, a bounded queue, one callback for each caller that is
  still there;
* client session: each request answered once and truly; on line again after every fault;
* accounts: a lock holds, tokens do not multiply, a client keeps its token; audit log: a
  broken row is found where it is;
* bookings: the spot of a booking is held until its deadline; what was forfeited stays so.

`PROJECT.json` lists the hazards with the line where each one bites and the
properties that cover it.

## 2. Modules

| module | models | properties of |
|---|---|---|
| `ReservationLife` | abstract: what a reservation promises | refined by `ParkingCore` |
| `ParkingCore` | `ParkingService`, `ReservationService`, `ParkingRepository`, payment gateway | `core`, `core_faults`, `restartable` |
| `EntryPlanner` (extends `ParkingCore`) | `BackgroundEntryPlanner` | `planner` |
| `Bookings` | untimed holds, bookings, explicit releases of `ParkingService` | `bookings` |
| `BarrierGate` | the barrier of a lane | `barrier` |
| `GateOnline` (extends `BarrierGate`) | the terminal at work: typed plates, requests, off-line releases | `barrier` |
| `GateReplay` | queue file, reconnection, replay, de-duplication at the server | `replay` |
| `AnswerOnce` | abstract: every request is answered once | refined by the next two |
| `LprScheduler` | scheduler of plate recognitions | `lpr` |
| `RemoteSession` | `ServerSession`, `RemoteDataSource`, sessions of `SmartParkTcpServer` | `session` |
| `Billing` | `calculateFee` | `payments` |
| `PaymentOrders` (extends `Billing`) | payment orders of `RestGateway` | `payments`, `dangling_order` |
| `AuditChain` | `AuditLogService` | `accounts` |
| `Accounts` (extends `AuditChain`) | `UserStore` and the authentication handlers of `RestGateway` | `accounts` |
| `BookingsProofs`, `GateReplayProofs`, `LprSchedulerProofs`, `RemoteSessionProofs`, `PaymentOrdersProofs`, `AccountsProofs` | theorems about the module they are named after | |
| `ParkingProofs` | theorems about `ParkingCore`, `EntryPlanner` and `ReservationLife` | |
| `GateProofs` | theorems about `BarrierGate` and `GateOnline` | |
| `MC...` | instances for TLC | |

### ParkingCore

`world` is a record of everything a call may touch: memory (`spots`, `resv`,
`active`), database (`dbSpots`, `dbResv`, `dbActive`, `ledger`) and what was asked of
the payment gateway (`gateway`). A call maps a world to the worlds it may end in, as
the composition of the functions its code is made of: `Enter` is `Expire`, then
`CheckInImpl` (which begins with `Sweep`), then, if that served no reservation,
`OccupyAndRecord`, just as `enterImpl` calls them. One action is one call.

* `active[p]` stands for the record of p without an exit time. Closed records have no
  further effect and are left out.
* **Failures.** `Writes` names every write by operation and row; a call takes a set
  `F` of writes that fail. Each part says what its code does when its write is in `F`:
  roll back, ignore, or abort the call. `Outages` gives the sets that may fail together.
* **Crash / Restart.** `Crash` clears the memory, `Restart` runs the checks of
  `ParkingService::restore` and `ReservationService::restore` and the repair of
  conflicting reservations; `RestartFails` is a repair that cannot be written. There is
  no action for a refused start: the process stays down.
* **The allocator** picks any admissible spot, which covers its three strategies.
* **Time** is a number every call is given. In the runs a unit is 30 minutes: the lead
  time and the grace period are one unit, the booking horizon two.
* A deposit is charged or not (accessible reservations pay none); amounts are left out.

### ReservationLife

The promise of the core to the driver who paid for a reservation, stated of what is in the
database: its row, its receipts, the spots of the cars inside, and the time. A reservation
is booked (`Book`) and then ends in one of three ways, each at its time and with its
receipt: the car arrives by the deadline and departs from the reserved spot (`Arrive`,
`Depart`), the driver withdraws before the start (`Withdraw`), nobody came (`Miss`). One
call of the service may take any number of reservations one step, none of them two, and
no call touches the row or a receipt otherwise. `ParkingCore` implements it (`KeepsPromise`)
with its own `dbResv`, `ledger` and `dbActive` for `rows`, `ledger` and `cars`: what
is in memory, how a call is made up, which write fails and when the process stops is
invisible to the promise. Locks of spots are no part of it, since one that could not be
written leaves the reservation standing without one.

### EntryPlanner

It extends `ParkingCore` and adds the planner's own state: the queue (`requests`, with
`request` saying what each asks), the callers a full queue turned away (`turned`), the
snapshot the worker was given (`plan`) and what the planner waits for (`stage`, which
stands for `running_` and the pending zero timer or worker). `reply` is the answer given
in the last step. An action is a slot of the main thread. Two slots call the service
twice, with a failing write possible in each: delivering a result tidies up
(`Housekeep`: expire, then sweep) and then enters the car or searches again. They are two
steps with `Busy` in between, when nothing else of the process runs. `Elsewhere` is every
other call of the core, so that spots are taken, freed and reserved, reservations become
late and the process stops while the worker searches. `Commit` enters the car through
`EnterPrepared`, a translation of `enterImpl` with a prepared spot; that it is an ordinary
`Enter` of the core is checked, not assumed (`EntersAtomically`).

`sameSpots` compares spots, not reservations, which is why `RefusedForAReason` speaks of
the spots the search was allowed (see section 5).

### Bookings

`mem` and `db` are the same record (spots, open records, bookings) in memory and on disk.
The writes of a call are numbered in the order of the code; a call may have one of them
fail, or all from some point on, and the process may stop at any of them, which is the
same with `up` false afterwards. `waived`, `forfeited` and `spoiled` are history:
bookings whose driver used or gave away the spot in another way, those that were
no-shows, and databases the start-up checks are known not to accept (section 5).
`StartsAgain` says that there are no others. Only tests call these operations today, but
the start-up checks read their rows in every database.

### BarrierGate and GateOnline

The state machine with its four timers as numbers that count down; a timer at 0 may
fire at any later moment, so events come between due time and callback. `quiet` is a
history variable: the time since a car was last released or detected.

`GateOnline` puts a terminal in front of it. A plate typed while the gate is on line is
sent (`TypePlate`), then `TcpClient::request` waits in a nested event loop, in which the
next plate may be typed: `waiting` is the stack of these loops and only the innermost can
go on (`Conclude`, `GiveUp`). The server decides (`Decide`), the answer comes late or
never, the connection breaks and takes all answers with it (`Disconnect`). Off line the
event is appended to the file and the barrier opened, unless the append fails. `lifted`,
`recorded` and `lost` are history.

### GateReplay

Gates with a queue file each (`queue`: lines that are good, joined or torn), a FIFO
connection (`wire`), answers keyed by request, and the server's records. `awaiting[g][c]`
is the number of lines submitted by a replay under way: `c` is `start` (begun before the
event loop of the program runs) or `timer`. The timer may fire inside the wait of
`start`, since `TcpClient::request` runs a nested event loop; the inner wait ends first.
`released` (the barrier was opened) and `judged` (the server gave a verdict) are history.

### AnswerOnce

The promise of an asynchronous service: a request is `New`, `Waiting`, `Answered` or
`Dropped`; answering runs its callback once; a caller that is `gone` is never called
back; as long as it is there, what waits is answered in the end (`Settles`). Two
components that look nothing alike implement it under refinement mappings.

### LprScheduler

`pending` and `running` are the members of that name, `fate` says what became of each job
(`Posted`: its rejection waits in a zero timer), `tree` what is left of its process group.
The code is single-threaded but calls nest: a callback submits or destroys a caller, a
destroyed caller cancels its jobs one by one, each cancellation may start the next job,
and a failed start calls back at once. `stack` holds the calls in progress; events of the
loop (a script ended, a watchdog, a posted rejection) are taken when it is empty.

### RemoteSession

`me` is one record for the client: socket, timer, state, token, pending requests, login,
heartbeats, and the snapshot shown. Connections are `Links` that are used again; frames
travel in order on each (`toServer`, `toClient`); a link breaks, or dies and tells nobody.
`session` and `working` are the server's: what a connection is allowed, and where an
answer that is computed later goes (`working` becomes `nobody` when its link is dropped).
Changes by others reach the client as events, which make it ask for the snapshot again.

### PaymentOrders and Billing

The gateway keeps each order in memory (`orders`) and in a row (`rows`) and ignores most
failures of the second. `stay` and `booked` are the visits and reservations of the
service, which cars also begin and end through the TCP server, where nobody knows of
orders. `lost` (orders a write of which failed), `thisVisit` (orders made in the present
visit of their car) and `paysFor` (exits an order let through) are history. Fees are
computed by `Billing`, a translation of `calculateFee` into naturals.

### Accounts and AuditChain

`users`, `failed`, `lockLeft` and `tokens` are tables of the database; each statement may
fail. What the handlers log goes through `Record`, the insertion of an audit row in two
statements. `storeError` and `logError` are the sticky `lastError_` of the two classes.
`wrongs`, `sinceWrong`, `family`, `over`, `astray` and `blind` are history.

## 3. Runs

| run | instance | shows |
|---|---|---|
| `core` | 2 plates, 2 spots (1 accessible), 2 reservation ids, times 0..3, one failing call or crash | one open reservation, occupancy, memory = database, ledger, locks; no lock is handed over; implementation of `ReservationLife` |
| `core_faults` | 1 spot, 3 failing calls or crashes | the inductive invariant of the proofs under repeated failures |
| `restartable` | as `core`, nothing fails | **violated**: cancel, book again, same spot, start refused |
| `planner` | 1 spot, 2 plates, 1 reservation, times 0..1, a queue of 2, one retry, one failing call or crash | no request stranded, entries only for who asks, refusals justified by the spots as they are, a background entry is one atomic entry of the core, everybody is answered |
| `bookings` | 2 vehicles, one of which books, 2 spots, 2 bookings, times 0..3, one call with failing writes or a crash in it | spots of bookings are kept, no-shows stay no-shows, memory and database part only as described, what the service wrote it accepts at the next start |
| `barrier` | 1 vehicle, 3 typed plates, one time-out, broken connection or failed append; delays 1, 2, 1, 1 | the inductive invariant of the barrier, full hold, reversal; one opening for each permission; the car gets through, the arm comes down, every request ends |
| `replay` | an entrance and an exit, 1 plate, 1 spot, batches of 2, 3 events, 3 failures, one half-written line | once, in order, nothing dropped before it was judged, drained unless a line cannot be read |
| `lpr` | 2 callers, 2 workers, a queue of 1, 4 jobs | bounded load, no idle worker while a job waits, implementation of `AnswerOnce` with its liveness |
| `session` | 1 request, 2 links, 2 calls of `start`, 1 change elsewhere, 1 fault | never at rest by itself, true answers, implementation of `AnswerOnce`, on line again, the view catches up |
| `payments` | 1 user, 2 plates, 2 orders, time-out 0, stays to 2, 2 failures | rows follow memory, an order pays for one exit, nobody pays more than the units begun at the exit, every order settles |
| `dangling_order` | as `payments` | **violated**: an unpaid order survives the exit of its car |
| `accounts` | 2 accounts, 2 tokens, a lock of 2 after 2 failures, 2 faults, 2 audit rows | a lock holds its whole time, a login has one token at most, a refresh leaves a token of the same login, verification points at the row a fault spoiled |

A violation run checks one statement of the project's own documents or comments,
which the code does not keep; `PROJECT.json` ("findings") quotes it.

**Bounds.** Two plates and two spots are the least with which two cars compete for a
spot and one car has a choice; two reservation ids allow cancel-and-book-again of one
plate and reservations of two. Times 0..3 with starts 1 and 3 pass through "too soon",
"in time", "late" and "too far ahead", and both grace periods end within them. One
failing call with any single write or all of them failing covers each error branch;
`core_faults` repeats failures on one spot, where retries meet what they left behind.
Symmetry permutes the plates; it is used in runs without liveness only.

* `replay`: three events are one more than a batch, so that a file takes two replays; it
  is shorter than two batches, and there `NothingDropped` holds: the second of two
  overlapping acknowledgements is refused because fewer lines are left than it counts.
* `planner`: the one reservation starts and becomes late within the two times, before,
  during or after a search; with one spot every change of it is a change of the snapshot,
  and a car is competing for it in every search. The queue of two and the one retry stand
  for eight and two: a third caller meets the full queue, a second change exhausts the
  retries. Submissions are not bounded: the numbers of answered requests are used again.
* `bookings`: only one vehicle books, since two bookings of one vehicle, one after the
  other, are where the rules meet; the other one takes and frees spots. A tick is the
  grace period, so that a booking is confirmed early, in time, at the deadline and late.
* `barrier`: three plates nest three requests, so that a middle one is cut off between two
  others. With delays 1, 2, 1, 1 the hold outlasts the way down, as the program's does,
  and every event falls before, at and after every due time.
* `lpr`: with two workers and a queue of one the fourth job meets a full queue, or is
  submitted from the callback of one whose worker it gets.
* `session`: the second call of `start` finds the session alive, refused or waiting; two
  links let an old connection's answer be under way while the new one logs in. One fault
  suffices to break each of the paths; what follows it are the program's own timers.
* `payments`: a time-out of 0 lets an order be confirmed in the tick in which it expires;
  stays 0 and 1 are free, and one of 2 ends exactly with the first unit, where one unit too
  many would be charged; second units and the cap are left to the proof, for every tariff.
* `accounts`: two failures lock; a lock of two ticks can be tried twice before it ends;
  two tokens are a login and its refresh, or two logins; two rows are a broken one and
  its successor.

**Deadlock** is not checked: in every model something is bounded (time, submissions,
faults), or all is done and nobody has to come, so every run may end. That nothing waits
for ever where something has to happen is what the liveness properties say.

**Fairness** is stated where a run has a liveness property, for what the program or its
environment does by itself:

| run | what is bound to happen | what is not |
|---|---|---|
| `barrier` | time passes, timers that are due are called, requests are decided and answered or given up after 2.5 s | a car or an operator comes; a broken connection comes back |
| `replay` | the reconnect timer fires every 5 s, requests are served, waits end by answer or time-out, a stopped terminal is started again; connections break a bounded number of times | events |
| `planner` | zero timers fire, a search ends | other calls |
| `lpr` | code that runs goes on, watchdogs and posted rejections fire | a script ends |
| `session` | timers fire, a working network delivers, a listening server accepts and answers | calls of the user interface; anything on a link that died |
| `payments` | time passes, the timer of `RestGateway::sweep` fires | the user pays |

The core, the accounts and the bookings have none: no timer of the program calls them
(the planner sweeps, but only for a request).

## 4. Proofs

All proofs are for any values of the constants, finite or infinite, and assume nothing
but the ASSUMEs of the modules: numbers are naturals, limits that the code takes as at
least one are positive, `None` is not a member of the sets it marks.

| module | theorem | statement |
|---|---|---|
| `ParkingProofs` | `Inductive` | `Spec => []IInv` |
| | `TypeCorrect`, `NoDoubleReservation`, `OccupancySound`, `MemoryInStep`, `LedgerCorrect`, `LocksBacked`, `ArrivalRecorded` | the invariants of run `core`, the types, and that the car of a checked-in reservation is on its spot |
| | `LocksRespected`, `SettlementIsFinal` | `LockNotHandedOver`; no step touches what is settled (`SettlementFinal`) |
| | `ReservationsKeepPromise`, `PlannerKeepsPromise` | the core implements `ReservationLife` (`KeepsPromise`), alone and with the planner beside it |
| | `CoreUnharmed` | `PlannerSpec => []IInv`: what is proved of the states of the core holds with the planner beside it |
| | `PlannerSettles`, `PlannerRespectsLocks` | `SettlementFinal`, `LockNotHandedOver`, for the steps of the planner too |
| | `RequestsKept`, `OnlyWhoAsks` | `NobodyStranded`, `EntersForWhoAsks` |
| | `PlannerKnows` | what the planner compares a proposal with is what the worker saw (`Known`) |
| | `EntryIsAtomic`, `RefusalsAreDue` | `EntersAtomically`, `RefusedForAReason` |
| `BookingsProofs` | `BookingsInductive` | `Spec => []BInv` |
| | `BookingsInOrder`, `BookingsRestartable` | `BookingsSound`, `StartsAgain` |
| `GateProofs` | `GateInductive`, `NoStaleTimer`, `FullHold`, `ArmAlwaysReverses` | of the barrier alone: the invariant, its part about timers, `HoldIsFull`, `ArmReverses` |
| | `LaneKeepsBarrier`, `LaneKeepsHold` | the same with the terminal in front of it |
| | `OnlineInductive`, `GateIsHonest` | the invariant of the terminal, `GateHonest` |
| `GateReplayProofs` | `ReplayAppliesOnce` | `Spec => []AppliedOnce` |
| | `ReplayKeepsWhatIsNotJudged`, `ReplayJudgesInOrder`, `OnlyJudgedIsTakenOff` | `NothingDropped`, `JudgedInOrder`, `OnlyJudgedLeaves`, each from `Spec /\ []ShortWhenTwoWait` |
| `LprSchedulerProofs` | `LoadStaysBounded`, `NoWorkerIdles` | `LoadSound`, `WorkConserving` |
| | `SchedulerServes`, `CalledBackAtMostOnce` | `Spec => Service!SafeSpec`, `Spec => []Service!AtMostOnce` |
| `RemoteSessionProofs` | `ClientNeverStuck` | `SessionSound` |
| | `RequestsInOnePlace`, `AnswersAreTrue` | the invariant about requests on their way (`OnceInv`), `AnswerTrue` |
| | `SessionServes`, `AnsweredAtMostOnce` | `Spec => Service!SafeSpec`, `Spec => []Service!AtMostOnce` |
| `PaymentOrdersProofs` | `RowsFollowMemory`, `NoSecondCharge`, `NobodyOvercharged` | `RowsFollow`, `PaysForOneExit`, `NeverOvercharged` |
| | `FeeByUnitsBegun` | `calculateFee` is `Cost`, a count of the units begun, for every tariff and stay |
| `AccountsProofs` | `LockIsKept`, `TokensDoNotMultiply`, `ClientKeepsToken`, `ChainIsVerified` | `LockHolds`, `OneTokenPerLogin`, `RefreshKeepsClient`, `VerifyFindsFault` |

**Core.** None of the invariants is inductive alone. That a spot has one open reservation
rests on locks being what their reservation says (`LocksSound`); that on every hold of the
database having been written for a reservation (`HoldsExplained`), which is what a
restart brings back into memory; that the ledger is right rests on a retry seeing the
status the last successful write left (`Mirrored`). `IInv` is the conjunction of the
parts: types; the database is sound (`DbSound`); while the process runs, memory is
sound (`MemorySound`: it mirrors the database but for holds it gave up, locks are
sound, holds are backed); while it does not, memory is empty. The proof follows the
code: each function a call is made of has a lemma that it takes a sound world to a
sound world, actions compose the lemmas, and no lemma looks inside two functions.
That locks are respected is shown in the same way, with one more lemma for each function:
it leaves a lock that is not late to its reservation or resolves that reservation
(`KeepsLocks`), and puts no other vehicle on the spot (`HandsOverNone`).

**The promise of a reservation.** A call is expiry, housekeeping, and what it was made
for, on one world after the other, and an abstract step is one change of the row. The
proof has to show that no reservation takes two steps in one call: the housekeeping makes
no-shows and nothing else (`OnlyMissed`), and what it settled later parts leave alone
(`LivesAfterMissed`), because each of them changes a reservation that is still open.
`Lives` says of one reservation that the call took it one step or none; every function
has a lemma for it, and `StepKeepsPromise` maps each action, the repair at a start and its
failure included. That a booking has no rival, and that a car departs from the spot it
reserved, are parts of `DbSound`: without `IInv` the refinement is not true step by step.

**Planner.** The invariant is `IInv` and what the queue and the stage say of each other
(`Queue`, `Asked`, `Told`, `Slots`). `Elsewhere` is a step of the core. `Commit` is not:
that a prepared entry leaves the world sound is shown once more from the lemmas on the
functions it shares with `Enter`. The lemmas on it also say whose car it moved, which is
what `EntersForWhoAsks` is about. That a prepared entry *is* an entry needs more: the spot
proposed is one the allocator of `Enter` could have chosen when the entry is committed.
`Known` says what is known then: the proposal was admissible for the spots the worker was
given (`Chosen`), those spots were what `Enter` would have looked at (`Foreseen`), and,
while no write failed, nothing is left for the first part of `Enter` to tidy up when the
spots are compared (`TidyAtCommit`). The first form of `EntersAtomically` had no
exception; the attempt to prove it led to the one it has: a reservation that came up
during the search with a lock that could not be written, and an entry in which writes
fail again.

**Bookings.** Each of the nine calls makes several writes, one of which or all from one on
may fail: a lemma for each outcome of each call would not end. Every call is therefore taken
apart into elementary changes of a world: a row gets or loses a hold, a vehicle parks or
leaves, a booking is made or ends. Each change has one lemma that it keeps both copies of
the rows sound (`Good`), whether its write reaches the database or not; calls compose
them. Two finer parts hold under conditions and are composed in the same way: while no
write failed, a vehicle has one hold at most, and the same in both copies (`HoldsOk`);
while nothing spoiled it, the copies are equal and clean (`Tidy`), and a clean copy is
one the start-up checks accept. When the process is down, `Stored` says of the database
alone what a restart needs to make memory `Good` again. The second part of `OneClaimEach`
was stated without `forfeited` at first: the proof failed where a restart brings back a
no-show whose write was lost, while its car is parked, and an instance with two failing
calls shows it happening.

**Gate.** The invariant of the barrier adds to types and awaited timers that the time a
timer has run is at most `quiet` (`TimersAgree`). The terminal uses the barrier through
its actions only, so it keeps the invariant and both action properties. Its own
invariant, `OnlineInv`, adds to `GateHonest` where a request can be: on its way, answered
or taken in by the client, in one of these places at most, and in all three somebody waits
for it or it is counted as lost; nobody waits for a request twice, whatever nests.

**Replay.** The server's part is a recursive function over the batch. What it computes is
shown without induction over an operator: were there an event after which the records
are not sound, there would be a least one (`Least`), and `ApplySound` excludes it; the
existence of the function is proved in the same way (`StepsExist`). `AppliedOnce` is a part
of the soundness of records (`RecordsSound`) and holds without any condition. At a gate
the invariant relates four places an event may be in: the file, the batches on the way,
the verdicts, and what two overlapping replays wait for. `Prefix` says of a replay whose
answer can still take lines off that its batch is the head of the file, and judged once
it is answered; `Overlap` what the second replay may have submitted while the first
waits; `InOrder` that of the events before one on the way all are judged or with it. An acknowledgement takes
off a number of lines, not lines: that these are the ones that were judged is where
`ShortWhenTwoWait` is needed: while both replays of a gate wait, fewer than two full batches
are on file. The code does not see to that, and without it lines that were never judged are
taken off (section 5). A single replay needs no condition, however long the file is. A step of one gate leaves the others alone, so all of it is stated of one gate.

**Scheduler.** Of the stack of nested calls two facts are enough: who is in it, and that
`startNext` is there at most once. `WorkConserving` holds between events only; the
invariant says that while it does not hold, somebody in the stack will look for the next
job. The lemmas at the head of the module say what pushing, popping, appending and
removing do to the set of members.

**Session.** The client is one record and most actions replace it as a whole: `Sound(m)`
is stated of a record and proved of the operators the actions are made of. That answers
are true rests on a request being in one place at most, on its way there, computed at the
server or on its way back, in one frame of one link (`Once`), although links are used
again; an answer on its way says what became of the request, and a request that is
nowhere and not applied was not touched.

**Answered once.** The safety part of `AnswerOnce` is implemented by scheduler and session
step by step: every action of theirs is one of its actions or a stutter under the
mapping. What `AnswerOnce` promises in its own terms (`AtMostOnce`) is then proved of both.

**Payment orders.** What an order has to satisfy is stated of one order: `OrderSound`
(memory, row, and what it has paid for) and `Priced` (it asks no more than `calculateFee`
would by now). Most actions close a set of pending orders, some of whose rows are not
written; one lemma treats them all (`ClosingInv`). `Priced` needs that the fee does not
fall while the car stays, for every tariff (`FeeGrows`). `NeverOvercharged` compares with
`Cost`, the rule of `Billing.h` counted unit by unit, and `FeeByUnitsBegun` says that
`calculateFee` is just that: the units begun are an initial segment of the naturals, whose
length is the quotient the code rounds up.

**Accounts.** Counter and lock tell what happened to whoever no failed statement
concerned (`Passwords`); a token belongs to a login that was issued, of whose tokens one
at most is valid (`Tokens`); a row carries the hash of the row before it as that row was
when it was written, and rows do not change (`Chain`).

**Only model-checked:**

* Every liveness property (`LaneServes`, `Drained`, `EverybodyAnswered`, `CatchesUp`,
  `Reconnects`, `OrdersSettle`), with the liveness part of the refinements of `AnswerOnce`
  (`AnswersOnce`): fairness and ENABLED are out of the provers' reach. All safety
  properties the passing runs check are theorems, `NothingDropped` and `JudgedInOrder`
  under the condition stated.

## 5. Disagreements

Where the code does not do what its documents, comments or other parts lead one to
expect. The first two have a run that shows them.

* *A start that is refused* (run `restartable`, `ReservationService.cpp:564`). A plate
  cancels, books again and gets the same spot; the next start takes the cancelled row for
  the holder of the spot and throws.
* *An order that outlives its visit* (run `dangling_order`, `SmartParkTcpServer.cpp:447`).
  An exit through the TCP server leaves the unpaid order pending, against
  `docs/rest-api.md:147`; in the next visit it can be paid at the old amount.

The others came up while modelling; the properties are stated so that they except just
these.

Reservations and entries

* A reservation whose row cannot be written has been charged at the gateway already,
  without a row in the ledger (`ReservationService.cpp:170`).
* A reservation whose lock could not be written is confirmed all the same, and another
  car may take its spot (`:189`).
* The car of a reservation that enters by `emergencyEnter`
  (`ParkingService.cpp:337`), or after a check-in that could not be written (`:320` of
  `ReservationService.cpp`), is on its spot, and its deposit is forfeited as a no-show.
* A late reservation is settled by the next call that sweeps; no timer does (`:335`).
* A car whose reserved spot is taken is searched for on that spot only. If its reservation
  is cancelled during the search, no spot changes, `sameSpots` sees nothing, and the car
  is refused although another spot is free (`BackgroundEntryPlanner.cpp:106`).

Bookings (called by tests only, but read by every start)

* A checked-in booking is never closed: once its car has left, the next start is refused
  (`ParkingService.cpp:992`).
* The next start is refused as well after an expiry, cancellation or creation that failed
  or stopped between the write of the spot and that of the booking, and when a vehicle
  takes an untimed hold on the spot of its ended booking.
* A vehicle that enters with `enter` on a booked spot has its booking marked a no-show
  while it is parked.

Gate terminal

* Two replays at once (the timer fires inside the wait of the first,
  `apps/gate/main.cpp:146`) drop events the server never judged if the file has two full
  batches: 1000 events with batches of 500. `docs/tcp-protocol.md:92-95` says that only events
  with a verdict are taken off and the others are sent again.
* A line that was half written is joined to the next one, which can then not be read, and
  what is behind an unreadable line is not sent (`OfflineQueue.cpp:26`).
* The entrance gives up after 2.5 s while the server may still commit the entry: the car
  is recorded as inside and stands outside.

Clients

* A link that dies silently while the client is connecting or logging in leaves it
  waiting for ever: only an on-line session has heartbeats (`Deaf`,
  `ServerSession.cpp:117`). On line, heartbeats that are merely late abort a link that
  works (`LateBeats`).
* `start` over a connection that is alive or was refused stays `Connecting` until the
  idle limit of the server closes the old connection.
* A request made from the callback that `stop` runs for a failed one is not answered.
* `RemoteDataSource` waits for some requests in a nested loop with a time-out and leaves
  the callback with references to what is gone.
* A session of TCP or WebSocket outlives the token it was opened with.

Accounts and audit log

* `lastError_` of `UserStore` is never cleared: after one failed statement every
  registration is refused until a restart (`UserStore.cpp:378`).
* A refresh whose revocation cannot be written answers with the new token all the same: the
  result of `revokeToken` is ignored (`RestGateway.cpp:740`), both tokens stay valid, and
  nobody is told. `OneTokenPerLogin` excepts these logins (`astray`).
* Seeding that was interrupted is not resumed: built-in accounts are missing.
* An audit row whose hash could not be written breaks the chain at that row for ever,
  although later rows are chained to it.

## 6. What is not modelled

* **Allocation and routing** (`SpotAllocator`, `GridPlanner`): floating-point costs over
  a grid. The core lets the allocator choose any admissible spot, which covers every
  strategy and weight.
* **Persistence**: schema migration, layout snapshot and the conversion of rows; SQLite
  itself is taken to be atomic and durable. Amounts, vehicle types and routes.
* **TCP and REST actions that only read** (status, lists, reports, routes, QR codes),
  plate bindings and the rate limit; the framing of messages.
* **What a recognition answers**: all the scheduler's model knows of `recognize_plate.py` and
  its networks is that a script ends at any time (`ScriptEnds`).
* **Analytics, insight, the demonstration and the remote analyst**: statistics over
  snapshots, a script of calls of the core, an HTTP client.
* **Programs and user interfaces** (server, desktop, macOS, web): wiring and display.

What could come next: the safety of `GateReplay` with an acknowledgement of the lines
themselves instead of their number, which the code does not have and which would need no
condition; the exit lane of the gateway composed with `ParkingCore`.
