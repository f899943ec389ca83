---------------------------- MODULE ParkingCore ----------------------------
(***************************************************************************)
(* The transactional core of SmartPark: the parking spots, the time-slot   *)
(* reservations and the parking records that ParkingService and            *)
(* ReservationService keep in memory, the SQLite database that             *)
(* ParkingRepository writes them to, and the payment gateway that takes,   *)
(* refunds and forfeits the deposits.                                      *)
(*                                                                         *)
(* One action is one call of the service.  Calls run one after the other   *)
(* on the Qt main thread, so a call is atomic for other calls; what makes  *)
(* it hard is that a call performs several writes, each of which may fail  *)
(* on its own, that memory and database must agree after every outcome,    *)
(* and that the process may stop between two calls.                        *)
(*                                                                         *)
(* Abstracted: money (a deposit is there or not), fees, the choice the     *)
(* allocator makes among admissible spots (any of them), vehicle types,    *)
(* routes, the audit log, the memory copy of the deposit ledger.  Left to  *)
(* other modules: the untimed spot hold (reserve) and the Booking          *)
(* subsystem, which no production caller uses.                             *)
(***************************************************************************)
EXTENDS Naturals, FiniteSets

CONSTANTS
    Plates,           \* number plates of the vehicles
    Spots,            \* the physical spots of the layout
    AccessibleSpots,  \* the spots of type Accessible
    None,             \* no vehicle, no spot
    MinLead,          \* rule.minLeadTime
    MaxAdvance,       \* rule.maxAdvanceDays
    Grace,            \* rule.gracePeriod
    Starts,           \* the start times the callers ask for
    Outages,          \* the sets of writes that may fail together in one call
    MaxReservations,  \* bound of the model: reservation ids ever drawn
    MaxTime,          \* bound of the model: the clock stops here
    MaxFaults         \* bound of the model: calls with a failing write, and crashes

ResvIds == 1 .. MaxReservations

(***************************************************************************)
(* A write is named by the operation that makes it and the row it is for.  *)
(***************************************************************************)
Writes == ({"expire"} \X Spots)
     \cup ({"unlock", "settle", "relock", "charge", "order", "lock", "cancelUnlock",
            "cancel", "checkinLock", "checkin", "repair"} \X ResvIds)
     \cup ({"entry", "exit"} \X Plates)

ASSUME NoneAssumption == None \notin Plates \cup Spots
ASSUME SpotAssumption == AccessibleSpots \subseteq Spots
ASSUME RuleAssumption == MinLead \in Nat /\ MaxAdvance \in Nat /\ Grace \in Nat
ASSUME StartAssumption == Starts \subseteq Nat
ASSUME BoundAssumption == MaxReservations \in Nat /\ MaxTime \in Nat /\ MaxFaults \in Nat
ASSUME OutageAssumption == Outages \subseteq SUBSET Writes /\ {} \in Outages

VARIABLES
    now,     \* the clock every call is given
    up,      \* the process runs and its constructor succeeded
    world,   \* memory, database and gateway, see WorldType
    faults   \* failing calls and crashes so far

vars == <<now, up, world, faults>>

-----------------------------------------------------------------------------
(***************************************************************************)
(* Rows.                                                                   *)
(***************************************************************************)
\* Mutant of Held: the lock outlives the grace period.
HeldTooLong(p, t) == [st |-> "Reserved", by |-> p, until |-> t + 1]

Free         == [st |-> "Available", by |-> None, until |-> 0]
Held(p, t)   == [st |-> "Reserved",  by |-> p,    until |-> t]
Parked(p)    == [st |-> "Occupied",  by |-> p,    until |-> 0]

SpotType == {Free} \cup [st : {"Reserved"}, by : Plates, until : Nat]
                   \cup [st : {"Occupied"}, by : Plates, until : {0}]

Absent == [st |-> "Absent", plate |-> None, spot |-> None,
           start |-> 0, deadline |-> 0, charged |-> FALSE]

ResvType == [st : {"Absent", "Confirmed", "CheckedIn", "Completed", "Cancelled", "NoShow"},
             plate : Plates \cup {None}, spot : Spots \cup {None},
             start : Nat, deadline : Nat, charged : BOOLEAN]

PaymentKinds == {"charge", "refund", "forfeit", "apply"}
NoPayments   == [r \in ResvIds |-> [k \in PaymentKinds |-> 0]]

(***************************************************************************)
(* active[p] is the spot of p's record without an exit time: there is at   *)
(* most one, in memory because every entry looks for one first, in the     *)
(* database because of a partial unique index.  ledger counts the rows of  *)
(* deposit_payments, gateway the operations asked of the payment gateway.  *)
(***************************************************************************)
WorldType ==
    [spots    : [Spots -> SpotType],   resv   : [ResvIds -> ResvType],
     active   : [Plates -> Spots \cup {None}],
     dbSpots  : [Spots -> SpotType],   dbResv : [ResvIds -> ResvType],
     dbActive : [Plates -> Spots \cup {None}],
     ledger   : [ResvIds -> [PaymentKinds -> Nat]],
     gateway  : [ResvIds -> [PaymentKinds -> Nat]],
     nextId   : Nat]

NoMemory(w) == [w EXCEPT !.spots  = [s \in Spots |-> Free],
                         !.resv   = [r \in ResvIds |-> Absent],
                         !.active = [p \in Plates |-> None]]

Open(r) == r.st \in {"Confirmed", "CheckedIn"}
HeldBy(spot, p) == spot.st = "Reserved" /\ spot.by = p

\* Mutant of Charged: the deposit an accessible reservation never paid counts.
ChargedAll(w, R) == R

FreeAt(f, S)        == [s \in Spots |-> IF s \in S THEN Free ELSE f[s]]
Marked(f, R, st)    == [r \in ResvIds |-> IF r \in R THEN [f[r] EXCEPT !.st = st] ELSE f[r]]
Booked(l, R, kind)  == [r \in ResvIds |->
                          IF r \in R THEN [l[r] EXCEPT ![kind] = @ + 1] ELSE l[r]]
Charged(w, R)       == {r \in R : w.resv[r].charged}

-----------------------------------------------------------------------------
(***************************************************************************)
(* The parts the calls are made of.  Each maps a world to a world; t is    *)
(* the time of the call and F the writes that fail in it.                  *)
(***************************************************************************)

\* Mutant of Lapsed: the Confirmed reservation behind a hold is not looked for.
LapsedAny(w, t, F) ==
    {s \in Spots : /\ w.spots[s].st = "Reserved"
                   /\ w.spots[s].until <= t
                   /\ <<"expire", s>> \notin F}

\* ParkingService::expireReservations: holds that lapsed and back no Confirmed
\* reservation.  A failed write puts the hold back.
Lapsed(w, t, F) ==
    {s \in Spots : /\ w.spots[s].st = "Reserved"
                   /\ w.spots[s].until <= t
                   /\ \A r \in ResvIds :
                        w.resv[r].st = "Confirmed" => w.resv[r].spot # s
                   /\ <<"expire", s>> \notin F}

Expire(w, t, F) == [w EXCEPT !.spots   = FreeAt(@, Lapsed(w, t, F)),
                             !.dbSpots = FreeAt(@, Lapsed(w, t, F))]

\* The first loop of sweep: every late reservation gives its lock back, is
\* forfeited at the gateway and becomes NoShow.  A failed unlock keeps the lock
\* and is ignored; a failed settlement keeps the reservation Confirmed.
Late(w, t) == {r \in ResvIds : w.resv[r].st = "Confirmed" /\ t > w.resv[r].deadline}

Unlocked(w, t, F) == {s \in Spots : \E r \in Late(w, t) :
                        /\ w.resv[r].spot = s
                        /\ HeldBy(w.spots[s], w.resv[r].plate)
                        /\ <<"unlock", r>> \notin F}

Settled(w, t, F) == {r \in Late(w, t) : <<"settle", r>> \notin F}

\* Mutant of SettleNoShows: memory keeps NoShow when the database refused it.
SettleNoShowsNoRollback(w, t, F) ==
    [w EXCEPT !.spots   = FreeAt(@, Unlocked(w, t, F)),
              !.dbSpots = FreeAt(@, Unlocked(w, t, F)),
              !.resv    = Marked(@, Late(w, t), "NoShow"),
              !.dbResv  = Marked(@, Settled(w, t, F), "NoShow"),
              !.ledger  = Booked(@, Charged(w, Settled(w, t, F)), "forfeit"),
              !.gateway = Booked(@, Charged(w, Late(w, t)), "forfeit")]

SettleNoShows(w, t, F) ==
    [w EXCEPT !.spots   = FreeAt(@, Unlocked(w, t, F)),
              !.dbSpots = FreeAt(@, Unlocked(w, t, F)),
              !.resv    = Marked(@, Settled(w, t, F), "NoShow"),
              !.dbResv  = Marked(@, Settled(w, t, F), "NoShow"),
              !.ledger  = Booked(@, Charged(w, Settled(w, t, F)), "forfeit"),
              !.gateway = Booked(@, Charged(w, Late(w, t)), "forfeit")]

\* Mutant of Takers: any reservation of the spot takes its lock, resolved ones too.
TakersResolved(w, t, s, F) == {r \in ResvIds : /\ w.resv[r].st # "Absent"
                                               /\ w.resv[r].spot = s
                                               /\ t <= w.resv[r].deadline
                                               /\ <<"relock", r>> \notin F}

\* The second loop of sweep: a Confirmed reservation whose spot is Available
\* gets its lock (again).
Takers(w, t, s, F) == {r \in ResvIds : /\ w.resv[r].st = "Confirmed"
                                       /\ w.resv[r].spot = s
                                       /\ t <= w.resv[r].deadline
                                       /\ <<"relock", r>> \notin F}

Relocked(f, w, t, F) ==
    [s \in Spots |->
        IF w.spots[s].st = "Available" /\ Takers(w, t, s, F) # {}
        THEN LET r == CHOOSE r \in Takers(w, t, s, F) : TRUE
             IN  Held(w.resv[r].plate, w.resv[r].deadline)
        ELSE f[s]]

Relock(w, t, F) == [w EXCEPT !.spots   = Relocked(@, w, t, F),
                             !.dbSpots = Relocked(@, w, t, F)]

Sweep(w, t, F) == Relock(SettleNoShows(w, t, F), t, F)

\* Mutant of OccupyAndRecord: the spot stays Occupied when the entry is not written.
OccupyWithoutUndo(w, p, s, F) ==
    IF <<"entry", p>> \in F \/ w.dbActive[p] # None
    THEN [w EXCEPT !.spots[s] = Parked(p)]
    ELSE [w EXCEPT !.spots[s] = Parked(p),   !.active[p] = s,
                   !.dbSpots[s] = Parked(p), !.dbActive[p] = s]

\* ParkingService::enterImpl and emergencyEnter, from occupy on.  When the entry
\* cannot be written, the spot is released in memory whatever it was before.
OccupyAndRecord(w, p, s, F) ==
    IF <<"entry", p>> \in F \/ w.dbActive[p] # None
    THEN [w EXCEPT !.spots[s] = Free]
    ELSE [w EXCEPT !.spots[s] = Parked(p),   !.active[p] = s,
                   !.dbSpots[s] = Parked(p), !.dbActive[p] = s]

\* Mutant of Due: the deadline is left to the sweep.
DueLate(w, t, p) == {r \in ResvIds : w.resv[r].st = "Confirmed" /\ w.resv[r].plate = p}

\* The reservation checkInImpl serves: Confirmed, of this plate, not late.
Due(w, t, p) == {r \in ResvIds : /\ w.resv[r].st = "Confirmed"
                                 /\ w.resv[r].plate = p
                                 /\ t <= w.resv[r].deadline}

\* The fallback lock of checkInImpl, when the sweep could not lock the spot.
CheckInLock(w, r, F) ==
    LET s == w.resv[r].spot
        held == Held(w.resv[r].plate, w.resv[r].deadline)
    IN  IF w.spots[s].st = "Available" /\ <<"checkinLock", r>> \notin F
        THEN [w EXCEPT !.spots[s] = held, !.dbSpots[s] = held]
        ELSE w

\* The rest of checkInImpl: the spot must be locked for the plate; record,
\* reservation and spot are written in one transaction, undone when it fails.
CheckInSpot(w, r, F) ==
    LET s == w.resv[r].spot
        p == w.resv[r].plate
    IN  IF ~HeldBy(w.spots[s], p) THEN [ok |-> FALSE, w |-> w]
        ELSE IF <<"checkin", r>> \in F \/ w.dbActive[p] # None
        THEN [ok |-> FALSE,
              w  |-> [w EXCEPT !.spots[s] = Held(p, w.resv[r].deadline)]]
        ELSE [ok |-> TRUE,
              w  |-> [w EXCEPT !.spots[s] = Parked(p),   !.active[p] = s,
                               !.dbSpots[s] = Parked(p), !.dbActive[p] = s,
                               !.resv   = Marked(@, {r}, "CheckedIn"),
                               !.dbResv = Marked(@, {r}, "CheckedIn")]]

CheckInImpl(w0, t, p, F) ==
    LET w == Sweep(w0, t, F)
        due == Due(w, t, p)
        r == CHOOSE r \in due : TRUE
    IN  IF due = {} THEN [ok |-> FALSE, w |-> w]
        ELSE CheckInSpot(CheckInLock(w, r, F), r, F)

\* prepareExitSettlement: the reservation the departing vehicle came on.
ServedBy(w, p) == {r \in ResvIds : w.resv[r].st = "CheckedIn" /\ w.resv[r].plate = p}

\* applyExitSettlement, before the transaction; rollbackExitSettlement takes it back when
\* that fails, so that the failure leaves no trace.
Completed(resv, settled) == Marked(resv, settled, "Completed")

\* ParkingService::leave and closeActiveRecord: the record, the spot and the
\* checked-in reservation with its apply receipt are one transaction.
LeaveImpl(w0, t, p, F) ==
    LET w == Expire(w0, t, F)
        s == w.active[p]
        settled == ServedBy(w, p)
    IN  IF s = None \/ <<"exit", p>> \in F THEN [ok |-> FALSE, w |-> w]
        ELSE IF w.spots[s].st # "Occupied" THEN [ok |-> FALSE, w |-> w]
        ELSE [ok |-> TRUE,
              w  |-> [w EXCEPT !.spots[s] = Free,   !.active[p] = None,
                               !.dbSpots[s] = Free, !.dbActive[p] = None,
                               !.resv   = Completed(@, settled),
                               !.dbResv = Completed(@, settled),
                               !.ledger = Booked(@, settled, "apply")]]

-----------------------------------------------------------------------------
(***************************************************************************)
(* The calls.  Outcome sets hold every world a call may end in.            *)
(***************************************************************************)

\* The checks of create, after its sweep.
Bookable(w, t, p, start) ==
    /\ start >= t + MinLead
    /\ start <= t + MaxAdvance
    /\ w.active[p] = None
    /\ \A r \in ResvIds : Open(w.resv[r]) => w.resv[r].plate # p

\* Mutant of Candidates: reservations whose lock is missing are not looked at.
CandidatesByStatus(w, acc) ==
    {s \in Spots : (acc => s \in AccessibleSpots) /\ w.spots[s].st = "Available"}

\* The spots create offers to the allocator.
Candidates(w, acc) ==
    {s \in Spots : /\ acc => s \in AccessibleSpots
                   /\ w.spots[s].st = "Available"
                   /\ \A r \in ResvIds : Open(w.resv[r]) => w.resv[r].spot # s}

\* create, once a spot is chosen: draw an id, charge the deposit, write the order
\* with the receipt, then lock the spot.  An order that cannot be written leaves
\* the charge behind; a lock that cannot be written is left to a later sweep.
Place(w, p, s, acc, start, F) ==
    LET id == w.nextId
        order == [st |-> "Confirmed", plate |-> p, spot |-> s, start |-> start,
                  deadline |-> start + (IF acc THEN 2 * Grace ELSE Grace),
                  charged |-> ~acc]
        paid == IF acc THEN {} ELSE {id}
        drawn == [w EXCEPT !.nextId = @ + 1]
        charged == [drawn EXCEPT !.gateway = Booked(@, paid, "charge")]
        placed == [charged EXCEPT !.resv[id] = order, !.dbResv[id] = order,
                                  !.ledger = Booked(@, paid, "charge")]
        held == Held(p, order.deadline)
        duplicate == \E r \in ResvIds : Open(w.dbResv[r]) /\ w.dbResv[r].plate = p
    IN  IF ~acc /\ <<"charge", id>> \in F THEN drawn
        ELSE IF <<"order", id>> \in F \/ duplicate THEN charged
        ELSE IF <<"lock", id>> \in F THEN placed
        ELSE [placed EXCEPT !.spots[s] = held, !.dbSpots[s] = held]

CreateOutcomes(w0, t, p, acc, start, F) ==
    LET w == Sweep(w0, t, F)
    IN  IF Bookable(w, t, p, start) /\ Candidates(w, acc) # {}
        THEN {Place(w, p, s, acc, start, F) :
                s \in {c \in Candidates(w, acc) : w.nextId \in ResvIds}}
        ELSE {w}

\* cancel: only a Confirmed reservation that has not started.  The lock is given
\* back first, then the deposit is refunded, then status and receipt are written.
CancelImpl(w0, t, p, F) ==
    LET w == Sweep(w0, t, F)
        mine == {r \in ResvIds : /\ w.resv[r].st = "Confirmed" /\ w.resv[r].plate = p
                                 /\ t < w.resv[r].start}
        r == CHOOSE r \in mine : TRUE
        s == w.resv[r].spot
        holds == HeldBy(w.spots[s], p)
        unlocked == IF holds THEN [w EXCEPT !.spots[s] = Free, !.dbSpots[s] = Free] ELSE w
        refunded == [unlocked EXCEPT !.gateway = Booked(@, Charged(w, {r}), "refund")]
    IN  IF mine = {} THEN w
        ELSE IF holds /\ <<"cancelUnlock", r>> \in F THEN w
        ELSE IF <<"cancel", r>> \in F THEN refunded
        ELSE [refunded EXCEPT !.resv   = Marked(@, {r}, "Cancelled"),
                              !.dbResv = Marked(@, {r}, "Cancelled"),
                              !.ledger = Booked(@, Charged(w, {r}), "refund")]

\* enterImpl: a due reservation is checked in; failing that, an ordinary entry on
\* the spot held for the plate or, when there is none, on an available one.
EnterOutcomes(w0, t, p, F) ==
    LET arrival == CheckInImpl(Expire(w0, t, F), t, p, F)
        w == arrival.w
        own == {s \in Spots : HeldBy(w.spots[s], p)}
        offered == IF own # {} THEN own ELSE {s \in Spots : w.spots[s].st = "Available"}
    IN  IF arrival.ok \/ w.active[p] # None \/ offered = {} THEN {w}
        ELSE {OccupyAndRecord(w, p, s, F) : s \in offered}

\* emergencyEnter: no sweep and no check-in; when the lot is full a parked car may
\* be settled and moved out first.
EmergencyOutcomes(w0, t, p, evict, F) ==
    LET w == Expire(w0, t, F)
        offered == {s \in Spots : w.spots[s].st = "Available" \/ HeldBy(w.spots[s], p)}
        occupied == {s \in Spots : w.spots[s].st = "Occupied"}
        evicted(s) == LeaveImpl(w, t, w.spots[s].by, F)
    IN  IF w.active[p] # None THEN {w}
        ELSE IF offered # {} THEN {OccupyAndRecord(w, p, s, F) : s \in offered}
        ELSE IF ~evict \/ occupied = {} THEN {w}
        ELSE {IF evicted(s).ok THEN OccupyAndRecord(evicted(s).w, p, s, F)
              ELSE evicted(s).w : s \in occupied}

-----------------------------------------------------------------------------
(***************************************************************************)
(* Start-up.                                                               *)
(***************************************************************************)

\* The checks of ParkingService::restore on spots and records.
SpotsMatchRecords(spots, active) ==
    /\ \A s \in Spots : spots[s].st = "Occupied" =>
         spots[s].by \in Plates /\ active[spots[s].by] = s
    /\ \A p \in Plates : active[p] # None => spots[active[p]] = Parked(p)

\* The checks of ReservationService::restore that speak of open reservations.
OpenReservationsSound(resv, active) ==
    /\ \A q, r \in ResvIds :
         Open(resv[q]) /\ Open(resv[r]) /\ resv[q].plate = resv[r].plate => q = r
    /\ \A r \in ResvIds : resv[r].st = "CheckedIn" => active[resv[r].plate] = resv[r].spot

\* Its remaining check: a resolved reservation must not hold its spot.
NoResolvedHolds(spots, resv) ==
    \A r \in ResvIds : resv[r].st \in {"Completed", "Cancelled", "NoShow"} =>
        ~HeldBy(spots[resv[r].spot], resv[r].plate)

RestoreAccepts(w) ==
    /\ SpotsMatchRecords(w.dbSpots, w.dbActive)
    /\ OpenReservationsSound(w.dbResv, w.dbActive)
    /\ NoResolvedHolds(w.dbSpots, w.dbResv)

Loaded(w) == [w EXCEPT !.spots = w.dbSpots, !.resv = w.dbResv, !.active = w.dbActive]

\* reconcileConflictingReservations: of the Confirmed reservations on a spot the
\* one of the plate that holds or occupies it is kept, on an available spot the
\* one that starts first (the older one when two do); the others are cancelled.
Kept(w, s) ==
    LET claims == {r \in ResvIds : w.resv[r].st = "Confirmed" /\ w.resv[r].spot = s}
        earlier(q, r) == \/ w.resv[q].start < w.resv[r].start
                         \/ w.resv[q].start = w.resv[r].start /\ q < r
    IN  IF w.spots[s].st = "Available"
        THEN {r \in claims : \A q \in claims \ {r} : earlier(r, q)}
        ELSE {r \in claims : w.resv[r].plate = w.spots[s].by}

Conflicting(w) == {r \in ResvIds : w.resv[r].st = "Confirmed"
                                   /\ r \notin Kept(w, w.resv[r].spot)}

\* repairConflictingReservation for the reservations in R; those in asked were
\* refunded at the gateway, which comes first.
Repair(w, R, asked) ==
    [w EXCEPT !.resv    = Marked(@, R, "Cancelled"),
              !.dbResv  = Marked(@, R, "Cancelled"),
              !.ledger  = Booked(@, Charged(w, R), "refund"),
              !.gateway = Booked(@, Charged(w, asked), "refund")]

-----------------------------------------------------------------------------
(***************************************************************************)
(* The next-state relation.                                                *)
(***************************************************************************)

\* Every call takes effect under some set of failing writes, of those it makes.
Failing(calls) == {{x \in F : x[1] \in calls} : F \in Outages}
SweepWrites == {"unlock", "settle", "relock"}

Fault(F) == /\ F # {} => faults < MaxFaults
            /\ faults' = IF F = {} THEN faults ELSE faults + 1

Become(w) == /\ world' = w
             /\ UNCHANGED <<now, up>>

Init ==
    /\ now = 0
    /\ up = TRUE
    /\ faults = 0
    /\ world = [spots    |-> [s \in Spots |-> Free],
                resv     |-> [r \in ResvIds |-> Absent],
                active   |-> [p \in Plates |-> None],
                dbSpots  |-> [s \in Spots |-> Free],
                dbResv   |-> [r \in ResvIds |-> Absent],
                dbActive |-> [p \in Plates |-> None],
                ledger   |-> NoPayments,
                gateway  |-> NoPayments,
                nextId   |-> 1]

Tick == /\ now < MaxTime
        /\ now' = now + 1
        /\ UNCHANGED <<up, world, faults>>

Create(p, acc, start) ==
    /\ up
    /\ \E F \in Failing(SweepWrites \cup {"charge", "order", "lock"}) : Fault(F)
         /\ \E w \in CreateOutcomes(world, now, p, acc, start, F) : Become(w)

Cancel(p) ==
    /\ up
    /\ \E F \in Failing(SweepWrites \cup {"cancelUnlock", "cancel"}) : Fault(F) /\ Become(CancelImpl(world, now, p, F))

CheckIn(p) ==
    /\ up
    /\ \E F \in Failing(SweepWrites \cup {"checkinLock", "checkin"}) : Fault(F) /\ Become(CheckInImpl(world, now, p, F).w)

Enter(p) ==
    /\ up
    /\ \E F \in Failing(SweepWrites \cup {"expire", "checkinLock", "checkin", "entry"}) : Fault(F)
         /\ \E w \in EnterOutcomes(world, now, p, F) : Become(w)

Leave(p) ==
    /\ up
    /\ \E F \in Failing({"expire", "exit"}) : Fault(F) /\ Become(LeaveImpl(world, now, p, F).w)

EmergencyEnter(p, evict) ==
    /\ up
    /\ \E F \in Failing({"expire", "exit", "entry"}) : Fault(F)
         /\ \E w \in EmergencyOutcomes(world, now, p, evict, F) : Become(w)

\* What the background planner of entries asks for before it looks at the spots.
Housekeep ==
    /\ up
    /\ \E F \in Failing(SweepWrites \cup {"expire"}) : Fault(F) /\ Become(Sweep(Expire(world, now, F), now, F))

\* The process stops, in order or not: what was in memory is gone.
Crash ==
    /\ up
    /\ faults < MaxFaults
    /\ up' = FALSE
    /\ faults' = faults + 1
    /\ world' = NoMemory(world)
    /\ UNCHANGED now

\* The constructor loads the database, finds it sound and repairs conflicts.
Restart ==
    /\ ~up
    /\ RestoreAccepts(world)
    /\ LET w == Loaded(world) IN world' = Repair(w, Conflicting(w), Conflicting(w))
    /\ up' = TRUE
    /\ UNCHANGED <<now, faults>>

\* A repair cannot be written: the constructor throws.  The conflicts repaired
\* before it stay repaired.
RestartFails ==
    /\ ~up
    /\ RestoreAccepts(world)
    /\ \E F \in Failing({"repair"}), r \in Conflicting(Loaded(world)) :
         /\ <<"repair", r>> \in F
         /\ Fault(F)
         /\ \E R \in SUBSET {q \in Conflicting(Loaded(world)) : <<"repair", q>> \notin F} :
              world' = NoMemory(Repair(Loaded(world), R, R \cup {r}))
    /\ UNCHANGED <<now, up>>

\* What callers and the clock do.
Calls ==
    \/ Tick
    \/ \E p \in Plates : \E acc \in BOOLEAN, start \in Starts : Create(p, acc, start)
    \/ \E p \in Plates : Cancel(p)
    \/ \E p \in Plates : CheckIn(p)
    \/ \E p \in Plates : Enter(p)
    \/ \E p \in Plates : Leave(p)
    \/ \E p \in Plates : \E evict \in BOOLEAN : EmergencyEnter(p, evict)

Next ==
    \/ Calls
    \/ Housekeep
    \/ Crash
    \/ Restart
    \/ RestartFails

Spec == Init /\ [][Next]_vars

-----------------------------------------------------------------------------
(***************************************************************************)
(* Soundness of a world, part by part.  The properties below and the       *)
(* inductive invariant of the proofs are made of these parts.              *)
(***************************************************************************)

\* Ids are drawn in order; a reservation that exists has a plate and a spot.
RowsSound(w) ==
    /\ w.nextId \in 1 .. MaxReservations + 1
    /\ \A r \in ResvIds : w.dbResv[r].st # "Absent" =>
         r < w.nextId /\ w.dbResv[r].plate \in Plates /\ w.dbResv[r].spot \in Spots

\* A plate has at most one open reservation and a spot backs at most one.
OneOpen(resv) ==
    \A q, r \in ResvIds :
        Open(resv[q]) /\ Open(resv[r]) /\ q # r =>
            resv[q].plate # resv[r].plate /\ resv[q].spot # resv[r].spot

\* The vehicle of a checked-in reservation is parked on its spot.
CheckedInSound(w) ==
    \A r \in ResvIds : w.dbResv[r].st = "CheckedIn" =>
        w.dbActive[w.dbResv[r].plate] = w.dbResv[r].spot

\* Every hold in the database was written for a reservation that still exists.
HoldsExplained(w) ==
    \A s \in Spots : w.dbSpots[s].st = "Reserved" =>
        \E r \in ResvIds : /\ w.dbResv[r].st # "Absent"
                           /\ w.dbResv[r].spot = s
                           /\ w.dbResv[r].plate = w.dbSpots[s].by
                           /\ w.dbResv[r].deadline = w.dbSpots[s].until

Once(b) == IF b THEN 1 ELSE 0

\* The receipts of a reservation are those its status calls for, each once.
LedgerSound(w) ==
    \A r \in ResvIds :
        /\ w.ledger[r]["charge"]  = Once(w.dbResv[r].st # "Absent"    /\ w.dbResv[r].charged)
        /\ w.ledger[r]["refund"]  = Once(w.dbResv[r].st = "Cancelled" /\ w.dbResv[r].charged)
        /\ w.ledger[r]["forfeit"] = Once(w.dbResv[r].st = "NoShow"    /\ w.dbResv[r].charged)
        /\ w.ledger[r]["apply"]   = Once(w.dbResv[r].st = "Completed")

DbSound(w) ==
    /\ RowsSound(w)
    /\ OneOpen(w.dbResv)
    /\ SpotsMatchRecords(w.dbSpots, w.dbActive)
    /\ CheckedInSound(w)
    /\ HoldsExplained(w)
    /\ LedgerSound(w)

\* Memory and database agree, but for holds that memory has given up.
Mirrored(w) ==
    /\ w.resv = w.dbResv
    /\ w.active = w.dbActive
    /\ \A s \in Spots : \/ w.spots[s] = w.dbSpots[s]
                        \/ w.spots[s] = Free /\ w.dbSpots[s].st = "Reserved"

\* A hold on the spot of a Confirmed reservation is that reservation's.
LocksSound(w) ==
    \A r \in ResvIds :
        w.resv[r].st = "Confirmed" /\ w.spots[w.resv[r].spot].st = "Reserved" =>
            w.spots[w.resv[r].spot] = Held(w.resv[r].plate, w.resv[r].deadline)

\* A hold backs a Confirmed reservation or has lapsed.
HoldsBacked(w, t) ==
    \A s \in Spots : w.spots[s].st = "Reserved" =>
        \/ w.spots[s].until < t
        \/ \E r \in ResvIds : /\ w.resv[r].st = "Confirmed"
                              /\ w.resv[r].spot = s
                              /\ w.resv[r].plate = w.spots[s].by
                              /\ w.resv[r].deadline = w.spots[s].until

MemorySound(w, t) ==
    /\ Mirrored(w)
    /\ LocksSound(w)
    /\ HoldsBacked(w, t)

-----------------------------------------------------------------------------
(***************************************************************************)
(* Properties.                                                             *)
(***************************************************************************)

\* Every variable stays in its type.
TypeOK ==
    /\ now \in 0 .. MaxTime
    /\ up \in BOOLEAN
    /\ faults \in 0 .. MaxFaults
    /\ world \in WorldType

\* One valid reservation per spot and one open reservation per plate, in memory
\* and in the database, whatever fails in create (ReservationService.h:19-22; the
\* unique index idx_reservations_open_plate).
OneOpenReservation == OneOpen(world.resv) /\ OneOpen(world.dbResv)

\* A spot is Occupied by a vehicle exactly when the vehicle has an open record on
\* it, in memory and in the database: no car is parked without a record, on two
\* spots, or billed for a spot it is not on, after any mix of entries, check-ins,
\* evictions, failed writes and restarts.
OccupancyMatchesRecords ==
    /\ SpotsMatchRecords(world.spots, world.active)
    /\ SpotsMatchRecords(world.dbSpots, world.dbActive)

\* While the service runs, memory and database agree after every call whatever
\* writes failed in it.  The one difference the code leaves: an entry that could
\* not be written frees in memory a spot the database still has as Reserved.
MemoryMatchesDatabase == up => Mirrored(world)

\* Every deposit is charged once and settled at most once, in the way the
\* reservation ended: refunded when cancelled, forfeited on a no-show, applied to
\* the fee on departure; retries after a failed write and restarts included.
DepositSettledOnce == LedgerSound(world)

\* No lock outlives its reservation: a Reserved spot backs a Confirmed reservation
\* of the plate that holds it, until that reservation's deadline, or has lapsed so
\* that the next entry expires it (checkInImpl, sweep, cancel, expireReservations).
NoOrphanLock == up => HoldsBacked(world, now)

\* A checked-in reservation has its car on its spot, so that its deposit meets the
\* right departure and start-up does not refuse the database
\* (ReservationService::restore, prepareExitSettlement).
CheckedInIsParked == CheckedInSound(world)

\* A spot locked for a reservation that is not late is never handed to another
\* vehicle by any call, whatever fails in it.
LockNotHandedOver ==
    [][\A s \in Spots, r \in ResvIds :
         /\ up
         /\ world.resv[r].st = "Confirmed" /\ world.resv[r].spot = s
         /\ HeldBy(world.spots[s], world.resv[r].plate)
         /\ now <= world.resv[r].deadline
         => world'.spots[s].by \in {world.resv[r].plate, None}]_vars

\* What is settled stays settled: neither a retry nor a restart touches the row or
\* the ledger of a reservation that was cancelled, completed or missed.
SettlementFinal ==
    [][\A r \in ResvIds :
         world.dbResv[r].st \in {"Completed", "Cancelled", "NoShow"} =>
            /\ world'.dbResv[r] = world.dbResv[r]
            /\ world'.ledger[r] = world.ledger[r]]_vars

\* Every reservation lives the life the abstract specification promises: one step at a
\* time, each at its time, with the receipt that belongs to it and the car it is about,
\* whatever fails in the calls and whenever the process stops.
Life == INSTANCE ReservationLife WITH
    Ids <- ResvIds, rows <- world.dbResv, ledger <- world.ledger, cars <- world.dbActive

KeepsPromise == Life!Spec

\* The inductive invariant: the parts above, and a memory that is empty while the
\* process is down (the constructor starts from the layout and the database).
IInv ==
    /\ TypeOK
    /\ DbSound(world)
    /\ up => MemorySound(world, now)
    /\ ~up => world = NoMemory(world)

-----------------------------------------------------------------------------
(***************************************************************************)
(* What the documents and comments of the project say and the code does    *)
(* not do: a run refutes it.                                               *)
(***************************************************************************)

\* The database of the service can be opened again at any time: a plate that
\* cancels and books anew may get the same spot, which must not make start-up fail
\* (comment at ParkingService.cpp:964-968).
Restartable == RestoreAccepts(world)
=============================================================================
