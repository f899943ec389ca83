------------------------------ MODULE Bookings ------------------------------
(***************************************************************************)
(* Untimed holds and bookings of ParkingService: reserve, createBooking,   *)
(* confirmBooking, cancelBooking, expireBookings and the explicit releases, *)
(* next to the entries, exits and start-up checks they share the spots     *)
(* with.  The time-slot reservations are ParkingCore's; here a vehicle has *)
(* none.                                                                   *)
(*                                                                         *)
(* One action is one call.  A call performs several writes, any one of     *)
(* which, or all, may fail, and the process may stop before any of them.   *)
(* The results of some writes are ignored, so memory and database may      *)
(* part; what the service still promises then is what is stated here.      *)
(*                                                                         *)
(* Abstracted: deposits, fees, vehicle types, the allocator's choice.      *)
(***************************************************************************)
EXTENDS Integers, Sequences

CONSTANTS
    Plates,
    Bookers,      \* the vehicles that book and hold spots; the others only come and go
    NSpots,       \* the spots are 1 .. NSpots, in the order of the layout
    None,         \* no vehicle
    Grace,        \* bookingPolicy_.gracePeriod
    Leads,        \* how far ahead callers book
    Ttl,          \* the time a hold is asked for
    MaxBookings,  \* bound on the bookings made
    MaxTime,      \* the clock stops here
    MaxFaults     \* bound on calls with a failing write, and crashes

ASSUME BookingAssumption ==
    /\ NSpots \in Nat /\ Grace \in Nat /\ Leads \subseteq Nat \ {0} /\ Ttl \in Nat \ {0}
    /\ MaxBookings \in Nat /\ MaxTime \in Nat /\ MaxFaults \in Nat
    /\ None \notin Plates /\ Bookers \subseteq Plates

VARIABLES
    mem,        \* spots_, the open records of records_, and bookings_
    db,         \* the same in the database
    now, up, faults,
    waived,     \* history: bookings whose spot the driver took or gave away otherwise
    forfeited,  \* history: bookings that were no-shows in memory
    spoiled     \* history: something the start-up checks are known not to accept

vars == <<mem, db, now, up, faults, waived, forfeited, spoiled>>

Spots == 1 .. NSpots

Free == [st |-> "Available", by |-> None, until |-> 0]
Held(p, t) == [st |-> "Reserved", by |-> p, until |-> t]
Parked(p) == [st |-> "Occupied", by |-> p, until |-> 0]

Booking == [plate : Plates, spot : Spots, arrival : Nat,
            st : {"Booked", "CheckedIn", "Cancelled", "NoShow"}]

Copy == [spots : [Spots -> [st : {"Available", "Reserved", "Occupied"},
                            by : Plates \union {None}, until : Nat]],
         active : [Plates -> Spots \union {0}],  \* the spot of the open record, if any
         books : Seq(Booking)]

Empty == [spots |-> [s \in Spots |-> Free], active |-> [p \in Plates |-> 0], books |-> <<>>]

Init ==
    /\ mem = Empty /\ db = Empty
    /\ now = 0 /\ up = TRUE /\ faults = 0
    /\ waived = {} /\ forfeited = {} /\ spoiled = FALSE

-----------------------------------------------------------------------------
(***************************************************************************)
(* The writes of a call are numbered in the order they are made: the       *)
(* expired holds, for each booking that is overdue its spot and its        *)
(* status, then those of the call itself.                                  *)
(***************************************************************************)
Expiry(s) == s
Unlock(i) == NSpots + 2 * i - 1
Status(i) == NSpots + 2 * i
Own(k) == NSpots + 2 * MaxBookings + k
Writes == 1 .. Own(3)

\* The writes that fail: none, one, or, on a full disk or in a crash, all from some
\* point on.
Outages == {{}} \union {{x} : x \in Writes} \union {x .. Own(3) : x \in Writes}

\* A world is both copies; the operators below map worlds to worlds.
World == [mem |-> mem, db |-> db]

Deadline(b) == b.arrival + Grace

Indices(c) == DOMAIN c.books

\* findActiveBooking, hasActiveBookingForSpot, findReservedSpot
ActiveBookings(c, p) == {i \in Indices(c) : c.books[i].st = "Booked" /\ c.books[i].plate = p}
BookedSpots(c) == {c.books[i].spot : i \in {j \in Indices(c) : c.books[j].st = "Booked"}}
HeldBy(spot, p) == spot.st = "Reserved" /\ spot.by = p
HeldSpots(c, p) == {s \in Spots : HeldBy(c.spots[s], p)}
First(S) == CHOOSE x \in S : \A y \in S : x <= y

\* Spot s becomes x in memory, and in the database unless the write fails.
Put(w, s, x) == [w EXCEPT !.mem.spots[s] = x, !.db.spots[s] = x]

Freed(spots, S) == [s \in Spots |-> IF s \in S THEN Free ELSE spots[s]]

\* expireReservations, less the spots whose write failed: those are held again.
Lapsed(c, F) ==
    {s \in Spots : /\ c.spots[s].st = "Reserved" /\ c.spots[s].until <= now
                   /\ s \notin BookedSpots(c) /\ Expiry(s) \notin F}

ExpireReservations(w, F) ==
    [w EXCEPT !.mem.spots = Freed(@, Lapsed(w.mem, F)),
              !.db.spots = Freed(@, Lapsed(w.mem, F))]

\* expireBookings: a hold whose release failed is put back, the booking is a no-show
\* all the same, and nobody looks whether that was written.
Overdue(c) == {i \in Indices(c) : c.books[i].st = "Booked" /\ Deadline(c.books[i]) <= now}

Unlocked(c, F) ==
    {c.books[i].spot : i \in {j \in Overdue(c) : /\ HeldBy(c.spots[c.books[j].spot], c.books[j].plate)
                                                /\ Unlock(j) \notin F}}

Resolved(books, I, st) == [i \in DOMAIN books |-> IF i \in I THEN [books[i] EXCEPT !.st = st] ELSE books[i]]

ExpireBookings(w, F) ==
    LET due == Overdue(w.mem) IN
    [w EXCEPT !.mem.spots = Freed(@, Unlocked(w.mem, F)),
              !.db.spots = Freed(@, Unlocked(w.mem, F)),
              !.mem.books = Resolved(@, due, "NoShow"),
              !.db.books = Resolved(@, {i \in due : Status(i) \notin F}, "NoShow")]

\* What most calls begin with.
Swept(w, F) == ExpireBookings(ExpireReservations(w, F), F)

-----------------------------------------------------------------------------
(***************************************************************************)
(* The calls: each is the set of worlds it may end in.                     *)
(***************************************************************************)

Available(c) == {s \in Spots : c.spots[s] = Free}

Refusable(outcomes, w) == IF outcomes = {} THEN {w} ELSE outcomes

\* reserve
Reserved(w0, p, F) ==
    LET w == Swept(w0, F) IN
    IF w.mem.active[p] # 0 \/ HeldSpots(w.mem, p) # {} \/ Own(1) \in F THEN {w}
    ELSE Refusable({Put(w, s, Held(p, now + Ttl)) : s \in Available(w.mem)}, w)

\* enter, of a vehicle without a reservation.  When the entry cannot be written the
\* spot is released, although it may have been held before.
Entered(w0, p, F) ==
    LET w == Swept(w0, F)
        held == HeldSpots(w.mem, p)
        open == IF held = {} THEN Available(w.mem) ELSE {First(held)}
    IN
    IF w.mem.active[p] # 0 THEN {w}
    ELSE IF Own(1) \in F THEN Refusable({[w EXCEPT !.mem.spots[s] = Free] : s \in open}, w)
    ELSE Refusable({[Put(w, s, Parked(p)) EXCEPT !.mem.active[p] = s, !.db.active[p] = s] :
                        s \in open}, w)

\* closeActiveRecord: bookings are not looked at.
Closed(w, p) == [Put(w, w.mem.active[p], Free) EXCEPT !.mem.active[p] = 0, !.db.active[p] = 0]

\* leave
Left(w0, p, F) ==
    LET w == Swept(w0, F) IN
    {IF w.mem.active[p] = 0 \/ Own(1) \in F THEN w ELSE Closed(w, p)}

\* release of a spot, whoever has it.
Released(w, s, F) ==
    {IF w.mem.spots[s].st = "Available" \/ Own(1) \in F THEN w
     ELSE IF w.mem.spots[s].st = "Occupied" THEN Closed(w, w.mem.spots[s].by)
     ELSE Put(w, s, Free)}

\* cancelReservation: the hold of a booking too.
HoldCancelled(w, p, F) ==
    {IF HeldSpots(w.mem, p) = {} \/ Own(1) \in F THEN w ELSE Put(w, First(HeldSpots(w.mem, p)), Free)}

\* updateVehicleType writes the vehicle's spot as memory has it, twice if need be.
Retyped(w0, p, F) ==
    LET w == ExpireReservations(ExpireBookings(w0, F), F)
        mine == {s \in Spots : w.mem.spots[s].by = p}
    IN
    {w} \union {[w EXCEPT !.db.spots[s] = w.mem.spots[s]] :
                   s \in {x \in mine : x = First(mine) /\ ~({Own(1), Own(2)} \subseteq F)}}

\* createBooking, its checks
Bookable(c, p) ==
    /\ c.active[p] = 0
    /\ HeldSpots(c, p) = {}
    /\ ActiveBookings(c, p) = {}

Created(w0, p, lead, F) ==
    LET w == ExpireBookings(w0, F)
        b(s) == [plate |-> p, spot |-> s, arrival |-> now + lead, st |-> "Booked"]
        locked(s) == Put(w, s, Held(p, Deadline(b(s))))
    IN
    IF ~Bookable(w.mem, p) \/ Own(1) \in F THEN {w}
    ELSE IF Own(2) \in F
    THEN Refusable({[w EXCEPT !.db.spots[s] = IF Own(3) \in F THEN locked(s).db.spots[s] ELSE Free] :
                        s \in Available(w.mem)}, w)
    ELSE Refusable({[locked(s) EXCEPT !.mem.books = Append(@, b(s)), !.db.books = Append(@, b(s))] :
                        s \in Available(w.mem)}, w)

\* What confirmBooking does when the check-in cannot be written.
Rehold(w, s, p, t) == [w EXCEPT !.mem.spots[s] = Held(p, t)]

\* Mutant of BeforeConfirm: overdue bookings are not looked for.
BeforeConfirmNothing(w, F) == w

BeforeConfirm(w, F) == ExpireBookings(w, F)

\* confirmBooking, within a grace period of the arrival on either side.  A check-in is
\* not written if the plate holds another spot than it booked (saveBookingCheckIn).
Confirmed(w0, p, F) ==
    LET w == BeforeConfirm(w0, F)
        i == First(ActiveBookings(w.mem, p))
        b == w.mem.books[i]
        s == First(HeldSpots(w.mem, p))
    IN
    {IF \/ ActiveBookings(w.mem, p) = {}
        \/ now < b.arrival - Grace \/ now > Deadline(b)
        \/ HeldSpots(w.mem, p) = {}
     THEN w
     ELSE IF s # b.spot \/ Own(1) \in F \/ w.db.active[p] # 0 THEN Rehold(w, s, p, Deadline(b))
     ELSE [Put(w, s, Parked(p)) EXCEPT
              !.mem.active[p] = s, !.db.active[p] = s,
              !.mem.books[i].st = "CheckedIn", !.db.books[i].st = "CheckedIn"]}

\* cancelBooking, before the arrival.
Cancelled(w0, p, F) ==
    LET w == ExpireBookings(w0, F)
        i == First(ActiveBookings(w.mem, p))
        b == w.mem.books[i]
        s == b.spot
        hold == Held(p, Deadline(b))
        holds == HeldBy(w.mem.spots[s], p)
        freed == IF holds THEN Put(w, s, Free) ELSE w
    IN
    {IF ActiveBookings(w.mem, p) = {} \/ now >= b.arrival THEN w
     ELSE IF holds /\ Own(1) \in F THEN [w EXCEPT !.mem.spots[s] = hold]
     ELSE IF Own(2) \notin F
     THEN [freed EXCEPT !.mem.books[i].st = "Cancelled", !.db.books[i].st = "Cancelled"]
     ELSE IF ~holds THEN w
     ELSE [w EXCEPT !.mem.spots[s] = hold, !.db.spots[s] = IF Own(3) \in F THEN Free ELSE hold]}

-----------------------------------------------------------------------------
(***************************************************************************)
(* Behaviour.                                                              *)
(***************************************************************************)
NoShows(c) == {i \in Indices(c) : c.books[i].st = "NoShow"}

\* A call ends in one of the worlds outcomes(F) holds, where F matters; in a crash the
\* writes fail from some point on and the memory is lost.  waives and spoils are for the
\* history.
Call(outcomes(_), waives, spoils) ==
    /\ up
    /\ \E F \in Outages : \E w \in IF F = {} THEN outcomes({})
                                   ELSE IF faults < MaxFaults THEN outcomes(F) \ outcomes({})
                                   ELSE {} :
           /\ faults' = IF F = {} THEN faults ELSE faults + 1
           /\ spoiled' = (spoiled \/ spoils \/ F # {})
           /\ db' = w.db
           /\ \/ up' = TRUE /\ mem' = w.mem
              \/ Own(3) \in F /\ up' = FALSE /\ mem' = Empty
           /\ forfeited' = forfeited \union NoShows(w.mem)
    /\ waived' = waived \union waives
    /\ UNCHANGED now

\* The vehicle p came on a booking, which its exit leaves checked in.
CameOn(p) ==
    \E i \in Indices(mem) : mem.books[i].plate = p /\ mem.books[i].st = "CheckedIn"

\* The vehicle p had a booking that ended without it.
Gone(p) ==
    \E i \in Indices(mem) : mem.books[i].plate = p /\ mem.books[i].st \in {"Cancelled", "NoShow"}

Reserve(p) ==
    LET outcomes(F) == Reserved(World, p, F) IN Call(outcomes, {}, Gone(p) \/ Overdue(mem) # {})

Enter(p) ==
    LET outcomes(F) == Entered(World, p, F) IN
    Call(outcomes, ActiveBookings(mem, p), ActiveBookings(mem, p) # {})

Leave(p) ==
    LET outcomes(F) == Left(World, p, F) IN Call(outcomes, {}, CameOn(p))

Release(s) ==
    LET outcomes(F) == Released(World, s, F)
        p == mem.spots[s].by IN
    /\ p # None
    /\ IF mem.spots[s].st = "Occupied" THEN Call(outcomes, {}, CameOn(p))
       ELSE Call(outcomes, ActiveBookings(mem, p), ActiveBookings(mem, p) # {})

CancelReservation(p) ==
    LET outcomes(F) == HoldCancelled(World, p, F) IN
    Call(outcomes, ActiveBookings(mem, p), ActiveBookings(mem, p) # {})

UpdateVehicleType(p) ==
    LET outcomes(F) == Retyped(World, p, F) IN Call(outcomes, {}, FALSE)

CreateBooking(p, lead) ==
    LET outcomes(F) == Created(World, p, lead, F) IN
    Len(mem.books) < MaxBookings /\ Call(outcomes, {}, FALSE)

ConfirmBooking(p) ==
    LET outcomes(F) == Confirmed(World, p, F) IN Call(outcomes, {}, FALSE)

CancelBooking(p) ==
    LET outcomes(F) == Cancelled(World, p, F) IN Call(outcomes, {}, FALSE)

Tick ==
    /\ now < MaxTime
    /\ now' = now + 1
    /\ UNCHANGED <<mem, db, up, faults, waived, forfeited, spoiled>>

\* The process ends between two calls.
Crash ==
    /\ up
    /\ up' = FALSE /\ mem' = Empty
    /\ UNCHANGED <<db, now, faults, waived, forfeited, spoiled>>

\* Mutant of Exempt: no spot is exempted.
ExemptNone(c) == {}

\* The spots on which a booking that has ended may still seem to hold its spot.
Exempt(c) == BookedSpots(c)

\* restore: occupied spots and open records match, and each booking the spots.
Accepts(c) ==
    /\ \A s \in Spots : c.spots[s].st = "Occupied" => c.active[c.spots[s].by] = s
    /\ \A p \in Plates : c.active[p] # 0 => c.spots[c.active[p]] = Parked(p)
    /\ \A i \in Indices(c) :
           LET b == c.books[i]
               s == c.spots[b.spot] IN
           /\ ~\E j \in ActiveBookings(c, b.plate) : j < i
           /\ b.st = "Booked" => HeldBy(s, b.plate)
           /\ b.st = "CheckedIn" => c.active[b.plate] = b.spot /\ s = Parked(b.plate)
           /\ b.st \in {"Cancelled", "NoShow"} => ~HeldBy(s, b.plate) \/ b.spot \in Exempt(c)

Restart ==
    /\ ~up /\ Accepts(db)
    /\ up' = TRUE /\ mem' = db
    /\ UNCHANGED <<db, now, faults, waived, forfeited, spoiled>>

Next ==
    \/ \E p \in Plates : Enter(p) \/ Leave(p) \/ UpdateVehicleType(p)
    \/ \E p \in Bookers :
           \/ Reserve(p) \/ CancelReservation(p) \/ ConfirmBooking(p) \/ CancelBooking(p)
           \/ \E lead \in Leads : CreateBooking(p, lead)
    \/ \E s \in Spots : Release(s)
    \/ Tick \/ Crash \/ Restart

Spec == Init /\ [][Next]_vars

-----------------------------------------------------------------------------
(***************************************************************************)
(* Properties.                                                             *)
(***************************************************************************)
TypeOK ==
    /\ mem \in Copy /\ db \in Copy
    /\ now \in 0 .. MaxTime /\ up \in BOOLEAN /\ faults \in 0 .. MaxFaults
    /\ waived \subseteq 1 .. MaxBookings /\ forfeited \subseteq 1 .. MaxBookings
    /\ spoiled \in BOOLEAN

\* How far memory and database part when writes fail: they agree on who is parked where
\* and on the bookings, but for no-shows the database does not know of; one of them may
\* have a hold the other has not, never a hold of another vehicle.
CopiesAgree ==
    /\ mem.active = db.active
    /\ Indices(mem) = Indices(db)
    /\ \A i \in Indices(mem) :
           \/ mem.books[i] = db.books[i]
           \/ mem.books[i] = [db.books[i] EXCEPT !.st = "NoShow"] /\ db.books[i].st = "Booked"
    /\ \A s \in Spots :
           \/ mem.spots[s] = db.spots[s]
           \/ mem.spots[s] = Free /\ db.spots[s].st = "Reserved"
           \/ db.spots[s] = Free /\ mem.spots[s].st = "Reserved"
           \/ \E p \in Plates : HeldBy(mem.spots[s], p) /\ HeldBy(db.spots[s], p)

\* A vehicle has at most one booking it has not used, and none while it is parked unless
\* it came in without confirming it or a restart brought back a no-show that was not
\* written; it has at most one hold, and none while it is parked, unless a failed write
\* left one behind in the database.
OneClaimEach ==
    \A p \in Plates :
        /\ \A i, j \in ActiveBookings(mem, p) : i = j
        /\ mem.active[p] # 0 => ActiveBookings(mem, p) \subseteq waived \union forfeited
        /\ faults = 0 => \A s, t \in HeldSpots(mem, p) : s = t /\ mem.active[p] = 0

\* The spot of a booking is held for its vehicle until the deadline, whatever the other
\* calls do and whichever writes fail, unless its own driver entered without confirming
\* or somebody released it explicitly.
BookingKeepsSpot ==
    \A i \in Indices(mem) \ waived :
        mem.books[i].st = "Booked" /\ now < Deadline(mem.books[i]) =>
            mem.spots[mem.books[i].spot] = Held(mem.books[i].plate, Deadline(mem.books[i]))

\* A booking that was a no-show is not checked in nor cancelled any more, not even after
\* a restart with a database in which it is still booked.
ForfeitIsFinal ==
    \A i \in forfeited :
        /\ up => mem.books[i].st \in {"NoShow", "Booked"}
        /\ db.books[i].st \in {"NoShow", "Booked"}

\* The bookings are in order as long as the process runs.
BookingsSound ==
    /\ TypeOK
    /\ up => CopiesAgree /\ OneClaimEach /\ BookingKeepsSpot
    /\ ForfeitIsFinal

\* A process that stopped between two calls can be started again, also after a vehicle
\* has cancelled and booked the same spot anew (comment in restore).  The exceptions: a
\* write failed; the vehicle of a checked-in booking left; one with a booking entered
\* without confirming it, or its spot was released; one with an ended booking took a
\* hold.
StartsAgain == spoiled \/ Accepts(db)
=============================================================================
