--------------------------- MODULE BookingsProofs ---------------------------
(***************************************************************************)
(* Proofs about Bookings, for any vehicles, spots, delays and faults: the  *)
(* bookings are in order as long as the process runs, and what it leaves   *)
(* behind it accepts at the next start, unless something spoiled it.       *)
(*                                                                         *)
(* Every call is a sequence of few elementary changes of a world: a spot   *)
(* gets or loses a hold, holds are released, a vehicle parks or leaves, a  *)
(* booking is made or ends.  Each change has a lemma that it takes a good  *)
(* world to a good world whichever of its writes fail.                     *)
(***************************************************************************)
EXTENDS Bookings, SequenceTheorems, WellFoundedInduction, TLAPS

SpotRows ==
    {Free} \union {Held(p, t) : p \in Plates, t \in Nat} \union {Parked(p) : p \in Plates}

Copies == [spots : [Spots -> SpotRows], active : [Plates -> Spots \union {0}],
           books : Seq(Booking)]

Worlds == [mem : Copies, db : Copies]

\* What the row of a spot in memory may be when the database has y.
Alike(x, y) ==
    \/ x = y
    \/ x = Free /\ y.st = "Reserved"
    \/ y = Free /\ x.st = "Reserved"
    \/ \E p \in Plates : HeldBy(x, p) /\ HeldBy(y, p)

\* What a booking in memory may be when the database has c.
SameBooking(b, c) ==
    \/ b = c
    \/ b = [c EXCEPT !.st = "NoShow"] /\ c.st = "Booked"

Agree(w) ==
    /\ w.mem.active = w.db.active
    /\ Indices(w.mem) = Indices(w.db)
    /\ \A i \in Indices(w.mem) : SameBooking(w.mem.books[i], w.db.books[i])
    /\ \A s \in Spots : Alike(w.mem.spots[s], w.db.spots[s])

Occupancy(c) ==
    /\ \A s \in Spots : c.spots[s].st = "Occupied" => c.active[c.spots[s].by] = s
    /\ \A p \in Plates : c.active[p] # 0 => c.spots[c.active[p]] = Parked(p)

OneBooking(c) == \A p \in Plates : \A i, j \in ActiveBookings(c, p) : i = j

\* A vehicle that is parked has no booking but those of the sets W and G.
Unused(c, W, G) == \A p \in Plates : c.active[p] # 0 => ActiveBookings(c, p) \subseteq W \union G

\* G holds every no-show, and bookings that are too late.
Forfeits(c, t, G) ==
    /\ NoShows(c) \subseteq G
    /\ \A i \in G : /\ i \in Indices(c) /\ Deadline(c.books[i]) <= t
                    /\ c.books[i].st \in {"NoShow", "Booked"}

Hold(b) == Held(b.plate, Deadline(b))

\* The bookings whose spot is kept at time t.
Live(c, t, W) == {i \in Indices(c) \ W : c.books[i].st = "Booked" /\ t < Deadline(c.books[i])}

\* The hold of the booking b is as it should be in one row; in the other there is none,
\* or it is the same.
Backs(x, b) == x = Hold(b)
Respects(y, b) == HeldBy(y, b.plate) => y = Hold(b)

Kept(w, t, W) ==
    \A i \in Live(w.mem, t, W) :
        LET b == w.mem.books[i] IN
        Backs(w.mem.spots[b.spot], b) /\ Respects(w.db.spots[b.spot], b)

Good(w, t, W, G) ==
    /\ w \in Worlds /\ Len(w.mem.books) <= MaxBookings
    /\ Agree(w)
    /\ Occupancy(w.mem)
    /\ OneBooking(w.mem)
    /\ Unused(w.mem, W, G)
    /\ Forfeits(w.mem, t, G)
    /\ Kept(w, t, W)

-----------------------------------------------------------------------------
(***************************************************************************)
(* Rows.                                                                   *)
(***************************************************************************)

\* The three kinds of rows, and what they say.
LEMMA RowKinds ==
  /\ Free \in SpotRows /\ Free.st = "Available" /\ Free.by = None
  /\ \A p \in Plates : p # None
  /\ \A q : ~HeldBy(Free, q)
  /\ \A p \in Plates, t \in Nat :
        /\ Held(p, t) \in SpotRows /\ Held(p, t).st = "Reserved" /\ Held(p, t).by = p
        /\ Held(p, t).until = t
        /\ Held(p, t) # Free
        /\ \A q : HeldBy(Held(p, t), q) <=> q = p
  /\ \A p \in Plates :
        /\ Parked(p) \in SpotRows /\ Parked(p).st = "Occupied" /\ Parked(p).by = p
        /\ Parked(p) # Free
        /\ \A q : ~HeldBy(Parked(p), q)
<1>1. \A p \in Plates : p # None
  BY BookingAssumption
<1>2. \A p, t : /\ Held(p, t).st = "Reserved" /\ Held(p, t).by = p /\ Held(p, t).until = t
                /\ Parked(p).st = "Occupied" /\ Parked(p).by = p
  BY DEF Held, Parked
<1>3. Free.st = "Available" /\ Free.by = None
  BY DEF Free
<1>4. /\ Free \in SpotRows
      /\ \A p \in Plates, t \in Nat : Held(p, t) \in SpotRows
      /\ \A p \in Plates : Parked(p) \in SpotRows
  BY DEF SpotRows
<1>5. QED
  BY <1>1, <1>2, <1>3, <1>4 DEF HeldBy

LEMMA RowCases ==
  ASSUME NEW x \in SpotRows
  PROVE  /\ x.st \in {"Available", "Reserved", "Occupied"}
         /\ x.by \in Plates \union {None}
         /\ x.until \in Nat
         /\ x.st = "Available" <=> x = Free
         /\ x.st = "Reserved" => x.by \in Plates /\ x = Held(x.by, x.until) /\ HeldBy(x, x.by)
         /\ x.st = "Occupied" => x.by \in Plates /\ x = Parked(x.by)
         /\ x.by = None <=> x = Free
<1>1. CASE x = Free
  BY <1>1, RowKinds DEF Free
<1>2. CASE \E p \in Plates, t \in Nat : x = Held(p, t)
  BY <1>2, RowKinds DEF HeldBy
<1>3. CASE \E p \in Plates : x = Parked(p)
  <2>1. PICK p \in Plates : x = Parked(p)
    BY <1>3
  <2>2. x.until = 0
    BY <2>1 DEF Parked
  <2>3. QED
    BY <2>1, <2>2, RowKinds
<1>4. QED
  BY <1>1, <1>2, <1>3 DEF SpotRows

\* Rows that may stand for each other are occupied alike, and no two vehicles hold one spot.
LEMMA AlikeRows ==
  ASSUME NEW x \in SpotRows, NEW y \in SpotRows, Alike(x, y)
  PROVE  /\ x.st = "Occupied" <=> y.st = "Occupied"
         /\ x.st = "Occupied" => x = y
         /\ \A p, q \in Plates : HeldBy(x, p) /\ HeldBy(y, q) => p = q
BY RowCases, RowKinds DEF Alike, HeldBy

-----------------------------------------------------------------------------
(***************************************************************************)
(* Worlds, by their six parts.                                             *)
(***************************************************************************)
Parts(ms, ma, mb, ds, da, dk) ==
    [mem |-> [spots |-> ms, active |-> ma, books |-> mb],
     db |-> [spots |-> ds, active |-> da, books |-> dk]]

LEMMA PartsAre ==
  ASSUME NEW ms, NEW ma, NEW mb, NEW ds, NEW da, NEW dk, NEW w,
         w = Parts(ms, ma, mb, ds, da, dk)
  PROVE  /\ w.mem.spots = ms /\ w.mem.active = ma /\ w.mem.books = mb
         /\ w.db.spots = ds /\ w.db.active = da /\ w.db.books = dk
BY DEF Parts

LEMMA WorldParts ==
  ASSUME NEW w \in Worlds
  PROVE  /\ w = Parts(w.mem.spots, w.mem.active, w.mem.books,
                      w.db.spots, w.db.active, w.db.books)
         /\ w.mem.spots \in [Spots -> SpotRows] /\ w.db.spots \in [Spots -> SpotRows]
         /\ w.mem.active \in [Plates -> Spots \union {0}]
         /\ w.db.active \in [Plates -> Spots \union {0}]
         /\ w.mem.books \in Seq(Booking) /\ w.db.books \in Seq(Booking)
BY DEF Worlds, Copies, Parts

LEMMA PartsMake ==
  ASSUME NEW ms \in [Spots -> SpotRows], NEW ds \in [Spots -> SpotRows],
         NEW ma \in [Plates -> Spots \union {0}], NEW da \in [Plates -> Spots \union {0}],
         NEW mb \in Seq(Booking), NEW dk \in Seq(Booking)
  PROVE  Parts(ms, ma, mb, ds, da, dk) \in Worlds
BY DEF Worlds, Copies, Parts

\* What is known of the bookings of a good world.
LEMMA BookFacts ==
  ASSUME NEW w \in Worlds
  PROVE  /\ Len(w.mem.books) \in Nat /\ Len(w.db.books) \in Nat
         /\ Indices(w.mem) = 1 .. Len(w.mem.books) /\ Indices(w.db) = 1 .. Len(w.db.books)
         /\ \A i \in Indices(w.mem) : w.mem.books[i] \in Booking
         /\ \A i \in Indices(w.db) : w.db.books[i] \in Booking
<1>1. w.mem.books \in Seq(Booking) /\ w.db.books \in Seq(Booking)
  BY WorldParts
<1>2. QED
  BY <1>1, LenProperties, ElementOfSeq DEF Indices

LEMMA BookingFields ==
  ASSUME NEW b \in Booking
  PROVE  /\ b.plate \in Plates /\ b.spot \in Spots /\ b.arrival \in Nat
         /\ b.st \in {"Booked", "CheckedIn", "Cancelled", "NoShow"}
         /\ Deadline(b) \in Nat
         /\ Hold(b) \in SpotRows /\ HeldBy(Hold(b), b.plate)
         /\ Hold(b).st = "Reserved" /\ Hold(b) # Free
         /\ \A q : HeldBy(Hold(b), q) => q = b.plate
<1>1. /\ b.plate \in Plates /\ b.spot \in Spots /\ b.arrival \in Nat
      /\ b.st \in {"Booked", "CheckedIn", "Cancelled", "NoShow"}
  BY DEF Booking
<1>2. Deadline(b) \in Nat
  BY <1>1, BookingAssumption DEF Deadline
<1>3. QED
  BY <1>1, <1>2, RowKinds DEF Hold

\* The booking in the database is the one in memory, but that it may not be known to be
\* a no-show.
LEMMA BooksAgree ==
  ASSUME NEW w \in Worlds, Agree(w), NEW i \in Indices(w.mem)
  PROVE  /\ i \in Indices(w.db)
         /\ w.db.books[i].plate = w.mem.books[i].plate
         /\ w.db.books[i].spot = w.mem.books[i].spot
         /\ w.db.books[i].arrival = w.mem.books[i].arrival
         /\ Deadline(w.db.books[i]) = Deadline(w.mem.books[i])
         /\ Hold(w.db.books[i]) = Hold(w.mem.books[i])
         /\ w.mem.books[i].st # "NoShow" => w.db.books[i] = w.mem.books[i]
         /\ w.mem.books[i].st = "NoShow" => w.db.books[i].st \in {"NoShow", "Booked"}
<1>1. i \in Indices(w.db) /\ w.mem.books[i] \in Booking /\ w.db.books[i] \in Booking
  BY BookFacts DEF Agree
<1>2. SameBooking(w.mem.books[i], w.db.books[i])
  BY DEF Agree
<1> DEFINE b == w.mem.books[i]
           c == w.db.books[i]
<1>3. c.plate = b.plate /\ c.spot = b.spot /\ c.arrival = b.arrival
  BY <1>1, <1>2 DEF SameBooking, Booking
<1>4. b.st # "NoShow" => c = b
  BY <1>1, <1>2 DEF SameBooking, Booking
<1>5. b.st = "NoShow" => c.st \in {"NoShow", "Booked"}
  BY <1>1, <1>2 DEF SameBooking, Booking
<1>6. QED
  BY <1>1, <1>3, <1>4, <1>5 DEF Deadline, Hold

-----------------------------------------------------------------------------
(***************************************************************************)
(* The elementary changes: first those of spots.                           *)
(***************************************************************************)

\* Nobody else holds the spot of a booking that is live.
LEMMA LiveHolds ==
  ASSUME NEW w, NEW t \in Nat, NEW W, NEW G, Good(w, t, W, G), NEW i \in Live(w.mem, t, W)
  PROVE  /\ i \in Indices(w.mem) /\ w.mem.books[i] \in Booking
         /\ i \in ActiveBookings(w.mem, w.mem.books[i].plate)
         /\ w.mem.spots[w.mem.books[i].spot] = Hold(w.mem.books[i])
         /\ w.mem.spots[w.mem.books[i].spot].st = "Reserved"
         /\ \A q : HeldBy(w.mem.spots[w.mem.books[i].spot], q) => q = w.mem.books[i].plate
<1>1. w \in Worlds /\ i \in Indices(w.mem) /\ w.mem.books[i].st = "Booked"
  BY DEF Good, Live
<1>2. w.mem.books[i] \in Booking
  BY <1>1, BookFacts
<1>3. w.mem.spots[w.mem.books[i].spot] = Hold(w.mem.books[i])
  BY DEF Good, Kept, Backs
<1>4. QED
  BY <1>1, <1>2, <1>3, BookingFields DEF ActiveBookings

\* Holds come and go, nobody parks or leaves, and the spots of live bookings stay theirs.
LEMMA HoldsChange ==
  ASSUME NEW w, NEW t \in Nat, NEW W, NEW G, Good(w, t, W, G),
         NEW V, W \subseteq V,
         NEW ms \in [Spots -> SpotRows], NEW ds \in [Spots -> SpotRows],
         \A s \in Spots : Alike(ms[s], ds[s]),
         \A s \in Spots : ms[s].st = "Occupied" \/ w.mem.spots[s].st = "Occupied"
                              => ms[s] = w.mem.spots[s],
         \A i \in Live(w.mem, t, V) :
             /\ Backs(ms[w.mem.books[i].spot], w.mem.books[i])
             /\ Respects(ds[w.mem.books[i].spot], w.mem.books[i]),
         NEW v, v = Parts(ms, w.mem.active, w.mem.books, ds, w.db.active, w.db.books)
  PROVE  Good(v, t, V, G)
<1>1. /\ v.mem.spots = ms /\ v.mem.active = w.mem.active /\ v.mem.books = w.mem.books
      /\ v.db.spots = ds /\ v.db.active = w.db.active /\ v.db.books = w.db.books
  BY PartsAre
<1>2. w \in Worlds
  BY DEF Good
<1>3. v \in Worlds
  BY <1>2, WorldParts, PartsMake
<1>4. Len(v.mem.books) <= MaxBookings
  BY <1>1 DEF Good
<1>5. Agree(v)
  BY <1>1 DEF Good, Agree, Indices
<1>6. Occupancy(v.mem)
  <2>1. ASSUME NEW s \in Spots, ms[s].st = "Occupied"
        PROVE  w.mem.active[ms[s].by] = s
    BY <2>1 DEF Good, Occupancy
  <2>2. ASSUME NEW p \in Plates, w.mem.active[p] # 0
        PROVE  ms[w.mem.active[p]] = Parked(p)
    <3>1. w.mem.active[p] \in Spots
      BY <1>2, <2>2, WorldParts
    <3>2. w.mem.spots[w.mem.active[p]] = Parked(p)
      BY <2>2 DEF Good, Occupancy
    <3>3. QED
      BY <3>1, <3>2, RowKinds
  <2>3. QED
    BY <1>1, <2>1, <2>2 DEF Occupancy
<1>7. OneBooking(v.mem)
  BY <1>1 DEF Good, OneBooking, ActiveBookings, Indices
<1>8. Unused(v.mem, V, G)
  BY <1>1 DEF Good, Unused, ActiveBookings, Indices
<1>9. Forfeits(v.mem, t, G)
  BY <1>1 DEF Good, Forfeits, NoShows, Indices
<1>10. Kept(v, t, V)
  BY <1>1 DEF Kept, Live, Indices
<1>11. QED
  BY <1>3, <1>4, <1>5, <1>6, <1>7, <1>8, <1>9, <1>10 DEF Good

\* The row of one spot becomes x in memory and y in the database.
LEMMA HoldChanges ==
  ASSUME NEW w, NEW t \in Nat, NEW W, NEW G, Good(w, t, W, G),
         NEW V, W \subseteq V,
         NEW s \in Spots, NEW x \in SpotRows, NEW y \in SpotRows, Alike(x, y),
         x.st # "Occupied", w.mem.spots[s].st # "Occupied",
         \A i \in Live(w.mem, t, V) :
             w.mem.books[i].spot = s => /\ Backs(x, w.mem.books[i])
                                        /\ Respects(y, w.mem.books[i]),
         NEW v, v = Parts([w.mem.spots EXCEPT ![s] = x], w.mem.active, w.mem.books,
                          [w.db.spots EXCEPT ![s] = y], w.db.active, w.db.books)
  PROVE  Good(v, t, V, G)
<1> DEFINE ms == [w.mem.spots EXCEPT ![s] = x]
           ds == [w.db.spots EXCEPT ![s] = y]
<1>1. w \in Worlds /\ Agree(w) /\ Kept(w, t, W)
  BY DEF Good
<1>2. /\ ms \in [Spots -> SpotRows] /\ ds \in [Spots -> SpotRows]
      /\ \A r \in Spots : /\ ms[r] = IF r = s THEN x ELSE w.mem.spots[r]
                          /\ ds[r] = IF r = s THEN y ELSE w.db.spots[r]
  BY <1>1, WorldParts
<1>3. v = Parts(ms, w.mem.active, w.mem.books, ds, w.db.active, w.db.books)
  OBVIOUS
<1> HIDE DEF ms, ds
<1>4. \A r \in Spots : Alike(ms[r], ds[r])
  BY <1>1, <1>2 DEF Agree
<1>5. \A r \in Spots : ms[r].st = "Occupied" \/ w.mem.spots[r].st = "Occupied"
                           => ms[r] = w.mem.spots[r]
  BY <1>2
<1>6. ASSUME NEW i \in Live(w.mem, t, V)
      PROVE  /\ Backs(ms[w.mem.books[i].spot], w.mem.books[i])
             /\ Respects(ds[w.mem.books[i].spot], w.mem.books[i])
  <2>1. i \in Live(w.mem, t, W)
    BY DEF Live
  <2>2. w.mem.books[i].spot \in Spots
    BY <2>1, LiveHolds, BookingFields
  <2>3. /\ Backs(w.mem.spots[w.mem.books[i].spot], w.mem.books[i])
        /\ Respects(w.db.spots[w.mem.books[i].spot], w.mem.books[i])
    BY <1>1, <2>1 DEF Kept
  <2>4. QED
    BY <1>2, <2>2, <2>3
<1>7. QED
  BY <1>2, <1>3, <1>4, <1>5, <1>6, HoldsChange

\* The holds of the spots S are released in both copies.
LEMMA HoldsReleased ==
  ASSUME NEW w, NEW t \in Nat, NEW W, NEW G, Good(w, t, W, G),
         NEW S \in SUBSET Spots, \A s \in S : w.mem.spots[s].st = "Reserved",
         \A i \in Live(w.mem, t, W) : w.mem.books[i].spot \notin S,
         NEW v, v = Parts(Freed(w.mem.spots, S), w.mem.active, w.mem.books,
                          Freed(w.db.spots, S), w.db.active, w.db.books)
  PROVE  Good(v, t, W, G)
<1> DEFINE ms == Freed(w.mem.spots, S)
           ds == Freed(w.db.spots, S)
<1>1. w \in Worlds /\ Agree(w) /\ Kept(w, t, W)
  BY DEF Good
<1>2. /\ ms \in [Spots -> SpotRows] /\ ds \in [Spots -> SpotRows]
      /\ \A r \in Spots : /\ ms[r] = IF r \in S THEN Free ELSE w.mem.spots[r]
                          /\ ds[r] = IF r \in S THEN Free ELSE w.db.spots[r]
  BY <1>1, WorldParts, RowKinds DEF Freed
<1>3. v = Parts(ms, w.mem.active, w.mem.books, ds, w.db.active, w.db.books)
  OBVIOUS
<1> HIDE DEF ms, ds
<1>4. \A r \in Spots : Alike(ms[r], ds[r])
  BY <1>1, <1>2 DEF Agree, Alike
<1>5. \A r \in Spots : ms[r].st = "Occupied" \/ w.mem.spots[r].st = "Occupied"
                           => ms[r] = w.mem.spots[r]
  BY <1>2, RowKinds
<1>6. ASSUME NEW i \in Live(w.mem, t, W)
      PROVE  /\ Backs(ms[w.mem.books[i].spot], w.mem.books[i])
             /\ Respects(ds[w.mem.books[i].spot], w.mem.books[i])
  <2>1. w.mem.books[i].spot \in Spots
    BY LiveHolds, BookingFields
  <2>2. /\ Backs(w.mem.spots[w.mem.books[i].spot], w.mem.books[i])
        /\ Respects(w.db.spots[w.mem.books[i].spot], w.mem.books[i])
    BY <1>1 DEF Kept
  <2>3. QED
    BY <1>2, <2>1, <2>2
<1>7. QED
  BY <1>2, <1>3, <1>4, <1>5, <1>6, HoldsChange

\* The vehicle p parks on the spot s, which is free or held for it.
LEMMA Parks ==
  ASSUME NEW w, NEW t \in Nat, NEW W, NEW G, Good(w, t, W, G),
         NEW V, W \subseteq V,
         NEW p \in Plates, w.mem.active[p] = 0, ActiveBookings(w.mem, p) \subseteq V,
         NEW s \in Spots, w.mem.spots[s] = Free \/ HeldBy(w.mem.spots[s], p),
         NEW v, v = Parts([w.mem.spots EXCEPT ![s] = Parked(p)],
                          [w.mem.active EXCEPT ![p] = s], w.mem.books,
                          [w.db.spots EXCEPT ![s] = Parked(p)],
                          [w.db.active EXCEPT ![p] = s], w.db.books)
  PROVE  Good(v, t, V, G)
<1> DEFINE ms == [w.mem.spots EXCEPT ![s] = Parked(p)]
           ds == [w.db.spots EXCEPT ![s] = Parked(p)]
           ma == [w.mem.active EXCEPT ![p] = s]
           da == [w.db.active EXCEPT ![p] = s]
<1>1. w \in Worlds /\ Agree(w) /\ Occupancy(w.mem)
  BY DEF Good
<1>2. /\ ms \in [Spots -> SpotRows] /\ ds \in [Spots -> SpotRows]
      /\ ma \in [Plates -> Spots \union {0}] /\ da \in [Plates -> Spots \union {0}]
      /\ \A r \in Spots : /\ ms[r] = IF r = s THEN Parked(p) ELSE w.mem.spots[r]
                          /\ ds[r] = IF r = s THEN Parked(p) ELSE w.db.spots[r]
      /\ \A q \in Plates : ma[q] = IF q = p THEN s ELSE w.mem.active[q]
  BY <1>1, WorldParts, RowKinds
<1>3. ma = da
  BY <1>1 DEF Agree
<1>4. v = Parts(ms, ma, w.mem.books, ds, da, w.db.books)
  OBVIOUS
<1> HIDE DEF ms, ds, ma, da
<1>5. /\ v.mem.spots = ms /\ v.mem.active = ma /\ v.mem.books = w.mem.books
      /\ v.db.spots = ds /\ v.db.active = da /\ v.db.books = w.db.books
  BY <1>4, PartsAre
<1>6. v \in Worlds /\ Len(v.mem.books) <= MaxBookings
  <2>1. w.mem.books \in Seq(Booking) /\ w.db.books \in Seq(Booking)
    BY <1>1, WorldParts
  <2>2. Parts(ms, ma, w.mem.books, ds, da, w.db.books) \in Worlds
    <3>1. /\ ms \in [Spots -> SpotRows] /\ ds \in [Spots -> SpotRows]
          /\ ma \in [Plates -> Spots \union {0}] /\ da \in [Plates -> Spots \union {0}]
      BY <1>2
    <3>2. QED
      BY <2>1, <3>1, PartsMake
  <2>3. QED
    BY <1>4, <1>5, <2>2 DEF Good
<1>7. Agree(v)
  <2>1. v.mem.active = v.db.active /\ Indices(v.mem) = Indices(v.db)
    BY <1>1, <1>3, <1>5 DEF Agree, Indices
  <2>2. \A i \in Indices(v.mem) : SameBooking(v.mem.books[i], v.db.books[i])
    BY <1>1, <1>5 DEF Agree, Indices
  <2>3. ASSUME NEW r \in Spots PROVE Alike(ms[r], ds[r])
    <3>1. CASE r = s
      BY <1>2, <3>1 DEF Alike
    <3>2. CASE r # s
      <4>1. ms[r] = w.mem.spots[r] /\ ds[r] = w.db.spots[r]
        BY <1>2, <3>2
      <4>2. QED
        BY <1>1, <4>1 DEF Agree
    <3>3. QED
      BY <3>1, <3>2
  <2>4. QED
    BY <1>5, <2>1, <2>2, <2>3 DEF Agree
<1>8. w.mem.spots[s].st # "Occupied"
  BY RowKinds DEF HeldBy
<1>9. Occupancy(v.mem)
  <2>1. ASSUME NEW r \in Spots, ms[r].st = "Occupied"
        PROVE  ma[ms[r].by] = r
    <3>1. CASE r = s
      BY <1>2, <3>1, RowKinds
    <3>2. CASE r # s
      <4>1. ms[r] = w.mem.spots[r] /\ w.mem.active[w.mem.spots[r].by] = r
        BY <1>1, <1>2, <2>1, <3>2 DEF Occupancy
      <4>2. w.mem.spots[r] \in SpotRows
        BY <1>1, WorldParts
      <4>3. w.mem.spots[r].by \in Plates
        BY <2>1, <4>1, <4>2, RowCases
      <4>4. r # 0
        BY DEF Spots
      <4>5. w.mem.spots[r].by # p
        BY <4>1, <4>4
      <4>6. QED
        BY <1>2, <4>1, <4>3, <4>5
    <3>3. QED
      BY <3>1, <3>2
  <2>2. ASSUME NEW q \in Plates, ma[q] # 0
        PROVE  ms[ma[q]] = Parked(q)
    <3>1. CASE q = p
      BY <1>2, <3>1
    <3>2. CASE q # p
      <4>1. /\ ma[q] = w.mem.active[q] /\ w.mem.spots[w.mem.active[q]] = Parked(q)
            /\ ma[q] \in Spots
        BY <1>1, <1>2, <2>2, <3>2 DEF Occupancy
      <4>2. ma[q] # s
        BY <1>8, <4>1, RowKinds
      <4>3. QED
        BY <1>2, <4>1, <4>2
    <3>3. QED
      BY <3>1, <3>2
  <2>3. QED
    BY <1>5, <2>1, <2>2 DEF Occupancy
<1>10. OneBooking(v.mem)
  <2>1. \A q \in Plates : ActiveBookings(v.mem, q) = ActiveBookings(w.mem, q)
    BY <1>5 DEF ActiveBookings, Indices
  <2>2. OneBooking(w.mem)
    BY DEF Good
  <2>3. QED
    BY <2>1, <2>2 DEF OneBooking
<1>11. Unused(v.mem, V, G)
  <2>1. \A q \in Plates : ActiveBookings(v.mem, q) = ActiveBookings(w.mem, q)
    BY <1>5 DEF ActiveBookings, Indices
  <2>2. QED
    BY <1>2, <1>5, <2>1 DEF Good, Unused
<1>12. Forfeits(v.mem, t, G)
  BY <1>5 DEF Good, Forfeits, NoShows, Indices
<1>13. Kept(v, t, V)
  <2>1. Live(v.mem, t, V) = Live(w.mem, t, V)
    BY <1>5 DEF Live, Indices
  <2>2. ASSUME NEW i \in Live(w.mem, t, V)
        PROVE  /\ Backs(ms[w.mem.books[i].spot], w.mem.books[i])
               /\ Respects(ds[w.mem.books[i].spot], w.mem.books[i])
    <3>1. i \in Live(w.mem, t, W)
      BY DEF Live
    <3>2. /\ w.mem.books[i].spot \in Spots /\ w.mem.books[i] \in Booking
          /\ i \in ActiveBookings(w.mem, w.mem.books[i].plate) /\ i \notin V
          /\ w.mem.spots[w.mem.books[i].spot] = Hold(w.mem.books[i])
      <4>1. i \notin V
        BY DEF Live
      <4>2. /\ i \in ActiveBookings(w.mem, w.mem.books[i].plate) /\ w.mem.books[i] \in Booking
            /\ w.mem.spots[w.mem.books[i].spot] = Hold(w.mem.books[i])
        BY <3>1, LiveHolds
      <4>3. QED
        BY <4>1, <4>2, BookingFields
    <3>3. w.mem.books[i].spot # s
      BY <3>2, BookingFields
    <3>4. /\ Backs(w.mem.spots[w.mem.books[i].spot], w.mem.books[i])
          /\ Respects(w.db.spots[w.mem.books[i].spot], w.mem.books[i])
      BY <3>1 DEF Good, Kept
    <3>5. QED
      BY <1>2, <3>2, <3>3, <3>4
  <2>3. QED
    BY <1>5, <2>1, <2>2 DEF Kept
<1>14. QED
  BY <1>6, <1>7, <1>9, <1>10, <1>11, <1>12, <1>13 DEF Good

\* The vehicle p leaves its spot.
LEMMA Closes ==
  ASSUME NEW w, NEW t \in Nat, NEW W, NEW G, Good(w, t, W, G),
         NEW p \in Plates, w.mem.active[p] # 0,
         NEW v, v = Parts([w.mem.spots EXCEPT ![w.mem.active[p]] = Free],
                          [w.mem.active EXCEPT ![p] = 0], w.mem.books,
                          [w.db.spots EXCEPT ![w.mem.active[p]] = Free],
                          [w.db.active EXCEPT ![p] = 0], w.db.books)
  PROVE  Good(v, t, W, G)
<1> DEFINE s == w.mem.active[p]
           ms == [w.mem.spots EXCEPT ![s] = Free]
           ds == [w.db.spots EXCEPT ![s] = Free]
           ma == [w.mem.active EXCEPT ![p] = 0]
           da == [w.db.active EXCEPT ![p] = 0]
<1>1. w \in Worlds /\ Agree(w) /\ Occupancy(w.mem)
  BY DEF Good
<1>2. /\ s \in Spots /\ w.mem.spots[s] = Parked(p)
      /\ ms \in [Spots -> SpotRows] /\ ds \in [Spots -> SpotRows]
      /\ ma \in [Plates -> Spots \union {0}] /\ da \in [Plates -> Spots \union {0}]
      /\ \A r \in Spots : /\ ms[r] = IF r = s THEN Free ELSE w.mem.spots[r]
                          /\ ds[r] = IF r = s THEN Free ELSE w.db.spots[r]
      /\ \A q \in Plates : ma[q] = IF q = p THEN 0 ELSE w.mem.active[q]
  BY <1>1, WorldParts, RowKinds DEF Occupancy
<1>3. ma = da
  BY <1>1 DEF Agree
<1>4. v = Parts(ms, ma, w.mem.books, ds, da, w.db.books)
  OBVIOUS
<1> HIDE DEF ms, ds, ma, da, s
<1>5. /\ v.mem.spots = ms /\ v.mem.active = ma /\ v.mem.books = w.mem.books
      /\ v.db.spots = ds /\ v.db.active = da /\ v.db.books = w.db.books
  BY <1>4, PartsAre
<1>6. v \in Worlds /\ Len(v.mem.books) <= MaxBookings
  <2>1. w.mem.books \in Seq(Booking) /\ w.db.books \in Seq(Booking)
    BY <1>1, WorldParts
  <2>2. Parts(ms, ma, w.mem.books, ds, da, w.db.books) \in Worlds
    <3>1. /\ ms \in [Spots -> SpotRows] /\ ds \in [Spots -> SpotRows]
          /\ ma \in [Plates -> Spots \union {0}] /\ da \in [Plates -> Spots \union {0}]
      BY <1>2
    <3>2. QED
      BY <2>1, <3>1, PartsMake
  <2>3. QED
    BY <1>4, <1>5, <2>2 DEF Good
<1>7. Agree(v)
  <2>1. v.mem.active = v.db.active /\ Indices(v.mem) = Indices(v.db)
    BY <1>1, <1>3, <1>5 DEF Agree, Indices
  <2>2. \A i \in Indices(v.mem) : SameBooking(v.mem.books[i], v.db.books[i])
    BY <1>1, <1>5 DEF Agree, Indices
  <2>3. ASSUME NEW r \in Spots PROVE Alike(ms[r], ds[r])
    <3>1. CASE r = s
      BY <1>2, <3>1 DEF Alike
    <3>2. CASE r # s
      <4>1. ms[r] = w.mem.spots[r] /\ ds[r] = w.db.spots[r]
        BY <1>2, <3>2
      <4>2. QED
        BY <1>1, <4>1 DEF Agree
    <3>3. QED
      BY <3>1, <3>2
  <2>4. QED
    BY <1>5, <2>1, <2>2, <2>3 DEF Agree
<1>8. Occupancy(v.mem)
  <2>1. ASSUME NEW r \in Spots, ms[r].st = "Occupied"
        PROVE  ma[ms[r].by] = r
    <3>1. r # s /\ ms[r] = w.mem.spots[r] /\ w.mem.active[w.mem.spots[r].by] = r
      BY <1>1, <1>2, <2>1, RowKinds DEF Occupancy
    <3>2. w.mem.spots[r] \in SpotRows
      BY <1>1, WorldParts
    <3>3. w.mem.spots[r].by \in Plates
      BY <2>1, <3>1, <3>2, RowCases
    <3>4. w.mem.spots[r].by # p
      BY <3>1 DEF s
    <3>5. QED
      BY <1>2, <3>1, <3>3, <3>4
  <2>2. ASSUME NEW q \in Plates, ma[q] # 0
        PROVE  ms[ma[q]] = Parked(q)
    <3>1. q # p /\ ma[q] = w.mem.active[q] /\ ma[q] \in Spots
      BY <1>2, <2>2
    <3>2. w.mem.spots[ma[q]] = Parked(q)
      BY <1>1, <2>2, <3>1 DEF Occupancy
    <3>3. ma[q] # s
      BY <1>2, <3>1, <3>2, RowKinds
    <3>4. QED
      BY <1>2, <3>1, <3>2, <3>3
  <2>3. QED
    BY <1>5, <2>1, <2>2 DEF Occupancy
<1>9. \A q \in Plates : ActiveBookings(v.mem, q) = ActiveBookings(w.mem, q)
  BY <1>5 DEF ActiveBookings, Indices
<1>10. OneBooking(v.mem) /\ Unused(v.mem, W, G)
  <2>1. OneBooking(w.mem) /\ Unused(w.mem, W, G)
    BY DEF Good
  <2>2. OneBooking(v.mem)
    BY <1>9, <2>1 DEF OneBooking
  <2>3. \A q \in Plates : v.mem.active[q] # 0 => w.mem.active[q] # 0
    BY <1>2, <1>5
  <2>4. QED
    BY <1>9, <2>1, <2>2, <2>3 DEF Unused
<1>11. Forfeits(v.mem, t, G)
  BY <1>5 DEF Good, Forfeits, NoShows, Indices
<1>12. Kept(v, t, W)
  <2>1. Live(v.mem, t, W) = Live(w.mem, t, W)
    BY <1>5 DEF Live, Indices
  <2>2. ASSUME NEW i \in Live(w.mem, t, W)
        PROVE  /\ Backs(ms[w.mem.books[i].spot], w.mem.books[i])
               /\ Respects(ds[w.mem.books[i].spot], w.mem.books[i])
    <3>1. /\ w.mem.books[i].spot \in Spots
          /\ w.mem.spots[w.mem.books[i].spot].st = "Reserved"
      BY LiveHolds, BookingFields
    <3>2. w.mem.books[i].spot # s
      BY <1>2, <3>1, RowKinds
    <3>3. /\ Backs(w.mem.spots[w.mem.books[i].spot], w.mem.books[i])
          /\ Respects(w.db.spots[w.mem.books[i].spot], w.mem.books[i])
      BY DEF Good, Kept
    <3>4. QED
      BY <1>2, <3>1, <3>2, <3>3
  <2>3. QED
    BY <1>5, <2>1, <2>2 DEF Kept
<1>13. QED
  BY <1>6, <1>7, <1>8, <1>10, <1>11, <1>12 DEF Good

-----------------------------------------------------------------------------
(***************************************************************************)
(* The elementary changes of bookings.                                     *)
(***************************************************************************)

\* How the booking i, which is b, may go on at time t: it stays as it is, is settled, or
\* becomes a no-show when it is late; what is forfeited is not settled.
GoesOn(i, b, c, t, G) ==
    \/ c = b
    \/ b.st = "Booked" /\ Deadline(b) <= t /\ c = [b EXCEPT !.st = "NoShow"]
    \/ /\ b.st = "Booked" /\ i \notin G
       /\ \E x \in {"CheckedIn", "Cancelled"} : c = [b EXCEPT !.st = x]

LEMMA GoingOn ==
  ASSUME NEW i, NEW b \in Booking, NEW c, NEW t \in Nat, NEW G, GoesOn(i, b, c, t, G)
  PROVE  /\ c \in Booking
         /\ c.plate = b.plate /\ c.spot = b.spot /\ c.arrival = b.arrival
         /\ Deadline(c) = Deadline(b) /\ Hold(c) = Hold(b)
         /\ c.st = "Booked" => c = b
         /\ c.st = "NoShow" => b.st = "NoShow" \/ Deadline(b) <= t
         /\ i \in G => c.st = b.st \/ c.st = "NoShow"
<1>1. /\ c \in Booking
      /\ c.plate = b.plate /\ c.spot = b.spot /\ c.arrival = b.arrival
      /\ c.st = "Booked" => c = b
      /\ c.st = "NoShow" => b.st = "NoShow" \/ Deadline(b) <= t
      /\ i \in G => c.st = b.st \/ c.st = "NoShow"
  BY DEF GoesOn, Booking
<1>2. QED
  BY <1>1 DEF Deadline, Hold

\* Bookings end, in memory and in the database.
LEMMA BookingsEnd ==
  ASSUME NEW w, NEW t \in Nat, NEW W, NEW G, Good(w, t, W, G),
         NEW mb \in Seq(Booking), NEW dk \in Seq(Booking),
         Len(mb) = Len(w.mem.books), Len(dk) = Len(w.db.books),
         \A i \in Indices(w.mem) :
             /\ SameBooking(mb[i], dk[i])
             /\ GoesOn(i, w.mem.books[i], mb[i], t, G),
         NEW v, v = Parts(w.mem.spots, w.mem.active, mb, w.db.spots, w.db.active, dk)
  PROVE  Good(v, t, W, G \union NoShows(v.mem))
<1>1. /\ v.mem.spots = w.mem.spots /\ v.mem.active = w.mem.active /\ v.mem.books = mb
      /\ v.db.spots = w.db.spots /\ v.db.active = w.db.active /\ v.db.books = dk
  BY PartsAre
<1>2. w \in Worlds /\ Agree(w)
  BY DEF Good
<1>3. v \in Worlds
  BY <1>2, WorldParts, PartsMake
<1>4. Indices(v.mem) = Indices(w.mem) /\ Indices(v.db) = Indices(w.db)
  <2>1. /\ Indices(w.mem) = 1 .. Len(w.mem.books) /\ Indices(w.db) = 1 .. Len(w.db.books)
        /\ Indices(v.mem) = 1 .. Len(v.mem.books) /\ Indices(v.db) = 1 .. Len(v.db.books)
    BY <1>2, <1>3, BookFacts
  <2>2. QED
    BY <1>1, <2>1
<1>5. ASSUME NEW i \in Indices(w.mem)
      PROVE  /\ w.mem.books[i] \in Booking
             /\ mb[i].plate = w.mem.books[i].plate /\ mb[i].spot = w.mem.books[i].spot
             /\ Deadline(mb[i]) = Deadline(w.mem.books[i])
             /\ mb[i].st = "Booked" => mb[i] = w.mem.books[i]
             /\ mb[i].st = "NoShow" =>
                    w.mem.books[i].st = "NoShow" \/ Deadline(w.mem.books[i]) <= t
             /\ i \in G => mb[i].st = w.mem.books[i].st \/ mb[i].st = "NoShow"
  <2>1. w.mem.books[i] \in Booking
    BY <1>2, BookFacts
  <2>2. GoesOn(i, w.mem.books[i], mb[i], t, G)
    OBVIOUS
  <2>3. QED
    BY <2>1, <2>2, GoingOn
<1>6. \A p : ActiveBookings(v.mem, p) \subseteq ActiveBookings(w.mem, p)
  BY <1>1, <1>4, <1>5 DEF ActiveBookings
<1>7. Len(v.mem.books) <= MaxBookings
  BY <1>1 DEF Good
<1>8. Agree(v)
  BY <1>1, <1>2, <1>4 DEF Agree
<1>9. Occupancy(v.mem)
  BY <1>1 DEF Good, Occupancy
<1>10. OneBooking(v.mem)
  BY <1>6 DEF Good, OneBooking
<1>11. Unused(v.mem, W, G \union NoShows(v.mem))
  BY <1>1, <1>6 DEF Good, Unused
<1>12. Forfeits(v.mem, t, G \union NoShows(v.mem))
  <2>1. /\ NoShows(w.mem) \subseteq G
        /\ \A i \in G : /\ i \in Indices(w.mem) /\ Deadline(w.mem.books[i]) <= t
                        /\ w.mem.books[i].st \in {"NoShow", "Booked"}
    BY DEF Good, Forfeits
  <2>2. ASSUME NEW i \in G
        PROVE  /\ i \in Indices(v.mem) /\ Deadline(v.mem.books[i]) <= t
               /\ v.mem.books[i].st \in {"NoShow", "Booked"}
    BY <1>1, <1>4, <1>5, <2>1
  <2>3. ASSUME NEW i \in NoShows(v.mem)
        PROVE  /\ i \in Indices(v.mem) /\ Deadline(v.mem.books[i]) <= t
               /\ v.mem.books[i].st \in {"NoShow", "Booked"}
    <3>1. i \in Indices(w.mem) /\ v.mem.books[i].st = "NoShow"
      BY <1>4 DEF NoShows
    <3>2. i \in NoShows(w.mem) \/ Deadline(w.mem.books[i]) <= t
      BY <1>1, <1>5, <3>1 DEF NoShows
    <3>3. QED
      BY <1>1, <1>4, <1>5, <2>1, <3>1, <3>2
  <2>4. QED
    BY <2>2, <2>3 DEF Forfeits
<1>13. Kept(v, t, W)
  <2>1. ASSUME NEW i \in Live(v.mem, t, W)
        PROVE  i \in Live(w.mem, t, W) /\ mb[i] = w.mem.books[i]
    BY <1>1, <1>4, <1>5 DEF Live
  <2>2. QED
    BY <1>1, <2>1 DEF Good, Kept
<1>14. QED
  BY <1>3, <1>7, <1>8, <1>9, <1>10, <1>11, <1>12, <1>13 DEF Good

\* The bookings I become no-shows.
LEMMA Resolving ==
  ASSUME NEW books \in Seq(Booking), NEW I
  PROVE  /\ Resolved(books, I, "NoShow") \in Seq(Booking)
         /\ Len(Resolved(books, I, "NoShow")) = Len(books)
         /\ DOMAIN Resolved(books, I, "NoShow") = DOMAIN books
         /\ \A i \in DOMAIN books :
               /\ i \in I => /\ Resolved(books, I, "NoShow")[i] = [books[i] EXCEPT !.st = "NoShow"]
                            /\ Resolved(books, I, "NoShow")[i].st = "NoShow"
               /\ i \notin I => Resolved(books, I, "NoShow")[i] = books[i]
<1> DEFINE f == [i \in 1 .. Len(books) |->
                    IF i \in I THEN [books[i] EXCEPT !.st = "NoShow"] ELSE books[i]]
<1>1. Len(books) \in Nat /\ DOMAIN books = 1 .. Len(books)
  BY LenProperties
<1>2. \A b \in Booking : [b EXCEPT !.st = "NoShow"] \in Booking /\ [b EXCEPT !.st = "NoShow"].st = "NoShow"
  BY DEF Booking
<1>3. \A i \in 1 .. Len(books) : books[i] \in Booking
  BY <1>1, ElementOfSeq
<1>4. f \in [1 .. Len(books) -> Booking]
  BY <1>2, <1>3
<1>5. f \in Seq(Booking) /\ DOMAIN f = 1 .. Len(books)
  BY <1>1, <1>4
<1>6. Len(f) = Len(books)
  BY <1>1, <1>5, LenProperties
<1>7. Resolved(books, I, "NoShow") = f
  BY <1>1 DEF Resolved
<1>8. \A i \in DOMAIN books :
         /\ i \in I => f[i] = [books[i] EXCEPT !.st = "NoShow"] /\ f[i].st = "NoShow"
         /\ i \notin I => f[i] = books[i]
  BY <1>1, <1>2, <1>3
<1> HIDE DEF f
<1>9. QED
  BY <1>1, <1>5, <1>6, <1>7, <1>8

LEMMA ResolvedOne ==
  ASSUME NEW books \in Seq(Booking), NEW I, NEW i \in DOMAIN books
  PROVE  /\ i \in I => Resolved(books, I, "NoShow")[i].st = "NoShow"
         /\ i \notin I => Resolved(books, I, "NoShow")[i] = books[i]
<1>1. books[i] \in Booking
  BY LenProperties, ElementOfSeq
<1>2. [books[i] EXCEPT !.st = "NoShow"].st = "NoShow"
  BY <1>1 DEF Booking
<1>3. Resolved(books, I, "NoShow")[i] =
          IF i \in I THEN [books[i] EXCEPT !.st = "NoShow"] ELSE books[i]
  BY DEF Resolved
<1>4. QED
  BY <1>2, <1>3

\* Late bookings become no-shows, not all of them in the database.
LEMMA NoShowsNoted ==
  ASSUME NEW w, NEW t \in Nat, NEW W, NEW G, Good(w, t, W, G),
         NEW I, NEW J, J \subseteq I,
         \A i \in I : /\ i \in Indices(w.mem) /\ w.mem.books[i].st = "Booked"
                     /\ Deadline(w.mem.books[i]) <= t,
         NEW v, v = Parts(w.mem.spots, w.mem.active, Resolved(w.mem.books, I, "NoShow"),
                          w.db.spots, w.db.active, Resolved(w.db.books, J, "NoShow"))
  PROVE  Good(v, t, W, G \union NoShows(v.mem))
<1> DEFINE mb == Resolved(w.mem.books, I, "NoShow")
           dk == Resolved(w.db.books, J, "NoShow")
<1>1. w \in Worlds /\ Agree(w)
  BY DEF Good
<1>2. w.mem.books \in Seq(Booking) /\ w.db.books \in Seq(Booking)
  BY <1>1, WorldParts
<1>3. /\ mb \in Seq(Booking) /\ Len(mb) = Len(w.mem.books)
      /\ \A i \in DOMAIN w.mem.books :
            /\ i \in I => mb[i] = [w.mem.books[i] EXCEPT !.st = "NoShow"]
            /\ i \notin I => mb[i] = w.mem.books[i]
  BY <1>2, Resolving
<1>4. /\ dk \in Seq(Booking) /\ Len(dk) = Len(w.db.books)
      /\ \A i \in DOMAIN w.db.books :
            /\ i \in J => dk[i] = [w.db.books[i] EXCEPT !.st = "NoShow"]
            /\ i \notin J => dk[i] = w.db.books[i]
  BY <1>2, Resolving
<1>5. v = Parts(w.mem.spots, w.mem.active, mb, w.db.spots, w.db.active, dk)
  OBVIOUS
<1> HIDE DEF mb, dk
<1>6. ASSUME NEW i \in Indices(w.mem)
      PROVE  /\ SameBooking(mb[i], dk[i])
             /\ GoesOn(i, w.mem.books[i], mb[i], t, G)
  <2>1. /\ i \in I => mb[i] = [w.mem.books[i] EXCEPT !.st = "NoShow"]
        /\ i \notin I => mb[i] = w.mem.books[i]
        /\ i \in J => dk[i] = [w.db.books[i] EXCEPT !.st = "NoShow"]
        /\ i \notin J => dk[i] = w.db.books[i]
    BY <1>1, <1>3, <1>4 DEF Agree, Indices
  <2>2. i \in I => w.db.books[i] = w.mem.books[i]
    BY <1>1, BooksAgree
  <2>3. SameBooking(mb[i], dk[i])
    <3>1. CASE i \in I
      BY <2>1, <2>2, <3>1 DEF SameBooking
    <3>2. CASE i \notin I
      BY <1>1, <2>1, <3>2 DEF Agree
    <3>3. QED
      BY <3>1, <3>2
  <2>4. GoesOn(i, w.mem.books[i], mb[i], t, G)
    BY <2>1 DEF GoesOn
  <2>5. QED
    BY <2>3, <2>4
<1>7. QED
  <2>1. /\ mb \in Seq(Booking) /\ Len(mb) = Len(w.mem.books)
        /\ dk \in Seq(Booking) /\ Len(dk) = Len(w.db.books)
    BY <1>3, <1>4
  <2>2. QED
    BY <1>5, <1>6, <2>1, BookingsEnd

\* The booking i is settled as x.
SettledAs(w, i, x) ==
    Parts(w.mem.spots, w.mem.active, [w.mem.books EXCEPT ![i].st = x],
          w.db.spots, w.db.active, [w.db.books EXCEPT ![i].st = x])

\* The bookings of c are the old ones but i.
AllBut(c, old, i) == \A p : ActiveBookings(c, p) = ActiveBookings(old, p) \ {i}

\* A booking that is in time is checked in or cancelled.
LEMMA BookingSettled ==
  ASSUME NEW w, NEW t \in Nat, NEW W, NEW G, Good(w, t, W, G),
         NEW i \in Indices(w.mem), w.mem.books[i].st = "Booked",
         t < Deadline(w.mem.books[i]), NEW x \in {"CheckedIn", "Cancelled"}
  PROVE  /\ Good(SettledAs(w, i, x), t, W, G)
         /\ NoShows(SettledAs(w, i, x).mem) = NoShows(w.mem)
         /\ AllBut(SettledAs(w, i, x).mem, w.mem, i)
<1> DEFINE v == SettledAs(w, i, x)
           mb == [w.mem.books EXCEPT ![i].st = x]
           dk == [w.db.books EXCEPT ![i].st = x]
<1>1. w \in Worlds /\ Agree(w)
  BY DEF Good
<1>2. w.mem.books \in Seq(Booking) /\ w.db.books \in Seq(Booking)
  BY <1>1, WorldParts
<1>3. /\ i \in 1 .. Len(w.mem.books) /\ i \in 1 .. Len(w.db.books)
      /\ w.mem.books[i] \in Booking /\ w.db.books[i] = w.mem.books[i]
  BY <1>1, BookFacts, BooksAgree DEF Agree
<1>4. [w.mem.books[i] EXCEPT !.st = x] \in Booking
  BY <1>3 DEF Booking
<1>5. /\ mb \in Seq(Booking) /\ Len(mb) = Len(w.mem.books)
      /\ \A j \in 1 .. Len(w.mem.books) :
            mb[j] = IF j = i THEN [w.mem.books[i] EXCEPT !.st = x] ELSE w.mem.books[j]
  BY <1>2, <1>3, <1>4, ExceptSeq
<1>6. /\ dk \in Seq(Booking) /\ Len(dk) = Len(w.db.books)
      /\ \A j \in 1 .. Len(w.db.books) :
            dk[j] = IF j = i THEN [w.mem.books[i] EXCEPT !.st = x] ELSE w.db.books[j]
  BY <1>2, <1>3, <1>4, ExceptSeq
<1>7. v = Parts(w.mem.spots, w.mem.active, mb, w.db.spots, w.db.active, dk)
  BY DEF SettledAs
<1> HIDE DEF mb, dk, v
<1>8. Indices(w.mem) = 1 .. Len(w.mem.books) /\ Indices(w.db) = Indices(w.mem)
      /\ Indices(w.db) = 1 .. Len(w.db.books)
  BY <1>1, BookFacts DEF Agree
<1>9. i \notin G
  <2>1. Deadline(w.mem.books[i]) \in Nat
    BY <1>3, BookingFields
  <2>2. QED
    BY <2>1 DEF Good, Forfeits
<1>10. ASSUME NEW j \in Indices(w.mem)
       PROVE  /\ SameBooking(mb[j], dk[j])
              /\ GoesOn(j, w.mem.books[j], mb[j], t, G)
  <2>1. CASE j = i
    BY <1>5, <1>6, <1>8, <1>9, <2>1 DEF SameBooking, GoesOn
  <2>2. CASE j # i
    BY <1>1, <1>5, <1>6, <1>8, <2>2 DEF Agree, GoesOn
  <2>3. QED
    BY <2>1, <2>2
<1>11. Good(v, t, W, G \union NoShows(v.mem))
  <2>1. /\ mb \in Seq(Booking) /\ Len(mb) = Len(w.mem.books)
        /\ dk \in Seq(Booking) /\ Len(dk) = Len(w.db.books)
    BY <1>5, <1>6
  <2>2. QED
    BY <1>7, <1>10, <2>1, BookingsEnd
<1>12. v.mem.books = mb /\ Indices(v.mem) = Indices(w.mem)
  <2>1. v.mem.books = mb
    BY <1>7, PartsAre
  <2>2. DOMAIN mb = 1 .. Len(mb)
    BY <1>5, LenProperties
  <2>3. QED
    BY <1>5, <1>8, <2>1, <2>2 DEF Indices
<1>13. mb[i].st = x
  BY <1>3, <1>5 DEF Booking
<1>13a. \A j \in Indices(w.mem) : j # i => v.mem.books[j] = w.mem.books[j]
  BY <1>5, <1>8, <1>12
<1>14. NoShows(v.mem) = NoShows(w.mem)
  BY <1>12, <1>13, <1>13a DEF NoShows
<1>15. \A p : ActiveBookings(v.mem, p) = ActiveBookings(w.mem, p) \ {i}
  BY <1>12, <1>13, <1>13a DEF ActiveBookings
<1>16. G \union NoShows(v.mem) = G
  BY <1>14 DEF Good, Forfeits
<1>17. QED
  BY <1>11, <1>14, <1>15, <1>16 DEF AllBut, v

\* A booking is made for a spot that is held for it already.
LEMMA BookingMade ==
  ASSUME NEW w, NEW t \in Nat, NEW W, NEW G, Good(w, t, W, G),
         NEW b \in Booking, b.st = "Booked", Len(w.mem.books) < MaxBookings,
         ActiveBookings(w.mem, b.plate) = {}, w.mem.active[b.plate] = 0,
         w.mem.spots[b.spot] = Hold(b), w.db.spots[b.spot] = Hold(b),
         NEW v, v = Parts(w.mem.spots, w.mem.active, Append(w.mem.books, b),
                          w.db.spots, w.db.active, Append(w.db.books, b))
  PROVE  Good(v, t, W, G) /\ NoShows(v.mem) = NoShows(w.mem)
<1> DEFINE mb == Append(w.mem.books, b)
           dk == Append(w.db.books, b)
           n == Len(w.mem.books)
<1>1. w \in Worlds /\ Agree(w)
  BY DEF Good
<1>2. /\ w.mem.books \in Seq(Booking) /\ w.db.books \in Seq(Booking)
      /\ n \in Nat /\ Len(w.db.books) = n
      /\ Indices(w.mem) = 1 .. n /\ Indices(w.db) = 1 .. n
  <2>1. Len(w.db.books) \in Nat /\ 1 .. Len(w.db.books) = 1 .. n /\ n \in Nat
    BY <1>1, BookFacts DEF Agree
  <2>2. Len(w.db.books) = n
    BY <2>1
  <2>3. QED
    BY <1>1, <2>2, BookFacts, WorldParts
<1>3. /\ mb \in Seq(Booking) /\ Len(mb) = n + 1 /\ DOMAIN mb = 1 .. n + 1
      /\ \A i \in 1 .. n : mb[i] = w.mem.books[i]
      /\ mb[n + 1] = b
  BY <1>2, AppendProperties, LenProperties
<1>4. /\ dk \in Seq(Booking) /\ Len(dk) = n + 1 /\ DOMAIN dk = 1 .. n + 1
      /\ \A i \in 1 .. n : dk[i] = w.db.books[i]
      /\ dk[n + 1] = b
  BY <1>2, AppendProperties, LenProperties, SMTT(30)
<1>5. v = Parts(w.mem.spots, w.mem.active, mb, w.db.spots, w.db.active, dk)
  OBVIOUS
<1>6. /\ n + 1 <= MaxBookings /\ n + 1 \notin 1 .. n
      /\ \A i \in 1 .. n + 1 : i \in 1 .. n \/ i = n + 1
      /\ \A i \in 1 .. n : i \in 1 .. n + 1
  BY <1>2, BookingAssumption
<1> HIDE DEF mb, dk, n
<1>7. /\ v.mem.spots = w.mem.spots /\ v.mem.active = w.mem.active /\ v.mem.books = mb
      /\ v.db.spots = w.db.spots /\ v.db.active = w.db.active /\ v.db.books = dk
  BY <1>5, PartsAre
<1>8. v \in Worlds
  BY <1>1, <1>3, <1>4, <1>5, WorldParts, PartsMake, SMTT(30)
<1>9. Indices(v.mem) = 1 .. n + 1 /\ Indices(v.db) = 1 .. n + 1
  BY <1>3, <1>4, <1>7 DEF Indices
<1>10. Len(v.mem.books) <= MaxBookings
  BY <1>3, <1>6, <1>7
<1>11. Agree(v)
  <2>1. ASSUME NEW i \in 1 .. n + 1
        PROVE  SameBooking(mb[i], dk[i])
    <3>1. CASE i \in 1 .. n
      BY <1>1, <1>2, <1>3, <1>4, <3>1 DEF Agree
    <3>2. CASE i = n + 1
      BY <1>3, <1>4, <3>2 DEF SameBooking
    <3>3. QED
      BY <1>6, <3>1, <3>2
  <2>2. QED
    BY <1>1, <1>7, <1>9, <2>1 DEF Agree
<1>12. Occupancy(v.mem)
  BY <1>7 DEF Good, Occupancy
<1>13. \A p : ActiveBookings(v.mem, p) =
               ActiveBookings(w.mem, p) \union (IF p = b.plate THEN {n + 1} ELSE {})
  <2> SUFFICES ASSUME NEW p, NEW i
               PROVE  i \in ActiveBookings(v.mem, p) <=>
                          i \in ActiveBookings(w.mem, p) \/ (p = b.plate /\ i = n + 1)
    OBVIOUS
  <2>1. CASE i \in 1 .. n
    BY <1>2, <1>3, <1>6, <1>7, <1>9, <2>1 DEF ActiveBookings
  <2>2. CASE i = n + 1
    BY <1>2, <1>3, <1>6, <1>7, <1>9, <2>2 DEF ActiveBookings
  <2>3. CASE i \notin 1 .. n + 1
    <3>1. i \notin Indices(v.mem) /\ i \notin Indices(w.mem) /\ i # n + 1
      BY <1>2, <1>6, <1>9, <2>3
    <3>2. QED
      BY <3>1 DEF ActiveBookings
  <2>4. QED
    BY <1>6, <2>1, <2>2, <2>3
<1>14. OneBooking(v.mem)
  BY <1>13 DEF Good, OneBooking
<1>15. Unused(v.mem, W, G)
  BY <1>7, <1>13 DEF Good, Unused
<1>16. NoShows(v.mem) = NoShows(w.mem)
  <2> SUFFICES ASSUME NEW i
               PROVE  i \in NoShows(v.mem) <=> i \in NoShows(w.mem)
    OBVIOUS
  <2>1. CASE i \in 1 .. n
    BY <1>2, <1>3, <1>6, <1>7, <1>9, <2>1 DEF NoShows
  <2>2. CASE i \notin 1 .. n
    BY <1>2, <1>3, <1>6, <1>7, <1>9, <2>2 DEF NoShows
  <2>3. QED
    BY <2>1, <2>2
<1>17. Forfeits(v.mem, t, G)
  <2>1. \A i \in G : i \in Indices(w.mem)
    BY DEF Good, Forfeits
  <2>2. QED
    BY <1>2, <1>3, <1>6, <1>7, <1>9, <1>16, <2>1 DEF Good, Forfeits
<1>18. Kept(v, t, W)
  <2> SUFFICES ASSUME NEW i \in Live(v.mem, t, W)
               PROVE  /\ Backs(w.mem.spots[mb[i].spot], mb[i])
                      /\ Respects(w.db.spots[mb[i].spot], mb[i])
    BY <1>7 DEF Kept
  <2>1. i \in 1 .. n + 1 /\ i \notin W /\ mb[i].st = "Booked" /\ t < Deadline(mb[i])
    BY <1>7, <1>9 DEF Live
  <2>2. CASE i \in 1 .. n
    <3>1. mb[i] = w.mem.books[i] /\ i \in Live(w.mem, t, W)
      BY <1>2, <1>3, <2>1, <2>2 DEF Live
    <3>2. QED
      BY <3>1 DEF Good, Kept
  <2>3. CASE i = n + 1
    BY <1>3, <2>3 DEF Backs, Respects
  <2>4. QED
    BY <1>6, <2>1, <2>2, <2>3
<1>19. Good(v, t, W, G)
  BY <1>8, <1>10, <1>11, <1>12, <1>14, <1>15, <1>17, <1>18 DEF Good
<1>20. QED
  BY <1>16, <1>19

-----------------------------------------------------------------------------
(***************************************************************************)
(* What the calls begin with.                                              *)
(***************************************************************************)
\* A world is known by its parts.
LEMMA ByParts ==
  ASSUME NEW v \in Worlds, NEW ms, NEW ma, NEW mb, NEW ds, NEW da, NEW dk,
         v.mem.spots = ms, v.mem.active = ma, v.mem.books = mb,
         v.db.spots = ds, v.db.active = da, v.db.books = dk
  PROVE  v = Parts(ms, ma, mb, ds, da, dk)
BY WorldParts

LEMMA FreedRows ==
  ASSUME NEW spots \in [Spots -> SpotRows], NEW S
  PROVE  Freed(spots, S) \in [Spots -> SpotRows]
BY RowKinds DEF Freed

LEMMA ExpireReservationsParts ==
  ASSUME NEW w \in Worlds, NEW F
  PROVE  ExpireReservations(w, F) =
             Parts(Freed(w.mem.spots, Lapsed(w.mem, F)), w.mem.active, w.mem.books,
                   Freed(w.db.spots, Lapsed(w.mem, F)), w.db.active, w.db.books)
<1> DEFINE a == Freed(w.mem.spots, Lapsed(w.mem, F))
           c == Freed(w.db.spots, Lapsed(w.mem, F))
           v == [w EXCEPT !.mem.spots = a, !.db.spots = c]
<1>1. ExpireReservations(w, F) = v
  BY DEF ExpireReservations, Worlds, Copies
<1>2. a \in [Spots -> SpotRows] /\ c \in [Spots -> SpotRows]
  BY WorldParts, FreedRows
<1> HIDE DEF a, c
<1>3. /\ v \in Worlds
      /\ v.mem.spots = a /\ v.mem.active = w.mem.active /\ v.mem.books = w.mem.books
      /\ v.db.spots = c /\ v.db.active = w.db.active /\ v.db.books = w.db.books
  BY <1>2 DEF Worlds, Copies
<1> HIDE DEF v
<1>4. v = Parts(a, w.mem.active, w.mem.books, c, w.db.active, w.db.books)
  BY <1>3, ByParts
<1>5. QED
  BY <1>1, <1>4 DEF a, c

\* The late bookings whose new status is written.
Written(due, F) == {i \in due : Status(i) \notin F}

LEMMA ExpireBookingsParts ==
  ASSUME NEW w \in Worlds, NEW F
  PROVE  ExpireBookings(w, F) =
             Parts(Freed(w.mem.spots, Unlocked(w.mem, F)), w.mem.active,
                   Resolved(w.mem.books, Overdue(w.mem), "NoShow"),
                   Freed(w.db.spots, Unlocked(w.mem, F)), w.db.active,
                   Resolved(w.db.books, Written(Overdue(w.mem), F), "NoShow"))
<1> DEFINE a == Freed(w.mem.spots, Unlocked(w.mem, F))
           c == Freed(w.db.spots, Unlocked(w.mem, F))
           m == Resolved(w.mem.books, Overdue(w.mem), "NoShow")
           k == Resolved(w.db.books, Written(Overdue(w.mem), F), "NoShow")
           v == [w EXCEPT !.mem.spots = a, !.db.spots = c, !.mem.books = m, !.db.books = k]
<1>1. ExpireBookings(w, F) = v
  BY DEF ExpireBookings, Written, Worlds, Copies
<1>2. a \in [Spots -> SpotRows] /\ c \in [Spots -> SpotRows]
  BY WorldParts, FreedRows
<1>3. m \in Seq(Booking) /\ k \in Seq(Booking)
  BY WorldParts, Resolving
<1> HIDE DEF a, c, m, k
<1>4. /\ v \in Worlds
      /\ v.mem.spots = a /\ v.mem.active = w.mem.active /\ v.mem.books = m
      /\ v.db.spots = c /\ v.db.active = w.db.active /\ v.db.books = k
  BY <1>2, <1>3 DEF Worlds, Copies
<1> HIDE DEF v
<1>5. v = Parts(a, w.mem.active, m, c, w.db.active, k)
  BY <1>4, ByParts
<1>6. QED
  BY <1>1, <1>5 DEF a, c, m, k

\* No vehicle has a booking in c that it has not in d.
FewerBookings(c, d) == \A p : ActiveBookings(c, p) \subseteq ActiveBookings(d, p)

\* The expiry of holds leaves the spots of bookings alone.
LEMMA ExpireReservationsGood ==
  ASSUME now \in Nat, NEW w, NEW W, NEW G, Good(w, now, W, G), NEW F,
         NEW v, v = ExpireReservations(w, F)
  PROVE  /\ Good(v, now, W, G)
         /\ v.mem.active = w.mem.active /\ v.mem.books = w.mem.books
         /\ NoShows(v.mem) = NoShows(w.mem) /\ Overdue(v.mem) = Overdue(w.mem)
         /\ \A p : ActiveBookings(v.mem, p) = ActiveBookings(w.mem, p)
<1> DEFINE L == Lapsed(w.mem, F)
<1>1. w \in Worlds
  BY DEF Good
<1>2. v = Parts(Freed(w.mem.spots, L), w.mem.active, w.mem.books,
                Freed(w.db.spots, L), w.db.active, w.db.books)
  BY <1>1, ExpireReservationsParts
<1>3. L \in SUBSET Spots /\ \A s \in L : w.mem.spots[s].st = "Reserved"
  BY DEF Lapsed
<1>4. ASSUME NEW i \in Live(w.mem, now, W)
      PROVE  w.mem.books[i].spot \notin L
  <2>1. w.mem.books[i].spot \in BookedSpots(w.mem)
    BY DEF Live, BookedSpots
  <2>2. QED
    BY <2>1 DEF Lapsed
<1> HIDE DEF L
<1>5. Good(v, now, W, G)
  BY <1>2, <1>3, <1>4, HoldsReleased
<1>6. v.mem.active = w.mem.active /\ v.mem.books = w.mem.books
  BY <1>2, PartsAre
<1>7. QED
  BY <1>5, <1>6 DEF NoShows, Overdue, ActiveBookings, Indices

\* The expiry of bookings frees the spots of late ones only, whatever is not written.
LEMMA ExpireBookingsGood ==
  ASSUME now \in Nat, NEW w, NEW W, NEW G, Good(w, now, W, G), NEW F,
         NEW v, v = ExpireBookings(w, F)
  PROVE  /\ Good(v, now, W, G \union NoShows(v.mem))
         /\ v.mem.active = w.mem.active /\ Len(v.mem.books) = Len(w.mem.books)
         /\ Overdue(v.mem) = {}
         /\ FewerBookings(v.mem, w.mem)
<1> DEFINE U == Unlocked(w.mem, F)
           D == Overdue(w.mem)
           ms == Freed(w.mem.spots, U)
           ds == Freed(w.db.spots, U)
           u == Parts(ms, w.mem.active, w.mem.books, ds, w.db.active, w.db.books)
<1>1. w \in Worlds
  BY DEF Good
<1>2. v = Parts(ms, w.mem.active, Resolved(w.mem.books, D, "NoShow"),
                ds, w.db.active, Resolved(w.db.books, Written(D, F), "NoShow"))
  BY <1>1, ExpireBookingsParts
<1>3. \A i \in D : /\ i \in Indices(w.mem) /\ w.mem.books[i].st = "Booked"
                  /\ Deadline(w.mem.books[i]) <= now
  BY DEF Overdue
<1>4. \A s \in U : \E j \in D : s = w.mem.books[j].spot /\ HeldBy(w.mem.spots[s], w.mem.books[j].plate)
  BY DEF Unlocked
<1>5. U \in SUBSET Spots /\ \A s \in U : w.mem.spots[s].st = "Reserved"
  BY <1>1, <1>3, <1>4, BookFacts, BookingFields DEF HeldBy
<1>6. ASSUME NEW i \in Live(w.mem, now, W)
      PROVE  w.mem.books[i].spot \notin U
  <2> SUFFICES ASSUME w.mem.books[i].spot \in U
               PROVE  FALSE
    OBVIOUS
  <2>1. PICK j \in D : /\ w.mem.books[i].spot = w.mem.books[j].spot
                       /\ HeldBy(w.mem.spots[w.mem.books[i].spot], w.mem.books[j].plate)
    BY <1>4
  <2>2. /\ w.mem.books[j].plate = w.mem.books[i].plate
        /\ i \in ActiveBookings(w.mem, w.mem.books[i].plate)
        /\ w.mem.books[i] \in Booking
    BY <2>1, LiveHolds
  <2>3. j \in ActiveBookings(w.mem, w.mem.books[i].plate)
    BY <1>3, <2>1, <2>2 DEF ActiveBookings
  <2>4. j = i
    BY <2>2, <2>3, BookingFields DEF Good, OneBooking
  <2>5. now < Deadline(w.mem.books[i]) /\ Deadline(w.mem.books[i]) \in Nat
    BY <2>2, BookingFields DEF Live
  <2>6. QED
    BY <1>3, <2>1, <2>4, <2>5
<1> HIDE DEF U, D
<1>7. Good(u, now, W, G)
  BY <1>5, <1>6, HoldsReleased
<1>8. /\ u.mem.spots = ms /\ u.mem.active = w.mem.active /\ u.mem.books = w.mem.books
      /\ u.db.spots = ds /\ u.db.active = w.db.active /\ u.db.books = w.db.books
  BY PartsAre
<1> HIDE DEF u, ms, ds
<1>9. v = Parts(u.mem.spots, u.mem.active, Resolved(u.mem.books, D, "NoShow"),
                u.db.spots, u.db.active, Resolved(u.db.books, Written(D, F), "NoShow"))
  BY <1>2, <1>8
<1>10. Good(v, now, W, G \union NoShows(v.mem))
  <2>1. Written(D, F) \subseteq D
    BY DEF Written
  <2>2. \A i \in D : /\ i \in Indices(u.mem) /\ u.mem.books[i].st = "Booked"
                    /\ Deadline(u.mem.books[i]) <= now
    BY <1>3, <1>8 DEF Indices
  <2>3. QED
    BY <1>7, <1>9, <2>1, <2>2, NoShowsNoted
<1>11. /\ v.mem.active = w.mem.active /\ v.mem.books = Resolved(w.mem.books, D, "NoShow")
  BY <1>2, PartsAre
<1>12. w.mem.books \in Seq(Booking)
  BY <1>1, WorldParts
<1>13. Len(v.mem.books) = Len(w.mem.books) /\ Indices(v.mem) = Indices(w.mem)
  BY <1>11, <1>12, Resolving DEF Indices
<1>13a. \A i \in Indices(w.mem) : i \in D => v.mem.books[i].st = "NoShow"
  BY <1>11, <1>12, ResolvedOne DEF Indices
<1>13b. \A i \in Indices(w.mem) : i \notin D => v.mem.books[i] = w.mem.books[i]
  BY <1>11, <1>12, ResolvedOne DEF Indices
<1>14. ASSUME NEW i \in Indices(v.mem), v.mem.books[i].st = "Booked"
       PROVE  /\ i \in Indices(w.mem) /\ i \notin D
              /\ v.mem.books[i] = w.mem.books[i]
  <2>1. i \in Indices(w.mem) /\ "Booked" # "NoShow"
    BY <1>13
  <2>2. i \notin D
    BY <1>13a, <1>14, <2>1
  <2>3. QED
    BY <1>13b, <2>1, <2>2
<1>15. Overdue(v.mem) = {}
  BY <1>14 DEF Overdue, D
<1>16. FewerBookings(v.mem, w.mem)
  BY <1>14 DEF FewerBookings, ActiveBookings
<1>17. QED
  BY <1>10, <1>11, <1>13, <1>15, <1>16

\* Both of them.
LEMMA SweptGood ==
  ASSUME now \in Nat, NEW w, NEW W, NEW G, Good(w, now, W, G), NEW F,
         NEW v, v = Swept(w, F)
  PROVE  /\ Good(v, now, W, G \union NoShows(v.mem))
         /\ v.mem.active = w.mem.active /\ Len(v.mem.books) = Len(w.mem.books)
         /\ Overdue(v.mem) = {}
         /\ FewerBookings(v.mem, w.mem)
<1> DEFINE u == ExpireReservations(w, F)
<1>1. /\ Good(u, now, W, G) /\ u.mem.active = w.mem.active /\ u.mem.books = w.mem.books
      /\ \A p : ActiveBookings(u.mem, p) = ActiveBookings(w.mem, p)
  BY ExpireReservationsGood
<1>2. v = ExpireBookings(u, F)
  BY DEF Swept
<1> HIDE DEF u
<1>3. /\ Good(v, now, W, G \union NoShows(v.mem))
      /\ v.mem.active = u.mem.active /\ Len(v.mem.books) = Len(u.mem.books)
      /\ Overdue(v.mem) = {}
      /\ FewerBookings(v.mem, u.mem)
  BY <1>1, <1>2, ExpireBookingsGood
<1>4. FewerBookings(v.mem, w.mem)
  BY <1>1, <1>3 DEF FewerBookings
<1>5. QED
  BY <1>1, <1>3, <1>4

-----------------------------------------------------------------------------
(***************************************************************************)
(* The calls keep a world good, whichever of their writes fail.            *)
(***************************************************************************)

\* The least of a set of numbers.
LEMMA FirstIs ==
  ASSUME NEW S \in SUBSET Nat, S # {}
  PROVE  First(S) \in S
<1>1. PICK x \in S : \A y \in S : ~(y < x)
  <2>1. IsWellFoundedOn(OpToRel(<, Nat), Nat)
    BY NatLessThanWellFounded
  <2>2. \E x \in S : \A y \in S : ~(<<y, x>> \in OpToRel(<, Nat))
    BY <2>1, WFMin
  <2>3. QED
    BY <2>2 DEF OpToRel
<1>2. \A y \in S : x <= y
  BY <1>1
<1>3. QED
  BY <1>2 DEF First

\* The row of the spot s is x in memory and y in the database.
RowsAt(w, s, x, y) ==
    Parts([w.mem.spots EXCEPT ![s] = x], w.mem.active, w.mem.books,
          [w.db.spots EXCEPT ![s] = y], w.db.active, w.db.books)

LEMMA RowsAtIs ==
  ASSUME NEW w \in Worlds, NEW s \in Spots, NEW x \in SpotRows, NEW y \in SpotRows,
         NEW v, v = RowsAt(w, s, x, y)
  PROVE  /\ v \in Worlds
         /\ v.mem.active = w.mem.active /\ v.db.active = w.db.active
         /\ v.mem.books = w.mem.books /\ v.db.books = w.db.books
         /\ v.mem.spots = [w.mem.spots EXCEPT ![s] = x]
         /\ v.db.spots = [w.db.spots EXCEPT ![s] = y]
         /\ v.mem.spots[s] = x /\ v.db.spots[s] = y
         /\ \A r \in Spots : r # s => /\ v.mem.spots[r] = w.mem.spots[r]
                                     /\ v.db.spots[r] = w.db.spots[r]
         /\ NoShows(v.mem) = NoShows(w.mem)
         /\ \A p : ActiveBookings(v.mem, p) = ActiveBookings(w.mem, p)
<1> DEFINE a == [w.mem.spots EXCEPT ![s] = x]
           c == [w.db.spots EXCEPT ![s] = y]
<1>1. a \in [Spots -> SpotRows] /\ c \in [Spots -> SpotRows]
  BY WorldParts
<1>2. /\ a[s] = x /\ c[s] = y
      /\ \A r \in Spots : r # s => a[r] = w.mem.spots[r] /\ c[r] = w.db.spots[r]
  BY WorldParts
<1>3. v = Parts(a, w.mem.active, w.mem.books, c, w.db.active, w.db.books)
  BY DEF RowsAt
<1> HIDE DEF a, c
<1>4. /\ v.mem.spots = a /\ v.mem.active = w.mem.active /\ v.mem.books = w.mem.books
      /\ v.db.spots = c /\ v.db.active = w.db.active /\ v.db.books = w.db.books
  BY <1>3, PartsAre
<1>5. v \in Worlds
  <2>1. /\ w.mem.active \in [Plates -> Spots \union {0}]
        /\ w.db.active \in [Plates -> Spots \union {0}]
        /\ w.mem.books \in Seq(Booking) /\ w.db.books \in Seq(Booking)
    BY WorldParts
  <2>2. Parts(a, w.mem.active, w.mem.books, c, w.db.active, w.db.books) \in Worlds
    BY <1>1, <2>1, PartsMake
  <2>3. QED
    BY <1>3, <2>2
<1>6. /\ NoShows(v.mem) = NoShows(w.mem)
      /\ \A p : ActiveBookings(v.mem, p) = ActiveBookings(w.mem, p)
  BY <1>4 DEF NoShows, ActiveBookings, Indices
<1>7. v.mem.spots = [w.mem.spots EXCEPT ![s] = x] /\ v.db.spots = [w.db.spots EXCEPT ![s] = y]
  BY <1>4 DEF a, c
<1>8. QED
  BY <1>2, <1>4, <1>5, <1>6, <1>7

LEMMA RowsAtHas ==
  ASSUME NEW w \in Worlds, NEW s \in Spots, NEW x \in SpotRows, NEW y \in SpotRows
  PROVE  /\ RowsAt(w, s, x, y) \in Worlds
         /\ RowsAt(w, s, x, y).mem.books = w.mem.books
         /\ RowsAt(w, s, x, y).db.books = w.db.books
         /\ RowsAt(w, s, x, y).mem.active = w.mem.active
         /\ RowsAt(w, s, x, y).db.active = w.db.active
         /\ RowsAt(w, s, x, y).mem.spots[s] = x
         /\ RowsAt(w, s, x, y).db.spots[s] = y
         /\ NoShows(RowsAt(w, s, x, y).mem) = NoShows(w.mem)
<1> DEFINE a == [w.mem.spots EXCEPT ![s] = x]
           c == [w.db.spots EXCEPT ![s] = y]
<1>1. a[s] = x /\ c[s] = y
  BY WorldParts
<1> HIDE DEF a, c
<1>2. RowsAt(w, s, x, y).mem.spots = a /\ RowsAt(w, s, x, y).db.spots = c
  BY PartsAre DEF RowsAt, a, c
<1>3. /\ RowsAt(w, s, x, y).mem.books = w.mem.books
      /\ RowsAt(w, s, x, y).db.books = w.db.books
      /\ RowsAt(w, s, x, y).mem.active = w.mem.active
      /\ RowsAt(w, s, x, y).db.active = w.db.active
  BY PartsAre DEF RowsAt
<1>4. RowsAt(w, s, x, y) \in Worlds
  BY RowsAtIs
<1>5. NoShows(RowsAt(w, s, x, y).mem) = NoShows(w.mem)
  BY <1>3 DEF NoShows, Indices
<1>6. QED
  BY <1>1, <1>2, <1>3, <1>4, <1>5

\* What a call writes of one spot.
Writing(w, s, x, y) == [w EXCEPT !.mem.spots[s] = x, !.db.spots[s] = y]
InMemory(w, s, x) == [w EXCEPT !.mem.spots[s] = x]
InDatabase(w, s, y) == [w EXCEPT !.db.spots[s] = y]

LEMMA RowsAre ==
  ASSUME NEW w \in Worlds, NEW s \in Spots, NEW x \in SpotRows, NEW y \in SpotRows
  PROVE  /\ Writing(w, s, x, y) = RowsAt(w, s, x, y)
         /\ Put(w, s, x) = RowsAt(w, s, x, x)
         /\ InMemory(w, s, x) = RowsAt(w, s, x, w.db.spots[s])
         /\ InDatabase(w, s, y) = RowsAt(w, s, w.mem.spots[s], y)
<1>1. ASSUME NEW a \in SpotRows, NEW c \in SpotRows
      PROVE  Writing(w, s, a, c) = RowsAt(w, s, a, c)
  <2> DEFINE ms == [w.mem.spots EXCEPT ![s] = a]
             ds == [w.db.spots EXCEPT ![s] = c]
             v == [w EXCEPT !.mem.spots = ms, !.db.spots = ds]
  <2>1. Writing(w, s, a, c) = v
    BY DEF Worlds, Copies, Writing
  <2>2. ms \in [Spots -> SpotRows] /\ ds \in [Spots -> SpotRows]
    BY WorldParts
  <2> HIDE DEF ms, ds
  <2>3. /\ v \in Worlds
        /\ v.mem.spots = ms /\ v.mem.active = w.mem.active /\ v.mem.books = w.mem.books
        /\ v.db.spots = ds /\ v.db.active = w.db.active /\ v.db.books = w.db.books
    BY <2>2 DEF Worlds, Copies
  <2> HIDE DEF v
  <2>4. v = Parts(ms, w.mem.active, w.mem.books, ds, w.db.active, w.db.books)
    BY <2>3, ByParts
  <2>5. QED
    BY <2>1, <2>4 DEF ms, ds, RowsAt
<1>2. /\ w.mem.spots \in [Spots -> SpotRows] /\ w.db.spots \in [Spots -> SpotRows]
      /\ [w.mem.spots EXCEPT ![s] = w.mem.spots[s]] = w.mem.spots
      /\ [w.db.spots EXCEPT ![s] = w.db.spots[s]] = w.db.spots
  BY WorldParts
<1>3. w.mem.spots[s] \in SpotRows /\ w.db.spots[s] \in SpotRows
  BY <1>2
<1>4. Put(w, s, x) = Writing(w, s, x, x)
  BY DEF Put, Writing
<1> DEFINE a == [w.mem.spots EXCEPT ![s] = x]
           c == [w.db.spots EXCEPT ![s] = y]
<1>5. a \in [Spots -> SpotRows] /\ c \in [Spots -> SpotRows]
  BY <1>2
<1>6. InMemory(w, s, x) = RowsAt(w, s, x, w.db.spots[s])
  <2> DEFINE v == [w EXCEPT !.mem.spots = a]
  <2>1. InMemory(w, s, x) = v
    BY DEF Worlds, Copies, InMemory
  <2> HIDE DEF a
  <2>2. /\ v \in Worlds
        /\ v.mem.spots = a /\ v.mem.active = w.mem.active /\ v.mem.books = w.mem.books
        /\ v.db.spots = w.db.spots /\ v.db.active = w.db.active /\ v.db.books = w.db.books
    BY <1>5 DEF Worlds, Copies
  <2> HIDE DEF v
  <2>3. v = Parts(a, w.mem.active, w.mem.books, w.db.spots, w.db.active, w.db.books)
    BY <2>2, ByParts
  <2>4. QED
    BY <1>2, <2>1, <2>3 DEF a, RowsAt
<1>7. InDatabase(w, s, y) = RowsAt(w, s, w.mem.spots[s], y)
  <2> DEFINE v == [w EXCEPT !.db.spots = c]
  <2>1. InDatabase(w, s, y) = v
    BY DEF Worlds, Copies, InDatabase
  <2> HIDE DEF c
  <2>2. /\ v \in Worlds
        /\ v.mem.spots = w.mem.spots /\ v.mem.active = w.mem.active /\ v.mem.books = w.mem.books
        /\ v.db.spots = c /\ v.db.active = w.db.active /\ v.db.books = w.db.books
    BY <1>5 DEF Worlds, Copies
  <2> HIDE DEF v
  <2>3. v = Parts(w.mem.spots, w.mem.active, w.mem.books, c, w.db.active, w.db.books)
    BY <2>2, ByParts
  <2>4. QED
    BY <1>2, <2>1, <2>3 DEF c, RowsAt
<1>8. QED
  BY <1>1, <1>4, <1>6, <1>7

\* The vehicle p is parked on the spot s, in both copies.
ParkedAt(w, p, s) ==
    Parts([w.mem.spots EXCEPT ![s] = Parked(p)], [w.mem.active EXCEPT ![p] = s], w.mem.books,
          [w.db.spots EXCEPT ![s] = Parked(p)], [w.db.active EXCEPT ![p] = s], w.db.books)

\* It has left.
LeftAt(w, p) ==
    Parts([w.mem.spots EXCEPT ![w.mem.active[p]] = Free], [w.mem.active EXCEPT ![p] = 0],
          w.mem.books,
          [w.db.spots EXCEPT ![w.mem.active[p]] = Free], [w.db.active EXCEPT ![p] = 0],
          w.db.books)

\* The booking b is made.
Made(w, b) ==
    Parts(w.mem.spots, w.mem.active, Append(w.mem.books, b),
          w.db.spots, w.db.active, Append(w.db.books, b))

\* What the calls write of entries.
LEMMA ActiveAre ==
  ASSUME NEW w \in Worlds, NEW p \in Plates, NEW s \in Spots \union {0}
  PROVE  [w EXCEPT !.mem.active[p] = s, !.db.active[p] = s] =
             Parts(w.mem.spots, [w.mem.active EXCEPT ![p] = s], w.mem.books,
                   w.db.spots, [w.db.active EXCEPT ![p] = s], w.db.books)
<1> DEFINE a == [w.mem.active EXCEPT ![p] = s]
           c == [w.db.active EXCEPT ![p] = s]
           v == [w EXCEPT !.mem.active = a, !.db.active = c]
<1>1. [w EXCEPT !.mem.active[p] = s, !.db.active[p] = s] = v
  BY DEF Worlds, Copies
<1>2. a \in [Plates -> Spots \union {0}] /\ c \in [Plates -> Spots \union {0}]
  BY WorldParts
<1> HIDE DEF a, c
<1>3. /\ v \in Worlds
      /\ v.mem.spots = w.mem.spots /\ v.mem.active = a /\ v.mem.books = w.mem.books
      /\ v.db.spots = w.db.spots /\ v.db.active = c /\ v.db.books = w.db.books
  BY <1>2 DEF Worlds, Copies
<1> HIDE DEF v
<1>4. v = Parts(w.mem.spots, a, w.mem.books, w.db.spots, c, w.db.books)
  BY <1>3, ByParts
<1>5. QED
  BY <1>1, <1>4 DEF a, c

LEMMA ParkedIs ==
  ASSUME NEW w \in Worlds, NEW p \in Plates, NEW s \in Spots
  PROVE  [Put(w, s, Parked(p)) EXCEPT !.mem.active[p] = s, !.db.active[p] = s] =
             ParkedAt(w, p, s)
<1> DEFINE u == RowsAt(w, s, Parked(p), Parked(p))
<1>1. Parked(p) \in SpotRows
  BY RowKinds
<1>2. Put(w, s, Parked(p)) = u
  BY <1>1, RowsAre
<1>3. /\ u \in Worlds
      /\ u.mem.active = w.mem.active /\ u.db.active = w.db.active
      /\ u.mem.books = w.mem.books /\ u.db.books = w.db.books
      /\ u.mem.spots = [w.mem.spots EXCEPT ![s] = Parked(p)]
      /\ u.db.spots = [w.db.spots EXCEPT ![s] = Parked(p)]
  BY <1>1, RowsAtIs
<1> HIDE DEF u
<1>4. [u EXCEPT !.mem.active[p] = s, !.db.active[p] = s] =
          Parts(u.mem.spots, [u.mem.active EXCEPT ![p] = s], u.mem.books,
                u.db.spots, [u.db.active EXCEPT ![p] = s], u.db.books)
  <2>1. u \in Worlds /\ s \in Spots \union {0}
    BY <1>3
  <2> HIDE DEF Spots
  <2>2. QED
    BY <2>1, ActiveAre
<1>5. QED
  BY <1>2, <1>3, <1>4 DEF ParkedAt

LEMMA LeftIs ==
  ASSUME NEW w \in Worlds, NEW p \in Plates, w.mem.active[p] # 0
  PROVE  Closed(w, p) = LeftAt(w, p)
<1> DEFINE s == w.mem.active[p]
           u == RowsAt(w, s, Free, Free)
<1>1. s \in Spots /\ Free \in SpotRows
  BY RowKinds, WorldParts
<1>2. Put(w, s, Free) = u
  BY <1>1, RowsAre
<1>3. /\ u \in Worlds
      /\ u.mem.active = w.mem.active /\ u.db.active = w.db.active
      /\ u.mem.books = w.mem.books /\ u.db.books = w.db.books
      /\ u.mem.spots = [w.mem.spots EXCEPT ![s] = Free]
      /\ u.db.spots = [w.db.spots EXCEPT ![s] = Free]
  BY <1>1, RowsAtIs
<1>4. Closed(w, p) = [Put(w, s, Free) EXCEPT !.mem.active[p] = 0, !.db.active[p] = 0]
  BY DEF Closed
<1> HIDE DEF u
<1>5. [u EXCEPT !.mem.active[p] = 0, !.db.active[p] = 0] =
          Parts(u.mem.spots, [u.mem.active EXCEPT ![p] = 0], u.mem.books,
                u.db.spots, [u.db.active EXCEPT ![p] = 0], u.db.books)
  <2>1. u \in Worlds /\ 0 \in Spots \union {0}
    BY <1>3
  <2>2. QED
    BY <2>1, ActiveAre
<1>6. QED
  BY <1>2, <1>3, <1>4, <1>5 DEF LeftAt

\* What they write of bookings.
LEMMA StatusOf ==
  ASSUME NEW books \in Seq(Booking), NEW i \in DOMAIN books,
         NEW x \in {"Booked", "CheckedIn", "Cancelled", "NoShow"}
  PROVE  [books EXCEPT ![i].st = x] \in Seq(Booking)
<1>1. books[i] \in Booking /\ i \in 1 .. Len(books)
  BY LenProperties, ElementOfSeq
<1>2. [books[i] EXCEPT !.st = x] \in Booking
  BY <1>1 DEF Booking
<1>3. [books EXCEPT ![i] = [books[i] EXCEPT !.st = x]] \in Seq(Booking)
  BY <1>1, <1>2, ExceptSeq
<1>4. QED
  BY <1>3

LEMMA SettledIs ==
  ASSUME NEW w \in Worlds, NEW i \in Indices(w.mem), i \in Indices(w.db),
         NEW x \in {"Booked", "CheckedIn", "Cancelled", "NoShow"}
  PROVE  [w EXCEPT !.mem.books[i].st = x, !.db.books[i].st = x] = SettledAs(w, i, x)
<1> DEFINE a == [w.mem.books EXCEPT ![i].st = x]
           c == [w.db.books EXCEPT ![i].st = x]
           v == [w EXCEPT !.mem.books = a, !.db.books = c]
<1>1. [w EXCEPT !.mem.books[i].st = x, !.db.books[i].st = x] = v
  BY DEF Worlds, Copies
<1>2. a \in Seq(Booking) /\ c \in Seq(Booking)
  BY WorldParts, StatusOf DEF Indices
<1> HIDE DEF a, c
<1>3. /\ v \in Worlds
      /\ v.mem.spots = w.mem.spots /\ v.mem.active = w.mem.active /\ v.mem.books = a
      /\ v.db.spots = w.db.spots /\ v.db.active = w.db.active /\ v.db.books = c
  BY <1>2 DEF Worlds, Copies
<1> HIDE DEF v
<1>4. v = Parts(w.mem.spots, w.mem.active, a, w.db.spots, w.db.active, c)
  BY <1>3, ByParts
<1>5. QED
  BY <1>1, <1>4 DEF a, c, SettledAs

LEMMA MadeIs ==
  ASSUME NEW w \in Worlds, NEW b \in Booking
  PROVE  [w EXCEPT !.mem.books = Append(@, b), !.db.books = Append(@, b)] = Made(w, b)
<1> DEFINE a == Append(w.mem.books, b)
           c == Append(w.db.books, b)
           v == [w EXCEPT !.mem.books = a, !.db.books = c]
<1>1. [w EXCEPT !.mem.books = Append(@, b), !.db.books = Append(@, b)] = v
  BY DEF Worlds, Copies
<1>2. a \in Seq(Booking) /\ c \in Seq(Booking)
  BY WorldParts, AppendProperties
<1> HIDE DEF a, c
<1>3. /\ v \in Worlds
      /\ v.mem.spots = w.mem.spots /\ v.mem.active = w.mem.active /\ v.mem.books = a
      /\ v.db.spots = w.db.spots /\ v.db.active = w.db.active /\ v.db.books = c
  BY <1>2 DEF Worlds, Copies
<1> HIDE DEF v
<1>4. v = Parts(w.mem.spots, w.mem.active, a, w.db.spots, w.db.active, c)
  BY <1>3, ByParts
<1>5. QED
  BY <1>1, <1>4 DEF a, c, Made

\* A check-in parks the vehicle on the spot and settles its booking.
CheckingIn(w, p, s, i) ==
    [Put(w, s, Parked(p)) EXCEPT
        !.mem.active[p] = s, !.db.active[p] = s,
        !.mem.books[i].st = "CheckedIn", !.db.books[i].st = "CheckedIn"]

LEMMA CheckedInIs ==
  ASSUME NEW w \in Worlds, NEW p \in Plates, NEW s \in Spots,
         NEW i \in Indices(w.mem), i \in Indices(w.db)
  PROVE  CheckingIn(w, p, s, i) = ParkedAt(SettledAs(w, i, "CheckedIn"), p, s)
<1> DEFINE u == ParkedAt(w, p, s)
           x == "CheckedIn"
           r == SettledAs(w, i, x)
<1>1. CheckingIn(w, p, s, i)
       = [[Put(w, s, Parked(p)) EXCEPT !.mem.active[p] = s, !.db.active[p] = s] EXCEPT
              !.mem.books[i].st = x, !.db.books[i].st = x]
  BY DEF CheckingIn
<1>2. [Put(w, s, Parked(p)) EXCEPT !.mem.active[p] = s, !.db.active[p] = s] = u
  BY ParkedIs
<1>3. /\ u.mem.spots = [w.mem.spots EXCEPT ![s] = Parked(p)]
      /\ u.mem.active = [w.mem.active EXCEPT ![p] = s] /\ u.mem.books = w.mem.books
      /\ u.db.spots = [w.db.spots EXCEPT ![s] = Parked(p)]
      /\ u.db.active = [w.db.active EXCEPT ![p] = s] /\ u.db.books = w.db.books
  BY PartsAre DEF ParkedAt
<1>4. u \in Worlds
  <2> DEFINE ms == [w.mem.spots EXCEPT ![s] = Parked(p)]
             ds == [w.db.spots EXCEPT ![s] = Parked(p)]
             ma == [w.mem.active EXCEPT ![p] = s]
             da == [w.db.active EXCEPT ![p] = s]
  <2>1. /\ ms \in [Spots -> SpotRows] /\ ds \in [Spots -> SpotRows]
        /\ ma \in [Plates -> Spots \union {0}] /\ da \in [Plates -> Spots \union {0}]
    BY RowKinds, WorldParts
  <2>2. w.mem.books \in Seq(Booking) /\ w.db.books \in Seq(Booking)
    BY WorldParts
  <2> HIDE DEF ms, ds, ma, da
  <2>3. Parts(ms, ma, w.mem.books, ds, da, w.db.books) \in Worlds
    BY <2>1, <2>2, PartsMake
  <2>4. QED
    BY <2>3 DEF ms, ds, ma, da, ParkedAt
<1>5. /\ r.mem.spots = w.mem.spots /\ r.mem.active = w.mem.active
      /\ r.mem.books = [w.mem.books EXCEPT ![i].st = x]
      /\ r.db.spots = w.db.spots /\ r.db.active = w.db.active
      /\ r.db.books = [w.db.books EXCEPT ![i].st = x]
  BY PartsAre DEF SettledAs
<1> HIDE DEF u, r
<1>6. [u EXCEPT !.mem.books[i].st = x, !.db.books[i].st = x] = SettledAs(u, i, x)
  <2>1. i \in Indices(u.mem) /\ i \in Indices(u.db)
    BY <1>3 DEF Indices
  <2>2. QED
    BY <1>4, <2>1, SettledIs
<1>7. SettledAs(u, i, x) = ParkedAt(r, p, s)
  BY <1>3, <1>5 DEF SettledAs, ParkedAt
<1>8. QED
  BY <1>1, <1>2, <1>6, <1>7 DEF r

-----------------------------------------------------------------------------
(***************************************************************************)
(* What the calls may do after that, as elementary changes.                *)
(***************************************************************************)

\* No spot, and no hold of p, comes from nowhere.
LEMMA Holders ==
  ASSUME NEW w \in Worlds, NEW p \in Plates
  PROVE  /\ HeldSpots(w.mem, p) \in SUBSET Nat
         /\ \A s \in HeldSpots(w.mem, p) : s \in Spots /\ HeldBy(w.mem.spots[s], p)
         /\ HeldSpots(w.mem, p) # {} => First(HeldSpots(w.mem, p)) \in HeldSpots(w.mem, p)
         /\ \A s \in Available(w.mem) : s \in Spots /\ w.mem.spots[s] = Free
<1>1. HeldSpots(w.mem, p) \in SUBSET Nat
  BY DEF HeldSpots, Spots
<1>2. HeldSpots(w.mem, p) # {} => First(HeldSpots(w.mem, p)) \in HeldSpots(w.mem, p)
  BY <1>1, FirstIs
<1>3. QED
  BY <1>1, <1>2 DEF HeldSpots, Available

LEMMA FirstBooking ==
  ASSUME NEW w \in Worlds, NEW p \in Plates, ActiveBookings(w.mem, p) # {}
  PROVE  First(ActiveBookings(w.mem, p)) \in ActiveBookings(w.mem, p)
<1>1. ActiveBookings(w.mem, p) \in SUBSET Nat
  BY BookFacts DEF ActiveBookings
<1>2. QED
  BY <1>1, FirstIs

\* The hold p takes.
AsksFor(p) == Held(p, now + Ttl)

Takes(w, v, p) ==
    \/ v = w
    \/ /\ w.mem.active[p] = 0 /\ HeldSpots(w.mem, p) = {}
       /\ \E s \in Available(w.mem) : v = RowsAt(w, s, AsksFor(p), AsksFor(p))

LEMMA ReservedCases ==
  ASSUME NEW w0, NEW p \in Plates, NEW F, NEW w \in Worlds, w = Swept(w0, F),
         now \in Nat, NEW v \in Reserved(w0, p, F)
  PROVE  Takes(w, v, p)
<1>1. AsksFor(p) \in SpotRows
  BY BookingAssumption, RowKinds DEF AsksFor
<1>2. v = w \/ /\ w.mem.active[p] = 0 /\ HeldSpots(w.mem, p) = {}
               /\ \E s \in Available(w.mem) : v = Put(w, s, AsksFor(p))
  BY DEF Reserved, Refusable, AsksFor
<1>3. \A s \in Available(w.mem) : Put(w, s, AsksFor(p)) = RowsAt(w, s, AsksFor(p), AsksFor(p))
  BY <1>1, Holders, RowsAre
<1>4. QED
  BY <1>2, <1>3 DEF Takes

\* The spots p may park on.
Open(w, p) == {s \in Spots : \/ HeldBy(w.mem.spots[s], p)
                             \/ HeldSpots(w.mem, p) = {} /\ w.mem.spots[s] = Free}

LEMMA EnteredCases ==
  ASSUME NEW w0, NEW p \in Plates, NEW F, NEW w \in Worlds, w = Swept(w0, F),
         NEW v \in Entered(w0, p, F)
  PROVE  \/ v = w
         \/ /\ w.mem.active[p] = 0
            /\ \E s \in Open(w, p) :
                   \/ F # {} /\ v = RowsAt(w, s, Free, w.db.spots[s])
                   \/ v = ParkedAt(w, p, s)
<1> DEFINE held == HeldSpots(w.mem, p)
           open == IF held = {} THEN Available(w.mem) ELSE {First(held)}
<1>1. \A s \in open : s \in Open(w, p) /\ s \in Spots
  BY Holders DEF Open
<1>2. \/ v = w
      \/ /\ w.mem.active[p] = 0
         /\ \E s \in open :
                \/ Own(1) \in F /\ v = InMemory(w, s, Free)
                \/ v = [Put(w, s, Parked(p)) EXCEPT !.mem.active[p] = s, !.db.active[p] = s]
  BY DEF Entered, Refusable, InMemory
<1> HIDE DEF open
<1>3. \A s \in Spots : InMemory(w, s, Free) = RowsAt(w, s, Free, w.db.spots[s])
  <2> TAKE s \in Spots
  <2>1. Free \in SpotRows
    BY RowKinds
  <2>2. QED
    BY <2>1, RowsAre
<1>4. \A s \in Spots :
          [Put(w, s, Parked(p)) EXCEPT !.mem.active[p] = s, !.db.active[p] = s] =
              ParkedAt(w, p, s)
  BY ParkedIs
<1>5. CASE /\ w.mem.active[p] = 0
           /\ \E s \in open :
                  \/ Own(1) \in F /\ v = InMemory(w, s, Free)
                  \/ v = [Put(w, s, Parked(p)) EXCEPT !.mem.active[p] = s, !.db.active[p] = s]
  <2>1. PICK s \in open :
            \/ Own(1) \in F /\ v = InMemory(w, s, Free)
            \/ v = [Put(w, s, Parked(p)) EXCEPT !.mem.active[p] = s, !.db.active[p] = s]
    BY <1>5
  <2>2. s \in Open(w, p) /\ s \in Spots
    BY <1>1
  <2>3. \/ F # {} /\ v = RowsAt(w, s, Free, w.db.spots[s])
        \/ v = ParkedAt(w, p, s)
    BY <1>3, <1>4, <2>1, <2>2, Zenon
  <2>4. QED
    BY <1>5, <2>2, <2>3
<1>6. QED
  BY <1>2, <1>5

LEMMA LeftCases ==
  ASSUME NEW w0, NEW p \in Plates, NEW F, NEW w \in Worlds, w = Swept(w0, F),
         NEW v \in Left(w0, p, F)
  PROVE  \/ v = w
         \/ w.mem.active[p] # 0 /\ v = LeftAt(w, p)
<1>1. \/ v = w
      \/ w.mem.active[p] # 0 /\ v = Closed(w, p)
  BY DEF Left
<1>2. QED
  BY <1>1, LeftIs

LEMMA ReleasedCases ==
  ASSUME NEW w \in Worlds, Occupancy(w.mem), NEW s \in Spots, NEW F, NEW v \in Released(w, s, F)
  PROVE  \/ v = w
         \/ \E p \in Plates : /\ w.mem.spots[s] = Parked(p) /\ w.mem.active[p] = s
                             /\ v = LeftAt(w, p)
         \/ w.mem.spots[s].st = "Reserved" /\ v = RowsAt(w, s, Free, Free)
<1> DEFINE x == w.mem.spots[s]
<1>1. x \in SpotRows /\ Free \in SpotRows
  BY WorldParts, RowKinds
<1>2. \/ v = w
      \/ x.st = "Occupied" /\ v = Closed(w, x.by)
      \/ x.st # "Available" /\ x.st # "Occupied" /\ v = Put(w, s, Free)
  BY DEF Released
<1>3. x.st \in {"Available", "Reserved", "Occupied"}
  BY <1>1, RowCases
<1>4. CASE x.st = "Occupied" /\ v = Closed(w, x.by)
  <2>1. x.by \in Plates /\ x = Parked(x.by)
    BY <1>1, <1>4, RowCases
  <2>2. w.mem.active[x.by] = s /\ s # 0
    BY <1>4 DEF Occupancy, Spots
  <2>3. v = LeftAt(w, x.by)
    BY <1>4, <2>1, <2>2, LeftIs
  <2>4. QED
    BY <2>1, <2>2, <2>3
<1>5. Put(w, s, Free) = RowsAt(w, s, Free, Free)
  BY <1>1, RowsAre
<1>6. QED
  BY <1>2, <1>3, <1>4, <1>5

LEMMA HoldCancelledCases ==
  ASSUME NEW w \in Worlds, NEW p \in Plates, NEW F, NEW v \in HoldCancelled(w, p, F)
  PROVE  v = w \/ \E s \in HeldSpots(w.mem, p) : v = RowsAt(w, s, Free, Free)
<1>1. v = w \/ \E s \in HeldSpots(w.mem, p) : v = Put(w, s, Free)
  BY Holders DEF HoldCancelled
<1>2. \A s \in HeldSpots(w.mem, p) : Put(w, s, Free) = RowsAt(w, s, Free, Free)
  BY Holders, RowKinds, RowsAre
<1>3. QED
  BY <1>1, <1>2

LEMMA RetypedCases ==
  ASSUME NEW w0, NEW p \in Plates, NEW F, NEW w \in Worlds,
         w = ExpireReservations(ExpireBookings(w0, F), F), NEW v \in Retyped(w0, p, F)
  PROVE  v = w \/ \E s \in Spots : v = RowsAt(w, s, w.mem.spots[s], w.mem.spots[s])
<1>1. v = w \/ \E s \in Spots : v = InDatabase(w, s, w.mem.spots[s])
  BY DEF Retyped, InDatabase
<1>2. ASSUME NEW s \in Spots
      PROVE  InDatabase(w, s, w.mem.spots[s])
                 = RowsAt(w, s, w.mem.spots[s], w.mem.spots[s])
  <2>1. w.mem.spots[s] \in SpotRows
    BY WorldParts
  <2>2. QED
    BY <2>1, RowsAre
<1>3. QED
  BY <1>1, <1>2, Zenon

\* The booking p makes on the spot s.
BookingOf(p, lead, s) == [plate |-> p, spot |-> s, arrival |-> now + lead, st |-> "Booked"]

LEMMA LockedIs ==
  ASSUME NEW w \in Worlds, NEW s \in Spots, w.mem.spots[s] = Free, NEW b \in Booking,
         NEW u, u = Put(w, s, Hold(b))
  PROVE  /\ u = RowsAt(w, s, Hold(b), Hold(b))
         /\ u \in Worlds /\ u.db.spots[s] = Hold(b)
         /\ \A y \in {Free, Hold(b)} : InDatabase(w, s, y) = RowsAt(w, s, Free, y)
<1>1. Hold(b) \in SpotRows /\ Free \in SpotRows
  BY BookingFields, RowKinds
<1>2. u = RowsAt(w, s, Hold(b), Hold(b))
  BY <1>1, RowsAre
<1> DEFINE x == Hold(b)
<1>3. u \in Worlds /\ u.db.spots[s] = x
  <2>1. x \in SpotRows /\ u = RowsAt(w, s, x, x)
    BY <1>1, <1>2
  <2> HIDE DEF x
  <2>2. RowsAt(w, s, x, x) \in Worlds
    BY <2>1, RowsAtIs
  <2>3. RowsAt(w, s, x, x).db.spots[s] = x
    BY <2>1, RowsAtHas
  <2>4. QED
    BY <2>1, <2>2, <2>3
<1>4. ASSUME NEW y \in SpotRows
      PROVE  InDatabase(w, s, y) = RowsAt(w, s, Free, y)
  BY RowsAre
<1>5. QED
  BY <1>1, <1>2, <1>3, <1>4

LEMMA CreatedCases ==
  ASSUME NEW w0, NEW p \in Plates, NEW lead \in Leads, NEW F,
         NEW w \in Worlds, w = ExpireBookings(w0, F),
         now \in Nat, NEW v \in Created(w0, p, lead, F)
  PROVE  \/ v = w
         \/ /\ Bookable(w.mem, p)
            /\ \E s \in Available(w.mem) :
                   LET b == BookingOf(p, lead, s) IN
                   /\ b \in Booking
                   /\ \/ F # {} /\ \E y \in {Free, Hold(b)} : v = RowsAt(w, s, Free, y)
                      \/ v = Made(RowsAt(w, s, Hold(b), Hold(b)), b)
<1> DEFINE b(s) == BookingOf(p, lead, s)
           locked(s) == Put(w, s, Hold(b(s)))
<1>1. \/ v = w
      \/ /\ Bookable(w.mem, p)
         /\ \E s \in Available(w.mem) :
                \/ /\ F # {}
                   /\ \E y \in {Free, locked(s).db.spots[s]} : v = InDatabase(w, s, y)
                \/ v = [locked(s) EXCEPT !.mem.books = Append(@, b(s)),
                                        !.db.books = Append(@, b(s))]
  BY DEF Created, Refusable, InDatabase, BookingOf, Hold
<1>2. ASSUME NEW s \in Available(w.mem)
      PROVE  /\ s \in Spots /\ w.mem.spots[s] = Free
             /\ b(s) \in Booking
             /\ locked(s) = RowsAt(w, s, Hold(b(s)), Hold(b(s)))
             /\ locked(s) \in Worlds
             /\ locked(s).db.spots[s] = Hold(b(s))
             /\ \A y \in {Free, Hold(b(s))} : InDatabase(w, s, y) = RowsAt(w, s, Free, y)
  <2>1. s \in Spots /\ w.mem.spots[s] = Free
    BY Holders
  <2>2. b(s) \in Booking
    BY <2>1, BookingAssumption DEF Booking, BookingOf
  <2> HIDE DEF b
  <2>3. QED
    BY <2>1, <2>2, LockedIs
<1> HIDE DEF b, locked
<1>3. ASSUME NEW s \in Available(w.mem)
      PROVE  [locked(s) EXCEPT !.mem.books = Append(@, b(s)), !.db.books = Append(@, b(s))]
                 = Made(locked(s), b(s))
  BY <1>2, MadeIs
<1>4. ASSUME Bookable(w.mem, p), NEW s \in Available(w.mem),
             \/ /\ F # {}
                /\ \E y \in {Free, locked(s).db.spots[s]} : v = InDatabase(w, s, y)
             \/ v = Made(locked(s), b(s))
      PROVE  /\ b(s) \in Booking
             /\ \/ F # {} /\ \E y \in {Free, Hold(b(s))} : v = RowsAt(w, s, Free, y)
                \/ v = Made(RowsAt(w, s, Hold(b(s)), Hold(b(s))), b(s))
  BY <1>2, <1>4
<1>5. QED
  BY <1>1, <1>3, <1>4 DEF b

\* The booking of p that is confirmed or cancelled.
LEMMA OwnBooking ==
  ASSUME NEW w \in Worlds, Agree(w), NEW p \in Plates, NEW i \in ActiveBookings(w.mem, p)
  PROVE  /\ i \in Indices(w.mem) /\ i \in Indices(w.db)
         /\ w.mem.books[i] \in Booking /\ w.mem.books[i].plate = p
         /\ w.mem.books[i].st = "Booked" /\ w.mem.books[i].spot \in Spots
         /\ Hold(w.mem.books[i]) = Held(p, Deadline(w.mem.books[i]))
         /\ Hold(w.mem.books[i]) \in SpotRows
<1>1. /\ i \in Indices(w.mem) /\ i \in Indices(w.db)
      /\ w.mem.books[i].plate = p /\ w.mem.books[i].st = "Booked"
  BY DEF Agree, ActiveBookings
<1>2. w.mem.books[i] \in Booking
  BY <1>1, BookFacts
<1>3. QED
  BY <1>1, <1>2, BookingFields DEF Hold

\* What confirming it comes to.
CheckIn(w, v, p, i, s, F) ==
    LET b == w.mem.books[i] IN
    /\ now <= Deadline(b)
    /\ \/ /\ s # b.spot \/ F # {} \/ w.db.active[p] # 0
          /\ v = RowsAt(w, s, Hold(b), w.db.spots[s])
       \/ /\ s = b.spot /\ w.db.active[p] = 0
          /\ v = ParkedAt(SettledAs(w, i, "CheckedIn"), p, s)

LEMMA ConfirmedCases ==
  ASSUME NEW w0, NEW p \in Plates, NEW F, NEW w \in Worlds, Agree(w),
         w = BeforeConfirm(w0, F), now \in Nat, NEW v \in Confirmed(w0, p, F)
  PROVE  \/ v = w
         \/ \E i \in ActiveBookings(w.mem, p), s \in HeldSpots(w.mem, p) :
                CheckIn(w, v, p, i, s, F)
<1> DEFINE i == First(ActiveBookings(w.mem, p))
           b == w.mem.books[i]
           s == First(HeldSpots(w.mem, p))
           u == CheckingIn(w, p, s, i)
<1>1. \/ v = w
      \/ /\ ActiveBookings(w.mem, p) # {} /\ HeldSpots(w.mem, p) # {}
         /\ ~(now > Deadline(b))
         /\ \/ /\ s # b.spot \/ Own(1) \in F \/ w.db.active[p] # 0
               /\ v = Rehold(w, s, p, Deadline(b))
            \/ ~(s # b.spot \/ Own(1) \in F \/ w.db.active[p] # 0) /\ v = u
  BY DEF Confirmed, CheckingIn
<1>2. SUFFICES ASSUME v # w
               PROVE  \E j \in ActiveBookings(w.mem, p), r \in HeldSpots(w.mem, p) :
                          CheckIn(w, v, p, j, r, F)
  OBVIOUS
<1>3. i \in ActiveBookings(w.mem, p) /\ s \in HeldSpots(w.mem, p) /\ s \in Spots
  BY <1>1, <1>2, Holders, FirstBooking
<1> HIDE DEF i, s
<1>4. /\ i \in Indices(w.mem) /\ i \in Indices(w.db)
      /\ Hold(b) = Held(p, Deadline(b)) /\ Hold(b) \in SpotRows
      /\ Deadline(b) \in Nat
  BY <1>3, OwnBooking, BookingFields
<1>5. Rehold(w, s, p, Deadline(b)) = RowsAt(w, s, Hold(b), w.db.spots[s])
  <2>1. Rehold(w, s, p, Deadline(b)) = InMemory(w, s, Held(p, Deadline(b)))
    BY DEF Rehold, InMemory
  <2>2. QED
    BY <1>3, <1>4, <2>1, RowsAre
<1>6. u = ParkedAt(SettledAs(w, i, "CheckedIn"), p, s)
  BY <1>3, <1>4, CheckedInIs
<1> HIDE DEF u
<1>7. CheckIn(w, v, p, i, s, F)
  BY <1>1, <1>2, <1>4, <1>5, <1>6 DEF CheckIn
<1>8. QED
  BY <1>3, <1>7

\* What cancelling a booking comes to.
Withdrawal(w, v, p, i, F) ==
    LET b == w.mem.books[i]
        s == b.spot IN
    /\ now < b.arrival
    /\ \/ /\ HeldBy(w.mem.spots[s], p) /\ F # {}
          /\ \E y \in {w.db.spots[s], Free, Hold(b)} : v = RowsAt(w, s, Hold(b), y)
       \/ HeldBy(w.mem.spots[s], p) /\ v = SettledAs(RowsAt(w, s, Free, Free), i, "Cancelled")
       \/ ~HeldBy(w.mem.spots[s], p) /\ v = SettledAs(w, i, "Cancelled")

LEMMA CancelledCases ==
  ASSUME NEW w0, NEW p \in Plates, NEW F, NEW w \in Worlds, Agree(w),
         w = ExpireBookings(w0, F), now \in Nat, NEW v \in Cancelled(w0, p, F)
  PROVE  \/ v = w
         \/ \E i \in ActiveBookings(w.mem, p) : Withdrawal(w, v, p, i, F)
<1> DEFINE i == First(ActiveBookings(w.mem, p))
           b == w.mem.books[i]
           s == b.spot
           hold == Held(p, Deadline(b))
           free == Put(w, s, Free)
           end(u) == [u EXCEPT !.mem.books[i].st = "Cancelled", !.db.books[i].st = "Cancelled"]
<1>1. \/ v = w
      \/ /\ ActiveBookings(w.mem, p) # {} /\ ~(now >= b.arrival)
         /\ \/ /\ HeldBy(w.mem.spots[s], p) /\ F # {}
               /\ \/ v = InMemory(w, s, hold)
                  \/ \E y \in {Free, hold} : v = Writing(w, s, hold, y)
            \/ HeldBy(w.mem.spots[s], p) /\ v = end(free)
            \/ ~HeldBy(w.mem.spots[s], p) /\ v = end(w)
  BY DEF Cancelled, InMemory, Writing
<1>2. SUFFICES ASSUME v # w
               PROVE  \E j \in ActiveBookings(w.mem, p) : Withdrawal(w, v, p, j, F)
  OBVIOUS
<1>3. i \in ActiveBookings(w.mem, p)
  BY <1>1, <1>2, FirstBooking
<1> HIDE DEF i
<1>4. /\ i \in Indices(w.mem) /\ i \in Indices(w.db)
      /\ Hold(b) = hold /\ Hold(b) \in SpotRows /\ Free \in SpotRows /\ s \in Spots
      /\ b.arrival \in Nat
  BY <1>3, OwnBooking, BookingFields, RowKinds
<1>5. /\ InMemory(w, s, hold) = RowsAt(w, s, Hold(b), w.db.spots[s])
      /\ \A y \in {Free, hold} : Writing(w, s, hold, y) = RowsAt(w, s, Hold(b), y)
      /\ free = RowsAt(w, s, Free, Free)
  <2> DEFINE x == Hold(b)
  <2>1. x \in SpotRows /\ x = hold
    BY <1>4
  <2> HIDE DEF x
  <2>2. /\ InMemory(w, s, x) = RowsAt(w, s, x, w.db.spots[s])
        /\ free = RowsAt(w, s, Free, Free)
    BY <1>4, <2>1, RowsAre
  <2>3. ASSUME NEW y \in SpotRows
        PROVE  Writing(w, s, x, y) = RowsAt(w, s, x, y)
    BY <1>4, <2>1, RowsAre
  <2>4. QED
    BY <1>4, <2>1, <2>2, <2>3 DEF x
<1>6. end(w) = SettledAs(w, i, "Cancelled")
  BY <1>4, SettledIs
<1>7. end(free) = SettledAs(free, i, "Cancelled")
  <2>1. free \in Worlds /\ i \in Indices(free.mem) /\ i \in Indices(free.db)
    <3> DEFINE r == RowsAt(w, s, Free, Free)
    <3>1. r \in Worlds /\ r.mem.books = w.mem.books /\ r.db.books = w.db.books
      BY <1>4, RowsAtHas
    <3> HIDE DEF r
    <3>2. free = r
      BY <1>5 DEF r
    <3>3. QED
      BY <1>4, <3>1, <3>2 DEF Indices
  <2> HIDE DEF free
  <2>2. QED
    BY <2>1, SettledIs
<1> HIDE DEF end, free, hold
<1>8. ~(now >= b.arrival) => now < b.arrival
  BY <1>4
<1>9. now < b.arrival
  BY <1>1, <1>2, <1>8
<1>10. \/ /\ HeldBy(w.mem.spots[s], p) /\ F # {}
          /\ \E y \in {w.db.spots[s], Free, Hold(b)} : v = RowsAt(w, s, Hold(b), y)
       \/ HeldBy(w.mem.spots[s], p) /\ v = SettledAs(free, i, "Cancelled")
       \/ ~HeldBy(w.mem.spots[s], p) /\ v = SettledAs(w, i, "Cancelled")
  <2>1. CASE HeldBy(w.mem.spots[s], p) /\ F # {} /\ v = InMemory(w, s, hold)
    BY <1>5, <2>1
  <2>2. ASSUME HeldBy(w.mem.spots[s], p), F # {},
               NEW y \in {Free, hold}, v = Writing(w, s, hold, y)
        PROVE  v = RowsAt(w, s, Hold(b), y) /\ y \in {w.db.spots[s], Free, Hold(b)}
    BY <1>4, <1>5, <2>2
  <2>3. QED
    BY <1>1, <1>2, <1>6, <1>7, <2>1, <2>2
<1>11. Withdrawal(w, v, p, i, F)
  BY <1>5, <1>9, <1>10 DEF Withdrawal
<1>12. QED
  BY <1>3, <1>11

-----------------------------------------------------------------------------
(***************************************************************************)
(* The calls keep a world good, whichever of their writes fail.            *)
(***************************************************************************)
LEMMA Wider ==
  ASSUME NEW w, NEW t \in Nat, NEW W, NEW G, Good(w, t, W, G), NEW V, W \subseteq V
  PROVE  Good(w, t, V, G)
<1>1. Live(w.mem, t, V) \subseteq Live(w.mem, t, W)
  BY DEF Live
<1>2. Kept(w, t, V)
  BY <1>1 DEF Good, Kept
<1>3. Unused(w.mem, V, G)
  BY DEF Good, Unused
<1>4. QED
  BY <1>2, <1>3 DEF Good

\* One row changes, and nobody parks or leaves.
LEMMA RowGood ==
  ASSUME NEW w, NEW W, NEW G, now \in Nat, Good(w, now, W, G \union NoShows(w.mem)),
         NEW V, W \subseteq V,
         NEW s \in Spots, NEW x \in SpotRows, NEW y \in SpotRows, Alike(x, y),
         x.st # "Occupied", w.mem.spots[s].st # "Occupied",
         \A i \in Live(w.mem, now, V) :
             w.mem.books[i].spot = s => /\ Backs(x, w.mem.books[i])
                                        /\ Respects(y, w.mem.books[i]),
         NEW v, v = RowsAt(w, s, x, y)
  PROVE  Good(v, now, V, G \union NoShows(v.mem))
<1>1. w \in Worlds
  BY DEF Good
<1>2. v = Parts([w.mem.spots EXCEPT ![s] = x], w.mem.active, w.mem.books,
                [w.db.spots EXCEPT ![s] = y], w.db.active, w.db.books)
  BY DEF RowsAt
<1>3. Good(v, now, V, G \union NoShows(w.mem))
  BY <1>2, HoldChanges
<1>4. NoShows(v.mem) = NoShows(w.mem)
  BY <1>1, RowsAtHas
<1>5. QED
  BY <1>3, <1>4

\* A free spot is nobody's, and a hold is of one vehicle.
LEMMA FreeSpot ==
  ASSUME NEW w, NEW t \in Nat, NEW W, NEW G, Good(w, t, W, G),
         NEW V, W \subseteq V,
         NEW s \in Spots, w.mem.spots[s] = Free,
         NEW i \in Live(w.mem, t, V), w.mem.books[i].spot = s
  PROVE  FALSE
<1>1. i \in Live(w.mem, t, W)
  BY DEF Live
<1>2. w.mem.books[i] \in Booking /\ w.mem.spots[w.mem.books[i].spot] = Hold(w.mem.books[i])
  BY <1>1, LiveHolds
<1>3. QED
  BY <1>2, BookingFields

LEMMA ReservedGood ==
  ASSUME now \in Nat, NEW w0, NEW W, NEW G, Good(w0, now, W, G), NEW p \in Plates, NEW F,
         NEW v \in Reserved(w0, p, F)
  PROVE  Good(v, now, W, G \union NoShows(v.mem))
<1> DEFINE w == Swept(w0, F)
           x == AsksFor(p)
<1>1. Good(w, now, W, G \union NoShows(w.mem))
  BY SweptGood
<1>2. w \in Worlds
  BY <1>1 DEF Good
<1>3. Takes(w, v, p)
  BY <1>2, ReservedCases
<1>4. x \in SpotRows /\ x.st # "Occupied" /\ Alike(x, x)
  BY BookingAssumption, RowKinds DEF AsksFor, Alike
<1> HIDE DEF w, x
<1>5. ASSUME NEW s \in Available(w.mem), v = RowsAt(w, s, x, x)
      PROVE  Good(v, now, W, G \union NoShows(v.mem))
  <2>1. s \in Spots /\ w.mem.spots[s] = Free /\ w.mem.spots[s].st # "Occupied"
    BY <1>2, Holders, RowKinds
  <2>2. \A i \in Live(w.mem, now, W) : w.mem.books[i].spot # s
    BY <1>1, <2>1, FreeSpot
  <2>3. QED
    BY <1>1, <1>4, <1>5, <2>1, <2>2, RowGood
<1>6. QED
  BY <1>1, <1>3, <1>5 DEF Takes, x

LEMMA EnteredGood ==
  ASSUME now \in Nat, NEW w0, NEW W, NEW G, Good(w0, now, W, G), NEW p \in Plates, NEW F,
         NEW v \in Entered(w0, p, F)
  PROVE  Good(v, now, W \union ActiveBookings(w0.mem, p), G \union NoShows(v.mem))
<1> DEFINE w == Swept(w0, F)
           V == W \union ActiveBookings(w0.mem, p)
<1>1. Good(w, now, W, G \union NoShows(w.mem)) /\ FewerBookings(w.mem, w0.mem)
  BY SweptGood
<1>2. w \in Worlds /\ Agree(w)
  BY <1>1 DEF Good
<1>3. \/ v = w
      \/ /\ w.mem.active[p] = 0
         /\ \E s \in Open(w, p) :
                \/ v = RowsAt(w, s, Free, w.db.spots[s])
                \/ v = ParkedAt(w, p, s)
  BY <1>2, EnteredCases
<1>4. ActiveBookings(w.mem, p) \subseteq V
  BY <1>1 DEF FewerBookings
<1> HIDE DEF w
<1>5. Good(w, now, V, G \union NoShows(w.mem))
  BY <1>1, Wider
<1>6. ASSUME NEW s \in Open(w, p)
      PROVE  /\ s \in Spots
             /\ w.mem.spots[s] = Free \/ HeldBy(w.mem.spots[s], p)
             /\ w.mem.spots[s].st # "Occupied"
             /\ w.mem.spots[s] \in SpotRows /\ w.db.spots[s] \in SpotRows
             /\ Alike(w.mem.spots[s], w.db.spots[s])
  BY <1>2, WorldParts, RowKinds DEF Open, Agree, HeldBy
<1> HIDE DEF V
<1>7. ASSUME NEW s \in Open(w, p), v = RowsAt(w, s, Free, w.db.spots[s])
      PROVE  Good(v, now, V, G \union NoShows(v.mem))
  <2>1. Alike(Free, w.db.spots[s])
    BY <1>6, RowKinds, RowCases DEF Alike, HeldBy
  <2>2. \A i \in Live(w.mem, now, V) : w.mem.books[i].spot # s
    <3>1. TAKE i \in Live(w.mem, now, V)
    <3>2. /\ i \in ActiveBookings(w.mem, w.mem.books[i].plate) /\ w.mem.books[i] \in Booking
          /\ w.mem.spots[w.mem.books[i].spot] = Hold(w.mem.books[i])
      BY <1>5, LiveHolds
    <3>3. i \notin V
      BY DEF Live
    <3>4. QED
      BY <1>4, <1>6, <3>2, <3>3, BookingFields
  <2> DEFINE y == w.db.spots[s]
  <2>3. /\ Free \in SpotRows /\ Free.st # "Occupied" /\ V \subseteq V
        /\ y \in SpotRows /\ Alike(Free, y) /\ v = RowsAt(w, s, Free, y)
        /\ s \in Spots /\ w.mem.spots[s].st # "Occupied"
    BY <1>6, <1>7, <2>1, RowKinds
  <2> HIDE DEF y
  <2>4. QED
    BY <1>5, <2>2, <2>3, RowGood
<1>8. ASSUME w.mem.active[p] = 0, NEW s \in Open(w, p), v = ParkedAt(w, p, s)
      PROVE  Good(v, now, V, G \union NoShows(v.mem))
  <2>1. Good(v, now, V, G \union NoShows(w.mem))
    <3>1. v = Parts([w.mem.spots EXCEPT ![s] = Parked(p)],
                    [w.mem.active EXCEPT ![p] = s], w.mem.books,
                    [w.db.spots EXCEPT ![s] = Parked(p)],
                    [w.db.active EXCEPT ![p] = s], w.db.books)
      BY <1>8 DEF ParkedAt
    <3>2. QED
      BY <1>4, <1>5, <1>6, <1>8, <3>1, Parks
  <2>2. v.mem.books = w.mem.books
    BY <1>8, PartsAre DEF ParkedAt
  <2>3. QED
    BY <2>1, <2>2 DEF NoShows, Indices
<1>9. Good(v, now, V, G \union NoShows(v.mem))
  BY <1>3, <1>5, <1>7, <1>8
<1>10. QED
  BY <1>9 DEF V

LEMMA LeavingGood ==
  ASSUME NEW w, NEW W, NEW G, now \in Nat, Good(w, now, W, G \union NoShows(w.mem)),
         NEW p \in Plates, w.mem.active[p] # 0, NEW v, v = LeftAt(w, p)
  PROVE  Good(v, now, W, G \union NoShows(v.mem))
<1>1. Good(v, now, W, G \union NoShows(w.mem))
  BY Closes DEF LeftAt
<1>2. v.mem.books = w.mem.books
  BY PartsAre DEF LeftAt
<1>3. QED
  BY <1>1, <1>2 DEF NoShows, Indices

LEMMA LeftGood ==
  ASSUME now \in Nat, NEW w0, NEW W, NEW G, Good(w0, now, W, G), NEW p \in Plates, NEW F,
         NEW v \in Left(w0, p, F)
  PROVE  Good(v, now, W, G \union NoShows(v.mem))
<1> DEFINE w == Swept(w0, F)
<1>1. Good(w, now, W, G \union NoShows(w.mem))
  BY SweptGood
<1>2. w \in Worlds
  BY <1>1 DEF Good
<1>3. \/ v = w
      \/ w.mem.active[p] # 0 /\ v = LeftAt(w, p)
  BY <1>2, LeftCases
<1> HIDE DEF w
<1>4. QED
  BY <1>1, <1>3, LeavingGood

\* The bookings of the vehicle that holds a spot are given up with it.
LEMMA GivenUp ==
  ASSUME NEW w, NEW t \in Nat, NEW W, NEW G, Good(w, t, W, G),
         NEW p, NEW V, W \subseteq V, ActiveBookings(w.mem, p) \subseteq V,
         NEW s \in Spots, HeldBy(w.mem.spots[s], p),
         NEW i \in Live(w.mem, t, V), w.mem.books[i].spot = s
  PROVE  FALSE
<1>1. i \in Live(w.mem, t, W) /\ i \notin V
  BY DEF Live
<1>2. /\ i \in ActiveBookings(w.mem, w.mem.books[i].plate)
      /\ \A q : HeldBy(w.mem.spots[w.mem.books[i].spot], q) => q = w.mem.books[i].plate
  BY <1>1, LiveHolds
<1>3. QED
  BY <1>1, <1>2

LEMMA HoldGivenUp ==
  ASSUME NEW w, NEW W, NEW G, now \in Nat, Good(w, now, W, G),
         NEW p, NEW V, V = W \union ActiveBookings(w.mem, p),
         NEW s \in Spots, HeldBy(w.mem.spots[s], p), NEW v, v = RowsAt(w, s, Free, Free)
  PROVE  Good(v, now, V, G \union NoShows(v.mem))
<1>1. G \union NoShows(w.mem) = G
  BY DEF Good, Forfeits
<1>2. Good(w, now, W, G \union NoShows(w.mem))
  BY <1>1
<1>3. \A i \in Live(w.mem, now, V) : w.mem.books[i].spot # s
  BY GivenUp
<1>4. /\ Free \in SpotRows /\ Free.st # "Occupied" /\ Alike(Free, Free)
      /\ w.mem.spots[s].st # "Occupied" /\ W \subseteq V
  BY RowKinds DEF Alike, HeldBy
<1>5. QED
  BY <1>2, <1>3, <1>4, RowGood

\* What the release of a spot gives up.
Waives(w, s) ==
    IF w.mem.spots[s].st = "Occupied" THEN {} ELSE ActiveBookings(w.mem, w.mem.spots[s].by)

LEMMA ReleasedGood ==
  ASSUME now \in Nat, NEW w, NEW W, NEW G, Good(w, now, W, G), NEW s \in Spots, NEW F,
         NEW v \in Released(w, s, F)
  PROVE  Good(v, now, W \union Waives(w, s), G \union NoShows(v.mem))
<1>1. w \in Worlds /\ Occupancy(w.mem) /\ G \union NoShows(w.mem) = G
  BY DEF Good, Forfeits
<1>2. CASE v = w
  BY <1>1, <1>2, Wider
<1>3. CASE \E p \in Plates : /\ w.mem.spots[s] = Parked(p) /\ w.mem.active[p] = s
                            /\ v = LeftAt(w, p)
  <2>1. PICK p \in Plates : /\ w.mem.spots[s] = Parked(p) /\ w.mem.active[p] = s
                            /\ v = LeftAt(w, p)
    BY <1>3
  <2>2. w.mem.active[p] # 0 /\ Waives(w, s) = {}
    BY <2>1, RowKinds DEF Spots, Waives
  <2>3. Good(v, now, W, G \union NoShows(v.mem))
    BY <1>1, <2>1, <2>2, LeavingGood
  <2>4. QED
    BY <2>2, <2>3
<1>4. CASE w.mem.spots[s].st = "Reserved" /\ v = RowsAt(w, s, Free, Free)
  <2> DEFINE p == w.mem.spots[s].by
  <2>1. HeldBy(w.mem.spots[s], p) /\ Waives(w, s) = ActiveBookings(w.mem, p)
    BY <1>4 DEF HeldBy, Waives
  <2> HIDE DEF p
  <2>2. QED
    BY <1>4, <2>1, HoldGivenUp
<1>5. QED
  BY <1>1, <1>2, <1>3, <1>4, ReleasedCases

LEMMA HoldCancelledGood ==
  ASSUME now \in Nat, NEW w, NEW W, NEW G, Good(w, now, W, G), NEW p \in Plates, NEW F,
         NEW v \in HoldCancelled(w, p, F)
  PROVE  Good(v, now, W \union ActiveBookings(w.mem, p), G \union NoShows(v.mem))
<1>1. w \in Worlds /\ G \union NoShows(w.mem) = G
  BY DEF Good, Forfeits
<1>2. v = w \/ \E s \in HeldSpots(w.mem, p) : v = RowsAt(w, s, Free, Free)
  BY <1>1, HoldCancelledCases
<1>3. CASE v = w
  BY <1>1, <1>3, Wider
<1>4. ASSUME NEW s \in HeldSpots(w.mem, p), v = RowsAt(w, s, Free, Free)
      PROVE  Good(v, now, W \union ActiveBookings(w.mem, p), G \union NoShows(v.mem))
  BY <1>1, <1>4, Holders, HoldGivenUp
<1>5. QED
  BY <1>2, <1>3, <1>4

\* A row written again.
LEMMA SameRows ==
  ASSUME NEW w \in Worlds, NEW s \in Spots
  PROVE  RowsAt(w, s, w.mem.spots[s], w.db.spots[s]) = w
<1>1. /\ [w.mem.spots EXCEPT ![s] = w.mem.spots[s]] = w.mem.spots
      /\ [w.db.spots EXCEPT ![s] = w.db.spots[s]] = w.db.spots
  BY WorldParts
<1>2. QED
  BY <1>1, WorldParts DEF RowsAt

LEMMA RetypedGood ==
  ASSUME now \in Nat, NEW w0, NEW W, NEW G, Good(w0, now, W, G), NEW p \in Plates, NEW F,
         NEW v \in Retyped(w0, p, F)
  PROVE  Good(v, now, W, G \union NoShows(v.mem))
<1> DEFINE u == ExpireBookings(w0, F)
           w == ExpireReservations(u, F)
<1>1. Good(u, now, W, G \union NoShows(u.mem))
  BY ExpireBookingsGood
<1>2. Good(w, now, W, G \union NoShows(u.mem)) /\ w.mem.books = u.mem.books
  BY <1>1, ExpireReservationsGood
<1>3. Good(w, now, W, G \union NoShows(w.mem))
  BY <1>2 DEF NoShows, Indices
<1>4. w \in Worlds /\ Agree(w) /\ Kept(w, now, W)
  BY <1>3 DEF Good
<1>5. v = w \/ \E s \in Spots : v = RowsAt(w, s, w.mem.spots[s], w.mem.spots[s])
  BY <1>4, RetypedCases
<1> HIDE DEF w
<1>6. ASSUME NEW s \in Spots, v = RowsAt(w, s, w.mem.spots[s], w.mem.spots[s])
      PROVE  Good(v, now, W, G \union NoShows(v.mem))
  <2> DEFINE x == w.mem.spots[s]
  <2>1. /\ x \in SpotRows /\ w.db.spots[s] \in SpotRows /\ Alike(x, w.db.spots[s])
        /\ Alike(x, x)
    BY <1>4, WorldParts DEF Agree, Alike
  <2>2. CASE x.st = "Occupied"
    <3>1. w.db.spots[s] = x
      BY <2>1, <2>2, AlikeRows
    <3>2. v = w
      BY <1>4, <1>6, <3>1, SameRows
    <3>3. QED
      BY <1>3, <3>2
  <2>3. CASE x.st # "Occupied"
    <3>1. \A i \in Live(w.mem, now, W) :
              w.mem.books[i].spot = s => Backs(x, w.mem.books[i]) /\ Respects(x, w.mem.books[i])
      BY <1>4 DEF Kept, Backs, Respects
    <3>2. v = RowsAt(w, s, x, x) /\ x.st # "Occupied" /\ w.mem.spots[s].st # "Occupied"
      BY <1>6, <2>3
    <3> HIDE DEF x
    <3>3. QED
      BY <1>3, <2>1, <3>1, <3>2, RowGood
  <2>4. QED
    BY <2>2, <2>3
<1>7. QED
  BY <1>3, <1>5, <1>6

LEMMA CreatedGood ==
  ASSUME now \in Nat, NEW w0, NEW W, NEW G, Good(w0, now, W, G), NEW p \in Plates,
         NEW lead \in Leads, NEW F, Len(w0.mem.books) < MaxBookings,
         NEW v \in Created(w0, p, lead, F)
  PROVE  Good(v, now, W, G \union NoShows(v.mem))
<1> DEFINE w == ExpireBookings(w0, F)
<1>1. /\ Good(w, now, W, G \union NoShows(w.mem))
      /\ Len(w.mem.books) < MaxBookings
  BY ExpireBookingsGood
<1>2. w \in Worlds
  BY <1>1 DEF Good
<1>3. \/ v = w
      \/ /\ Bookable(w.mem, p)
         /\ \E s \in Available(w.mem) :
                LET b == BookingOf(p, lead, s) IN
                /\ b \in Booking
                /\ \/ \E y \in {Free, Hold(b)} : v = RowsAt(w, s, Free, y)
                   \/ v = Made(RowsAt(w, s, Hold(b), Hold(b)), b)
  BY <1>2, CreatedCases
<1> HIDE DEF w
<1>4. ASSUME NEW s \in Available(w.mem), NEW b \in Booking, NEW x \in {Free, Hold(b)},
             NEW y \in {Free, Hold(b)}, Alike(x, y), NEW u, u = RowsAt(w, s, x, y)
      PROVE  Good(u, now, W, G \union NoShows(u.mem))
  <2>1. s \in Spots /\ w.mem.spots[s] = Free /\ w.mem.spots[s].st # "Occupied"
    BY <1>2, Holders, RowKinds
  <2>2. \A i \in Live(w.mem, now, W) : w.mem.books[i].spot # s
    BY <1>1, <2>1, FreeSpot
  <2>3. x \in SpotRows /\ y \in SpotRows /\ x.st # "Occupied" /\ W \subseteq W
    BY BookingFields, RowKinds
  <2>4. QED
    BY <1>1, <1>4, <2>1, <2>2, <2>3, RowGood
<1>5. ASSUME NEW s \in Available(w.mem), NEW b \in Booking, NEW y \in {Free, Hold(b)},
             v = RowsAt(w, s, Free, y)
      PROVE  Good(v, now, W, G \union NoShows(v.mem))
  <2>1. Alike(Free, y)
    BY BookingFields DEF Alike
  <2>2. QED
    BY <1>4, <1>5, <2>1
<1>6. ASSUME Bookable(w.mem, p), NEW s \in Available(w.mem), NEW b \in Booking,
             b = BookingOf(p, lead, s), v = Made(RowsAt(w, s, Hold(b), Hold(b)), b)
      PROVE  Good(v, now, W, G \union NoShows(v.mem))
  <2> DEFINE x == Hold(b)
             u == RowsAt(w, s, x, x)
  <2>1. Good(u, now, W, G \union NoShows(u.mem))
    BY <1>4 DEF Alike
  <2>2. b.plate = p /\ b.spot = s /\ b.st = "Booked"
    BY <1>6 DEF BookingOf
  <2>3. s \in Spots /\ x \in SpotRows
    BY <1>2, Holders, BookingFields
  <2>4. /\ u.mem.books = w.mem.books /\ u.mem.active = w.mem.active
        /\ u.mem.spots[s] = x /\ u.db.spots[s] = x
    BY <1>2, <2>3, RowsAtHas
  <2>5. v = Made(u, b)
    BY <1>6
  <2> HIDE DEF u
  <2>6. v = Parts(u.mem.spots, u.mem.active, Append(u.mem.books, b),
                  u.db.spots, u.db.active, Append(u.db.books, b))
    BY <2>5 DEF Made
  <2>7. Len(u.mem.books) < MaxBookings
    BY <1>1, <2>4
  <2>8. ActiveBookings(u.mem, b.plate) = {} /\ u.mem.active[b.plate] = 0
    BY <1>6, <2>2, <2>4 DEF Bookable, ActiveBookings, Indices
  <2>9. Good(v, now, W, G \union NoShows(u.mem)) /\ NoShows(v.mem) = NoShows(u.mem)
    <3>1. u.mem.spots[b.spot] = Hold(b) /\ u.db.spots[b.spot] = Hold(b)
      BY <2>2, <2>4
    <3>2. QED
      BY <2>1, <2>2, <2>6, <2>7, <2>8, <3>1, BookingMade, SMTT(30)
  <2>10. QED
    BY <2>9
<1>7. QED
  BY <1>1, <1>3, <1>5, <1>6

\* The booking of p, which is in time, is settled.
LEMMA SettledGood ==
  ASSUME NEW w, NEW W, NEW G, now \in Nat, Good(w, now, W, G \union NoShows(w.mem)),
         Overdue(w.mem) = {}, NEW p \in Plates, NEW i \in ActiveBookings(w.mem, p),
         NEW x \in {"CheckedIn", "Cancelled"}
  PROVE  /\ Good(SettledAs(w, i, x), now, W, G \union NoShows(w.mem))
         /\ NoShows(SettledAs(w, i, x).mem) = NoShows(w.mem)
         /\ ActiveBookings(SettledAs(w, i, x).mem, p) = {}
         /\ SettledAs(w, i, x).mem.spots = w.mem.spots
         /\ SettledAs(w, i, x).mem.active = w.mem.active
<1> DEFINE u == SettledAs(w, i, x)
<1>1. w \in Worlds /\ Agree(w) /\ OneBooking(w.mem)
  BY DEF Good
<1>2. i \in Indices(w.mem) /\ w.mem.books[i].st = "Booked" /\ w.mem.books[i] \in Booking
  BY <1>1, OwnBooking
<1>3. now < Deadline(w.mem.books[i])
  <2>1. ~(Deadline(w.mem.books[i]) <= now)
    BY <1>2 DEF Overdue
  <2>2. QED
    BY <1>2, <2>1, BookingFields
<1>4. u = Parts(w.mem.spots, w.mem.active, [w.mem.books EXCEPT ![i].st = x],
                w.db.spots, w.db.active, [w.db.books EXCEPT ![i].st = x])
  BY DEF SettledAs
<1> HIDE DEF u
<1> DEFINE H == G \union NoShows(w.mem)
<1>5. Good(w, now, W, H)
  OBVIOUS
<1> HIDE DEF H
<1>6. /\ Good(u, now, W, H)
      /\ NoShows(u.mem) = NoShows(w.mem)
      /\ AllBut(u.mem, w.mem, i)
  BY <1>2, <1>3, <1>5, BookingSettled DEF u
<1>7. ActiveBookings(w.mem, p) = {i}
  BY <1>1 DEF OneBooking
<1>8. u.mem.spots = w.mem.spots /\ u.mem.active = w.mem.active
  BY <1>4, PartsAre
<1>9. QED
  BY <1>6, <1>7, <1>8 DEF H, AllBut, u

\* The hold of p's booking is put on a spot p has.
LEMMA HoldPutBack ==
  ASSUME NEW w, NEW W, NEW G, now \in Nat, Good(w, now, W, G \union NoShows(w.mem)),
         NEW p \in Plates, NEW i \in ActiveBookings(w.mem, p),
         NEW s \in Spots, HeldBy(w.mem.spots[s], p),
         NEW y \in {w.db.spots[s], Free, Hold(w.mem.books[i])},
         NEW v, v = RowsAt(w, s, Hold(w.mem.books[i]), y)
  PROVE  Good(v, now, W, G \union NoShows(v.mem))
<1> DEFINE x == Hold(w.mem.books[i])
<1>1. w \in Worlds /\ Agree(w) /\ OneBooking(w.mem) /\ Kept(w, now, W)
  BY DEF Good
<1>2. /\ x \in SpotRows /\ x.st = "Reserved" /\ HeldBy(x, p) /\ x # Free
      /\ w.mem.books[i] \in Booking
  BY <1>1, OwnBooking, BookingFields
<1>3. /\ w.db.spots[s] \in SpotRows /\ w.mem.spots[s] \in SpotRows
      /\ Alike(w.mem.spots[s], w.db.spots[s])
  BY <1>1, WorldParts DEF Agree
<1>4. y \in SpotRows
  BY <1>2, <1>3, RowKinds
<1>5. Alike(x, w.db.spots[s])
  BY <1>2, <1>3, RowKinds, RowCases DEF Alike, HeldBy
<1>6. Alike(x, y)
  BY <1>2, <1>5 DEF Alike
<1>7. ASSUME NEW j \in Live(w.mem, now, W), w.mem.books[j].spot = s
      PROVE  Backs(x, w.mem.books[j]) /\ Respects(y, w.mem.books[j])
  <2>1. /\ j \in ActiveBookings(w.mem, w.mem.books[j].plate) /\ w.mem.books[j].plate = p
    BY <1>7, LiveHolds, SMTT(30)
  <2>2. j = i
    BY <1>1, <2>1 DEF OneBooking
  <2>3. Respects(w.db.spots[s], w.mem.books[j])
    BY <1>1, <1>7 DEF Kept
  <2>4. Respects(Free, w.mem.books[j])
    BY RowKinds DEF Respects
  <2>5. QED
    BY <2>2, <2>3, <2>4 DEF Backs, Respects
<1>8. x.st # "Occupied" /\ w.mem.spots[s].st # "Occupied" /\ W \subseteq W
  BY <1>2 DEF HeldBy
<1>9. v = RowsAt(w, s, x, y)
  OBVIOUS
<1> HIDE DEF x
<1>10. QED
  BY <1>2, <1>4, <1>6, <1>7, <1>8, <1>9, RowGood

LEMMA ConfirmedGood ==
  ASSUME now \in Nat, NEW w0, NEW W, NEW G, Good(w0, now, W, G), NEW p \in Plates, NEW F,
         NEW v \in Confirmed(w0, p, F)
  PROVE  Good(v, now, W, G \union NoShows(v.mem))
<1> DEFINE w == BeforeConfirm(w0, F)
<1>1. Good(w, now, W, G \union NoShows(w.mem)) /\ Overdue(w.mem) = {}
  BY ExpireBookingsGood DEF BeforeConfirm
<1>2. w \in Worlds /\ Agree(w)
  BY <1>1 DEF Good
<1>3. \/ v = w
      \/ \E i \in ActiveBookings(w.mem, p), s \in HeldSpots(w.mem, p) :
             CheckIn(w, v, p, i, s, F)
  BY <1>2, ConfirmedCases
<1> HIDE DEF w
<1>4. ASSUME NEW i \in ActiveBookings(w.mem, p), NEW s \in HeldSpots(w.mem, p),
             CheckIn(w, v, p, i, s, F)
      PROVE  Good(v, now, W, G \union NoShows(v.mem))
  <2>1. s \in Spots /\ HeldBy(w.mem.spots[s], p)
    BY <1>2, Holders
  <2>2. CASE v = RowsAt(w, s, Hold(w.mem.books[i]), w.db.spots[s])
    BY <1>1, <2>1, <2>2, HoldPutBack
  <2>3. CASE /\ w.db.active[p] = 0
             /\ v = ParkedAt(SettledAs(w, i, "CheckedIn"), p, s)
    <3> DEFINE u == SettledAs(w, i, "CheckedIn")
    <3>1. /\ Good(u, now, W, G \union NoShows(w.mem))
          /\ NoShows(u.mem) = NoShows(w.mem)
          /\ ActiveBookings(u.mem, p) = {}
          /\ u.mem.spots = w.mem.spots /\ u.mem.active = w.mem.active
      BY <1>1, SettledGood
    <3> HIDE DEF u
    <3>2. u.mem.active[p] = 0 /\ HeldBy(u.mem.spots[s], p)
      BY <1>2, <2>1, <2>3, <3>1 DEF Agree
    <3>3. v = Parts([u.mem.spots EXCEPT ![s] = Parked(p)],
                    [u.mem.active EXCEPT ![p] = s], u.mem.books,
                    [u.db.spots EXCEPT ![s] = Parked(p)],
                    [u.db.active EXCEPT ![p] = s], u.db.books)
      BY <2>3 DEF ParkedAt, u
    <3>4. Good(v, now, W, G \union NoShows(u.mem))
      <4>1. W \subseteq W /\ ActiveBookings(u.mem, p) \subseteq W
        BY <3>1
      <4>2. QED
        BY <2>1, <3>1, <3>2, <3>3, <4>1, Parks
    <3>5. v.mem.books = u.mem.books
      BY <3>3, PartsAre
    <3>6. QED
      BY <3>4, <3>5 DEF NoShows, Indices
  <2>4. QED
    BY <1>4, <2>2, <2>3 DEF CheckIn
<1>5. QED
  BY <1>1, <1>3, <1>4

\* The order of two writes of a call does not matter.
LEMMA SettledFirst ==
  ASSUME NEW w, NEW s, NEW i, NEW x
  PROVE  SettledAs(RowsAt(w, s, Free, Free), i, x) = RowsAt(SettledAs(w, i, x), s, Free, Free)
<1> DEFINE r == RowsAt(w, s, Free, Free)
           u == SettledAs(w, i, x)
<1>1. /\ r.mem.spots = [w.mem.spots EXCEPT ![s] = Free] /\ r.mem.active = w.mem.active
      /\ r.mem.books = w.mem.books
      /\ r.db.spots = [w.db.spots EXCEPT ![s] = Free] /\ r.db.active = w.db.active
      /\ r.db.books = w.db.books
  BY PartsAre DEF RowsAt
<1>2. /\ u.mem.spots = w.mem.spots /\ u.mem.active = w.mem.active
      /\ u.mem.books = [w.mem.books EXCEPT ![i].st = x]
      /\ u.db.spots = w.db.spots /\ u.db.active = w.db.active
      /\ u.db.books = [w.db.books EXCEPT ![i].st = x]
  BY PartsAre DEF SettledAs
<1> HIDE DEF r, u
<1>3. SettledAs(r, i, x) = RowsAt(u, s, Free, Free)
  BY <1>1, <1>2 DEF SettledAs, RowsAt
<1>4. QED
  BY <1>3 DEF r, u

LEMMA CancelledGood ==
  ASSUME now \in Nat, NEW w0, NEW W, NEW G, Good(w0, now, W, G), NEW p \in Plates, NEW F,
         NEW v \in Cancelled(w0, p, F)
  PROVE  Good(v, now, W, G \union NoShows(v.mem))
<1> DEFINE w == ExpireBookings(w0, F)
<1>1. Good(w, now, W, G \union NoShows(w.mem)) /\ Overdue(w.mem) = {}
  BY ExpireBookingsGood
<1>2. w \in Worlds /\ Agree(w)
  BY <1>1 DEF Good
<1>3. v = w \/ \E i \in ActiveBookings(w.mem, p) : Withdrawal(w, v, p, i, F)
  BY <1>2, CancelledCases
<1> HIDE DEF w
<1>4. ASSUME NEW i \in ActiveBookings(w.mem, p), Withdrawal(w, v, p, i, F)
      PROVE  Good(v, now, W, G \union NoShows(v.mem))
  <2> DEFINE s == w.mem.books[i].spot
             u == SettledAs(w, i, "Cancelled")
  <2>1. s \in Spots
    BY <1>2, OwnBooking
  <2>2. /\ Good(u, now, W, G \union NoShows(w.mem))
        /\ NoShows(u.mem) = NoShows(w.mem)
        /\ ActiveBookings(u.mem, p) = {}
        /\ u.mem.spots = w.mem.spots /\ u \in Worlds
    BY <1>1, SettledGood DEF Good
  <2> HIDE DEF u
  <2>3. CASE /\ HeldBy(w.mem.spots[s], p)
             /\ \E y \in {w.db.spots[s], Free, Hold(w.mem.books[i])} :
                   v = RowsAt(w, s, Hold(w.mem.books[i]), y)
    BY <1>1, <2>1, <2>3, HoldPutBack
  <2>4. CASE HeldBy(w.mem.spots[s], p) /\ v = RowsAt(u, s, Free, Free)
    <3> DEFINE G2 == G \union NoShows(u.mem)
    <3>1. W = W \union ActiveBookings(u.mem, p) /\ HeldBy(u.mem.spots[s], p)
      BY <2>2, <2>4
    <3>2. Good(u, now, W, G2)
      BY <2>2
    <3> HIDE DEF s, G2
    <3>3. Good(v, now, W, G2 \union NoShows(v.mem))
      BY <2>1, <2>4, <3>1, <3>2, HoldGivenUp
    <3>4. NoShows(v.mem) = NoShows(u.mem)
      BY <2>1, <2>2, <2>4, RowsAtHas, RowKinds
    <3>5. QED
      BY <3>3, <3>4 DEF G2
  <2>5. CASE v = u
    BY <2>2, <2>5
  <2>6. QED
    BY <1>4, <2>3, <2>4, <2>5, SettledFirst DEF Withdrawal, u
<1>5. QED
  BY <1>1, <1>3, <1>4

-----------------------------------------------------------------------------
(***************************************************************************)
(* Holds, as long as no write has failed: a vehicle has at most one, and   *)
(* none while it is parked, in both copies.                                *)
(***************************************************************************)
Single(c) ==
    \A q \in Plates : \A s \in Spots :
        HeldBy(c.spots[s], q) => /\ c.active[q] = 0
                                 /\ \A u \in Spots : HeldBy(c.spots[u], q) => u = s

SameHolds(w) ==
    \A q \in Plates : \A s \in Spots :
        HeldBy(w.mem.spots[s], q) <=> HeldBy(w.db.spots[s], q)

HoldsOk(w) == Single(w.mem) /\ SameHolds(w)

\* Holds that are released in both copies.
LEMMA ReleasedHolds ==
  ASSUME NEW w \in Worlds, HoldsOk(w), NEW S, NEW v, v.mem.active = w.mem.active,
         v.mem.spots = Freed(w.mem.spots, S), v.db.spots = Freed(w.db.spots, S)
  PROVE  HoldsOk(v)
<1>1. ASSUME NEW s \in Spots, NEW q
      PROVE  /\ HeldBy(v.mem.spots[s], q) <=> s \notin S /\ HeldBy(w.mem.spots[s], q)
             /\ HeldBy(v.db.spots[s], q) <=> s \notin S /\ HeldBy(w.db.spots[s], q)
  <2>1. /\ v.mem.spots[s] = IF s \in S THEN Free ELSE w.mem.spots[s]
        /\ v.db.spots[s] = IF s \in S THEN Free ELSE w.db.spots[s]
    BY DEF Freed
  <2>2. ~HeldBy(Free, q)
    BY RowKinds
  <2>3. QED
    BY <2>1, <2>2
<1>2. Single(v.mem)
  BY <1>1 DEF HoldsOk, Single
<1>3. SameHolds(v)
  BY <1>1 DEF HoldsOk, SameHolds
<1>4. QED
  BY <1>2, <1>3 DEF HoldsOk

LEMMA ExpireReservationsHolds ==
  ASSUME NEW w \in Worlds, HoldsOk(w), NEW F
  PROVE  HoldsOk(ExpireReservations(w, F))
<1> DEFINE v == ExpireReservations(w, F)
<1>1. /\ v.mem.spots = Freed(w.mem.spots, Lapsed(w.mem, F)) /\ v.mem.active = w.mem.active
      /\ v.db.spots = Freed(w.db.spots, Lapsed(w.mem, F))
  BY ExpireReservationsParts, PartsAre
<1> HIDE DEF v
<1>2. QED
  BY <1>1, ReleasedHolds DEF v

LEMMA ExpireBookingsHolds ==
  ASSUME NEW w \in Worlds, HoldsOk(w), NEW F
  PROVE  HoldsOk(ExpireBookings(w, F))
<1> DEFINE v == ExpireBookings(w, F)
<1>1. /\ v.mem.spots = Freed(w.mem.spots, Unlocked(w.mem, F)) /\ v.mem.active = w.mem.active
      /\ v.db.spots = Freed(w.db.spots, Unlocked(w.mem, F))
  BY ExpireBookingsParts, PartsAre
<1> HIDE DEF v
<1>2. QED
  BY <1>1, ReleasedHolds DEF v

LEMMA SweptHolds ==
  ASSUME now \in Nat, NEW w, NEW W, NEW G, Good(w, now, W, G), HoldsOk(w), NEW F
  PROVE  HoldsOk(Swept(w, F))
<1> DEFINE u == ExpireReservations(w, F)
<1>1. u \in Worlds
  BY ExpireReservationsGood DEF Good
<1>2. w \in Worlds
  BY DEF Good
<1>3. HoldsOk(u)
  BY <1>2, ExpireReservationsHolds
<1> HIDE DEF u
<1>4. HoldsOk(ExpireBookings(u, F))
  BY <1>1, <1>3, ExpireBookingsHolds
<1>5. QED
  BY <1>4 DEF Swept, u

\* One row changes: to a hold that was there, or to the first one of a vehicle that is
\* not parked.
LEMMA RowHolds ==
  ASSUME NEW w \in Worlds, HoldsOk(w), NEW s \in Spots,
         NEW x \in SpotRows, NEW y \in SpotRows,
         \A q \in Plates : HeldBy(x, q) <=> HeldBy(y, q),
         \A q \in Plates : HeldBy(x, q) =>
             \/ HeldBy(w.mem.spots[s], q)
             \/ HeldSpots(w.mem, q) = {} /\ w.mem.active[q] = 0
  PROVE  HoldsOk(RowsAt(w, s, x, y))
<1> DEFINE v == RowsAt(w, s, x, y)
<1>1. /\ \A r \in Spots : /\ v.mem.spots[r] = IF r = s THEN x ELSE w.mem.spots[r]
                          /\ v.db.spots[r] = IF r = s THEN y ELSE w.db.spots[r]
      /\ v.mem.active = w.mem.active
  <2>1. /\ v.mem.spots = [w.mem.spots EXCEPT ![s] = x] /\ v.mem.active = w.mem.active
        /\ v.db.spots = [w.db.spots EXCEPT ![s] = y]
    BY PartsAre DEF RowsAt
  <2>2. w.mem.spots \in [Spots -> SpotRows] /\ w.db.spots \in [Spots -> SpotRows]
    BY WorldParts
  <2> HIDE DEF v
  <2>3. QED
    BY <2>1, <2>2
<1> HIDE DEF v
<1>2. \A q \in Plates, r \in Spots : HeldSpots(w.mem, q) = {} => ~HeldBy(w.mem.spots[r], q)
  BY DEF HeldSpots
<1>3. Single(v.mem)
  <2> SUFFICES ASSUME NEW q \in Plates, NEW r \in Spots, HeldBy(v.mem.spots[r], q)
               PROVE  /\ v.mem.active[q] = 0
                      /\ \A u \in Spots : HeldBy(v.mem.spots[u], q) => u = r
    BY DEF Single
  <2>1. CASE HeldBy(x, q) /\ HeldSpots(w.mem, q) = {} /\ w.mem.active[q] = 0
    BY <1>1, <1>2, <2>1
  <2>2. CASE HeldBy(x, q) => HeldBy(w.mem.spots[s], q)
    <3>1. \A u \in Spots : HeldBy(v.mem.spots[u], q) => HeldBy(w.mem.spots[u], q)
      BY <1>1, <2>2
    <3>2. QED
      BY <1>1, <3>1 DEF HoldsOk, Single
  <2>3. QED
    BY <2>1, <2>2
<1>4. SameHolds(v)
  BY <1>1 DEF HoldsOk, SameHolds
<1>5. QED
  BY <1>3, <1>4 DEF HoldsOk, v

\* A vehicle parks on its own spot, or on a free one when it has none.
LEMMA ParkedHolds ==
  ASSUME NEW w \in Worlds, HoldsOk(w), NEW p \in Plates, NEW s \in Open(w, p)
  PROVE  HoldsOk(ParkedAt(w, p, s))
<1> DEFINE v == ParkedAt(w, p, s)
<1>1. /\ s \in Spots
      /\ HeldBy(w.mem.spots[s], p) \/ HeldSpots(w.mem, p) = {}
  BY DEF Open
<1>2. /\ \A r \in Spots : /\ v.mem.spots[r] = IF r = s THEN Parked(p) ELSE w.mem.spots[r]
                          /\ v.db.spots[r] = IF r = s THEN Parked(p) ELSE w.db.spots[r]
      /\ \A q \in Plates : v.mem.active[q] = IF q = p THEN s ELSE w.mem.active[q]
  <2>1. /\ v.mem.spots = [w.mem.spots EXCEPT ![s] = Parked(p)]
        /\ v.db.spots = [w.db.spots EXCEPT ![s] = Parked(p)]
        /\ v.mem.active = [w.mem.active EXCEPT ![p] = s]
    BY PartsAre DEF ParkedAt
  <2>2. /\ w.mem.spots \in [Spots -> SpotRows] /\ w.db.spots \in [Spots -> SpotRows]
        /\ w.mem.active \in [Plates -> Spots \union {0}]
    BY WorldParts
  <2> HIDE DEF v
  <2>3. QED
    BY <2>1, <2>2
<1> HIDE DEF v
<1>3. ASSUME NEW r \in Spots, NEW q \in Plates, HeldBy(v.mem.spots[r], q)
      PROVE  r # s /\ HeldBy(w.mem.spots[r], q)
  BY <1>2, <1>3, RowKinds
<1>4. \A r \in Spots : ~(r # s /\ HeldBy(w.mem.spots[r], p))
  BY <1>1 DEF HoldsOk, Single, HeldSpots
<1>5. Single(v.mem)
  BY <1>2, <1>3, <1>4 DEF HoldsOk, Single
<1>6. SameHolds(v)
  BY <1>2, RowKinds DEF HoldsOk, SameHolds
<1>7. QED
  BY <1>5, <1>6 DEF HoldsOk, v

LEMMA LeftHolds ==
  ASSUME NEW w \in Worlds, Agree(w), Occupancy(w.mem), HoldsOk(w),
         NEW p \in Plates, w.mem.active[p] # 0
  PROVE  HoldsOk(LeftAt(w, p))
<1> DEFINE v == LeftAt(w, p)
           s == w.mem.active[p]
<1>1. s \in Spots /\ w.mem.spots[s] = Parked(p)
  BY WorldParts DEF Occupancy
<1>2. /\ \A r \in Spots : /\ v.mem.spots[r] = IF r = s THEN Free ELSE w.mem.spots[r]
                          /\ v.db.spots[r] = IF r = s THEN Free ELSE w.db.spots[r]
      /\ \A q \in Plates : v.mem.active[q] = IF q = p THEN 0 ELSE w.mem.active[q]
  <2>1. /\ v.mem.spots = [w.mem.spots EXCEPT ![s] = Free]
        /\ v.db.spots = [w.db.spots EXCEPT ![s] = Free]
        /\ v.mem.active = [w.mem.active EXCEPT ![p] = 0]
    BY PartsAre DEF LeftAt
  <2>2. /\ w.mem.spots \in [Spots -> SpotRows] /\ w.db.spots \in [Spots -> SpotRows]
        /\ w.mem.active \in [Plates -> Spots \union {0}]
    BY WorldParts
  <2> HIDE DEF v, s
  <2>3. QED
    BY <1>1, <2>1, <2>2
<1> HIDE DEF v, s
<1>3. \A r \in Spots, q \in Plates : HeldBy(v.mem.spots[r], q) => HeldBy(w.mem.spots[r], q)
  BY <1>2, RowKinds
<1>4. Single(v.mem)
  BY <1>2, <1>3 DEF HoldsOk, Single
<1>5. SameHolds(v)
  BY <1>2, RowKinds DEF HoldsOk, SameHolds
<1>6. QED
  BY <1>4, <1>5 DEF HoldsOk, v

\* What the bookings are does not matter.
LEMMA BooksHolds ==
  ASSUME NEW w, HoldsOk(w), NEW v, v.mem.spots = w.mem.spots, v.db.spots = w.db.spots,
         v.mem.active = w.mem.active
  PROVE  HoldsOk(v)
BY DEF HoldsOk, Single, SameHolds

LEMMA FreedHolds ==
  ASSUME NEW w \in Worlds, HoldsOk(w), NEW s \in Spots
  PROVE  HoldsOk(RowsAt(w, s, Free, Free))
<1>1. Free \in SpotRows /\ \A q \in Plates : ~HeldBy(Free, q)
  BY RowKinds
<1>2. QED
  BY <1>1, RowHolds

LEMMA ReservedHolds ==
  ASSUME now \in Nat, NEW w0, NEW W, NEW G, Good(w0, now, W, G), HoldsOk(w0),
         NEW p \in Plates, NEW v \in Reserved(w0, p, {})
  PROVE  HoldsOk(v)
<1> DEFINE w == Swept(w0, {})
           x == AsksFor(p)
<1>1. w \in Worlds /\ HoldsOk(w)
  BY SweptGood, SweptHolds DEF Good
<1>2. Takes(w, v, p)
  BY <1>1, ReservedCases
<1>3. x \in SpotRows /\ \A q \in Plates : HeldBy(x, q) => q = p
  BY BookingAssumption, RowKinds DEF AsksFor
<1> HIDE DEF w, x
<1>4. ASSUME w.mem.active[p] = 0, HeldSpots(w.mem, p) = {},
             NEW s \in Available(w.mem), v = RowsAt(w, s, x, x)
      PROVE  HoldsOk(v)
  <2>1. s \in Spots
    BY DEF Available
  <2>2. QED
    BY <1>1, <1>3, <1>4, <2>1, RowHolds
<1>5. QED
  BY <1>1, <1>2, <1>4 DEF Takes, x

LEMMA EnteredHolds ==
  ASSUME now \in Nat, NEW w0, NEW W, NEW G, Good(w0, now, W, G), HoldsOk(w0),
         NEW p \in Plates, NEW v \in Entered(w0, p, {})
  PROVE  HoldsOk(v)
<1> DEFINE w == Swept(w0, {})
<1>1. w \in Worlds /\ HoldsOk(w)
  BY SweptGood, SweptHolds DEF Good
<1>2. v = w \/ \E s \in Open(w, p) : v = ParkedAt(w, p, s)
  BY <1>1, EnteredCases
<1> HIDE DEF w
<1>3. QED
  BY <1>1, <1>2, ParkedHolds

LEMMA LeavingHolds ==
  ASSUME now \in Nat, NEW w0, NEW W, NEW G, Good(w0, now, W, G), HoldsOk(w0),
         NEW p \in Plates, NEW v \in Left(w0, p, {})
  PROVE  HoldsOk(v)
<1> DEFINE w == Swept(w0, {})
<1>1. w \in Worlds /\ HoldsOk(w) /\ Agree(w) /\ Occupancy(w.mem)
  BY SweptGood, SweptHolds DEF Good
<1>2. \/ v = w
      \/ w.mem.active[p] # 0 /\ v = LeftAt(w, p)
  BY <1>1, LeftCases
<1> HIDE DEF w
<1>3. QED
  BY <1>1, <1>2, LeftHolds

LEMMA ReleasedSpotHolds ==
  ASSUME NEW w, NEW t, NEW W, NEW G, Good(w, t, W, G), HoldsOk(w),
         NEW s \in Spots, NEW v \in Released(w, s, {})
  PROVE  HoldsOk(v)
<1>1. w \in Worlds /\ Agree(w) /\ Occupancy(w.mem)
  BY DEF Good
<1>2. ASSUME NEW p \in Plates, w.mem.active[p] = s, v = LeftAt(w, p)
      PROVE  HoldsOk(v)
  BY <1>1, <1>2, LeftHolds DEF Spots
<1>3. CASE v = RowsAt(w, s, Free, Free)
  BY <1>1, <1>3, FreedHolds
<1>4. QED
  BY <1>1, <1>2, <1>3, ReleasedCases

LEMMA HoldCancelledHolds ==
  ASSUME NEW w \in Worlds, HoldsOk(w), NEW p \in Plates, NEW v \in HoldCancelled(w, p, {})
  PROVE  HoldsOk(v)
BY HoldCancelledCases, FreedHolds DEF HeldSpots

LEMMA RetypedHolds ==
  ASSUME now \in Nat, NEW w0, NEW W, NEW G, Good(w0, now, W, G), HoldsOk(w0),
         NEW p \in Plates, NEW v \in Retyped(w0, p, {})
  PROVE  HoldsOk(v)
<1> DEFINE u == ExpireBookings(w0, {})
           w == ExpireReservations(u, {})
<1>1. w0 \in Worlds
  BY DEF Good
<1>2. Good(u, now, W, G \union NoShows(u.mem))
  BY ExpireBookingsGood
<1>3. u \in Worlds /\ HoldsOk(u)
  BY <1>1, <1>2, ExpireBookingsHolds DEF Good
<1>4. w \in Worlds /\ HoldsOk(w)
  BY <1>2, <1>3, ExpireReservationsGood, ExpireReservationsHolds DEF Good
<1>5. v = w \/ \E s \in Spots : v = RowsAt(w, s, w.mem.spots[s], w.mem.spots[s])
  BY <1>4, RetypedCases
<1> HIDE DEF w
<1>6. ASSUME NEW s \in Spots, v = RowsAt(w, s, w.mem.spots[s], w.mem.spots[s])
      PROVE  HoldsOk(v)
  <2> DEFINE x == w.mem.spots[s]
  <2>1. x \in SpotRows /\ v = RowsAt(w, s, x, x)
    BY <1>4, <1>6, WorldParts
  <2>2. \A q \in Plates : HeldBy(x, q) => HeldBy(w.mem.spots[s], q)
    OBVIOUS
  <2> HIDE DEF x
  <2>3. QED
    BY <1>4, <2>1, <2>2, RowHolds
<1>7. QED
  BY <1>4, <1>5, <1>6

LEMMA CreatedHolds ==
  ASSUME now \in Nat, NEW w0, NEW W, NEW G, Good(w0, now, W, G), HoldsOk(w0),
         NEW p \in Plates, NEW lead \in Leads, NEW v \in Created(w0, p, lead, {})
  PROVE  HoldsOk(v)
<1> DEFINE w == ExpireBookings(w0, {})
<1>1. w0 \in Worlds
  BY DEF Good
<1>2. w \in Worlds /\ HoldsOk(w)
  BY <1>1, ExpireBookingsGood, ExpireBookingsHolds DEF Good
<1>3. \/ v = w
      \/ /\ Bookable(w.mem, p)
         /\ \E s \in Available(w.mem) :
                LET b == BookingOf(p, lead, s) IN
                /\ b \in Booking
                /\ v = Made(RowsAt(w, s, Hold(b), Hold(b)), b)
  BY <1>2, CreatedCases
<1> HIDE DEF w
<1>4. ASSUME Bookable(w.mem, p), NEW s \in Available(w.mem), NEW b \in Booking,
             b = BookingOf(p, lead, s), v = Made(RowsAt(w, s, Hold(b), Hold(b)), b)
      PROVE  HoldsOk(v)
  <2> DEFINE x == Hold(b)
             u == RowsAt(w, s, x, x)
  <2>1. b.plate = p /\ s \in Spots
    BY <1>4 DEF BookingOf, Available
  <2>2. x \in SpotRows /\ \A q \in Plates : HeldBy(x, q) => q = p
    BY <2>1, BookingFields
  <2>3. v = Made(u, b)
    BY <1>4
  <2> HIDE DEF x
  <2>4. HoldsOk(u)
    BY <1>2, <1>4, <2>1, <2>2, RowHolds DEF Bookable
  <2> HIDE DEF u
  <2>5. /\ v.mem.spots = u.mem.spots /\ v.db.spots = u.db.spots
        /\ v.mem.active = u.mem.active
    BY <2>3, PartsAre DEF Made
  <2>6. QED
    BY <2>4, <2>5, BooksHolds
<1>5. QED
  BY <1>2, <1>3, <1>4

LEMMA SettledHolds ==
  ASSUME NEW w, HoldsOk(w), NEW i, NEW x
  PROVE  HoldsOk(SettledAs(w, i, x))
<1> DEFINE u == SettledAs(w, i, x)
<1>1. /\ u.mem.spots = w.mem.spots /\ u.db.spots = w.db.spots
      /\ u.mem.active = w.mem.active
  BY PartsAre DEF SettledAs
<1> HIDE DEF u
<1>2. QED
  BY <1>1, BooksHolds DEF u

LEMMA ConfirmedHolds ==
  ASSUME now \in Nat, NEW w0, NEW W, NEW G, Good(w0, now, W, G), HoldsOk(w0),
         NEW p \in Plates, NEW v \in Confirmed(w0, p, {})
  PROVE  HoldsOk(v)
<1> DEFINE w == BeforeConfirm(w0, {})
<1>1. w0 \in Worlds
  BY DEF Good
<1>2. Good(w, now, W, G \union NoShows(w.mem)) /\ Overdue(w.mem) = {}
  BY ExpireBookingsGood DEF BeforeConfirm
<1>3. w \in Worlds /\ HoldsOk(w) /\ Agree(w)
  BY <1>1, <1>2, ExpireBookingsHolds DEF Good, BeforeConfirm
<1>4. \/ v = w
      \/ \E i \in ActiveBookings(w.mem, p), s \in HeldSpots(w.mem, p) :
             CheckIn(w, v, p, i, s, {})
  BY <1>3, ConfirmedCases
<1> HIDE DEF w
<1>5. ASSUME NEW i \in ActiveBookings(w.mem, p), NEW s \in HeldSpots(w.mem, p),
             CheckIn(w, v, p, i, s, {})
      PROVE  HoldsOk(v)
  <2>1. s \in Spots /\ HeldBy(w.mem.spots[s], p)
    BY DEF HeldSpots
  <2>2. CASE v = RowsAt(w, s, Hold(w.mem.books[i]), w.db.spots[s])
    <3> DEFINE x == Hold(w.mem.books[i])
               y == w.db.spots[s]
    <3>1. x \in SpotRows /\ y \in SpotRows /\ v = RowsAt(w, s, x, y)
      BY <1>3, <2>1, <2>2, OwnBooking, WorldParts
    <3>2. \A q \in Plates : HeldBy(x, q) <=> q = p
      BY <1>3, OwnBooking, BookingFields
    <3>3. \A q \in Plates : HeldBy(y, q) <=> q = p
      BY <1>3, <2>1 DEF HoldsOk, SameHolds, HeldBy
    <3> HIDE DEF x, y
    <3>4. QED
      BY <1>3, <2>1, <3>1, <3>2, <3>3, RowHolds
  <2>3. CASE v = ParkedAt(SettledAs(w, i, "CheckedIn"), p, s)
    <3> DEFINE u == SettledAs(w, i, "CheckedIn")
    <3>1. Good(u, now, W, G \union NoShows(w.mem)) /\ u.mem.spots = w.mem.spots
      BY <1>2, SettledGood
    <3>2. u \in Worlds /\ HoldsOk(u) /\ s \in Open(u, p)
      BY <1>3, <2>1, <3>1, SettledHolds DEF Good, Open
    <3> HIDE DEF u
    <3>3. QED
      BY <2>3, <3>2, ParkedHolds DEF u
  <2>4. QED
    BY <1>5, <2>2, <2>3 DEF CheckIn
<1>6. QED
  BY <1>3, <1>4, <1>5

LEMMA CancelledHolds ==
  ASSUME now \in Nat, NEW w0, NEW W, NEW G, Good(w0, now, W, G), HoldsOk(w0),
         NEW p \in Plates, NEW v \in Cancelled(w0, p, {})
  PROVE  HoldsOk(v)
<1> DEFINE w == ExpireBookings(w0, {})
<1>1. w0 \in Worlds
  BY DEF Good
<1>2. w \in Worlds /\ HoldsOk(w) /\ Agree(w)
  BY <1>1, ExpireBookingsGood, ExpireBookingsHolds DEF Good
<1>3. v = w \/ \E i \in ActiveBookings(w.mem, p) : Withdrawal(w, v, p, i, {})
  BY <1>2, CancelledCases
<1> HIDE DEF w
<1>4. ASSUME NEW i \in ActiveBookings(w.mem, p), Withdrawal(w, v, p, i, {})
      PROVE  HoldsOk(v)
  <2> DEFINE s == w.mem.books[i].spot
  <2>1. s \in Spots
    BY <1>2, OwnBooking
  <2>2. \/ v = SettledAs(RowsAt(w, s, Free, Free), i, "Cancelled")
        \/ v = SettledAs(w, i, "Cancelled")
    BY <1>4 DEF Withdrawal
  <2> HIDE DEF s
  <2>3. HoldsOk(RowsAt(w, s, Free, Free))
    BY <1>2, <2>1, FreedHolds
  <2>4. QED
    BY <1>2, <2>2, <2>3, SettledHolds
<1>5. QED
  BY <1>2, <1>3, <1>4

-----------------------------------------------------------------------------
(***************************************************************************)
(* What the start-up checks need, as long as nothing spoiled it.           *)
(***************************************************************************)

\* A vehicle books again only when its last booking has ended or was used.
InTurn(c) ==
    \A i, j \in Indices(c) :
        j < i /\ c.books[j].plate = c.books[i].plate => c.books[j].st # "Booked"

\* A booking has its spot, and so has a vehicle that came on one.
Served(c) ==
    \A i \in Indices(c) :
        LET b == c.books[i] IN
        /\ b.st = "Booked" => c.spots[b.spot] = Hold(b) /\ c.active[b.plate] = 0
        /\ b.st = "CheckedIn" => c.active[b.plate] = b.spot

\* The vehicle p had a booking that ended without it.
Ended(c, p) ==
    \E i \in Indices(c) : c.books[i].plate = p /\ c.books[i].st \in {"Cancelled", "NoShow"}

\* Such a vehicle has only the hold of a later booking.
Claimed(c, p, s) == \E i \in ActiveBookings(c, p) : c.books[i].spot = s

NothingLeft(c) ==
    \A p \in Plates : \A s \in Spots :
        HeldBy(c.spots[s], p) => Claimed(c, p, s) \/ ~Ended(c, p)

Clean(c) == InTurn(c) /\ Served(c) /\ NothingLeft(c)

\* The restart accepts it.
LEMMA CleanAccepted ==
  ASSUME NEW c \in Copies, Occupancy(c), Clean(c)
  PROVE  Accepts(c)
<1>1. ASSUME NEW i \in Indices(c)
      PROVE  c.books[i] \in Booking
  BY ElementOfSeq, LenProperties DEF Copies, Indices
<1>2. ASSUME NEW i \in Indices(c), NEW b, b = c.books[i], NEW x, x = c.spots[b.spot]
      PROVE  /\ ~\E j \in ActiveBookings(c, b.plate) : j < i
             /\ b.st = "Booked" => HeldBy(x, b.plate)
             /\ b.st = "CheckedIn" => c.active[b.plate] = b.spot /\ x = Parked(b.plate)
             /\ b.st \in {"Cancelled", "NoShow"} => ~HeldBy(x, b.plate) \/ b.spot \in Exempt(c)
  <2>1. b \in Booking
    BY <1>1, <1>2
  <2>2. b.plate \in Plates /\ b.spot \in Spots /\ HeldBy(Hold(b), b.plate)
    BY <2>1, BookingFields
  <2>3. ~\E j \in ActiveBookings(c, b.plate) : j < i
    BY <1>2 DEF Clean, InTurn, ActiveBookings
  <2>4. b.st = "Booked" => HeldBy(x, b.plate)
    BY <1>2, <2>2 DEF Clean, Served
  <2>5. b.st = "CheckedIn" => c.active[b.plate] = b.spot /\ x = Parked(b.plate)
    BY <1>2, <2>2 DEF Clean, Served, Occupancy, Spots
  <2>6. ASSUME b.st \in {"Cancelled", "NoShow"}, HeldBy(x, b.plate)
        PROVE  b.spot \in Exempt(c)
    <3>1. Ended(c, b.plate)
      BY <1>2, <2>6 DEF Ended
    <3>2. Claimed(c, b.plate, b.spot)
      BY <1>2, <2>2, <2>6, <3>1 DEF Clean, NothingLeft
    <3>3. QED
      BY <3>2 DEF Claimed, ActiveBookings, Exempt, BookedSpots
  <2>7. QED
    BY <2>3, <2>4, <2>5, <2>6
<1>3. QED
  BY <1>2 DEF Accepts, Occupancy

HasBookings(c) == \A i \in Indices(c) : c.books[i] \in Booking

\* The changes of a copy that matter to its bookings.
RowIs(d, c, s, x) == \A r \in Spots : d.spots[r] = IF r = s THEN x ELSE c.spots[r]
EntryIs(d, c, p, y) == \A q \in Plates : d.active[q] = IF q = p THEN y ELSE c.active[q]

\* None of the bookings of p in the copy c is checked in.
NotOnBooking(c, p) ==
    \A i \in Indices(c) : c.books[i].plate = p => c.books[i].st # "CheckedIn"

\* Holds are released that no booking needs.
LEMMA CleanLess ==
  ASSUME NEW c, NEW d, Clean(c), d.active = c.active, d.books = c.books,
         \A r \in Spots : \/ d.spots[r] = c.spots[r]
                          \/ d.spots[r] = Free /\ r \notin BookedSpots(c),
         HasBookings(c)
  PROVE  Clean(d)
<1> USE DEF HasBookings, RowIs, EntryIs, NotOnBooking
<1>1. /\ Indices(d) = Indices(c)
      /\ \A p : ActiveBookings(d, p) = ActiveBookings(c, p)
  BY DEF Indices, ActiveBookings
<1>2. InTurn(d)
  BY <1>1 DEF Clean, InTurn
<1>3. Served(d)
  BY <1>1, BookingFields DEF Clean, Served, BookedSpots
<1>4. NothingLeft(d)
  <2>1. ASSUME NEW p \in Plates, NEW r \in Spots, HeldBy(d.spots[r], p)
        PROVE  HeldBy(c.spots[r], p)
    BY <2>1, RowKinds
  <2>2. \A p, r : (Claimed(d, p, r) <=> Claimed(c, p, r)) /\ (Ended(d, p) <=> Ended(c, p))
    BY <1>1 DEF Claimed, Ended
  <2>3. QED
    BY <2>1, <2>2 DEF Clean, NothingLeft
<1>5. QED
  BY <1>2, <1>3, <1>4 DEF Clean

\* A vehicle none of whose bookings has ended takes a free spot.
LEMMA CleanTakes ==
  ASSUME NEW c, NEW d, Clean(c), d.active = c.active, d.books = c.books,
         NEW p, ~Ended(c, p), NEW s \in Spots, c.spots[s] = Free,
         NEW x, \A q \in Plates : HeldBy(x, q) => q = p,
         RowIs(d, c, s, x),
         HasBookings(c)
  PROVE  Clean(d)
<1> USE DEF HasBookings, RowIs, EntryIs, NotOnBooking
<1>1. Indices(d) = Indices(c) /\ \A q : ActiveBookings(d, q) = ActiveBookings(c, q)
  BY DEF Indices, ActiveBookings
<1>2. InTurn(d)
  BY <1>1 DEF Clean, InTurn
<1>3. Served(d)
  BY <1>1, BookingFields DEF Clean, Served
<1>4. NothingLeft(d)
  <2>1. \A q, r : (Claimed(d, q, r) <=> Claimed(c, q, r)) /\ (Ended(d, q) <=> Ended(c, q))
    BY <1>1 DEF Claimed, Ended
  <2>2. QED
    BY <2>1 DEF Clean, NothingLeft
<1>5. QED
  BY <1>2, <1>3, <1>4 DEF Clean

\* A vehicle without a booking parks.
LEMMA CleanParks ==
  ASSUME NEW c, NEW d, Clean(c), d.books = c.books,
         NEW p \in Plates, ActiveBookings(c, p) = {}, c.active[p] = 0,
         NEW s \in Spots, c.spots[s] = Free \/ HeldBy(c.spots[s], p),
         RowIs(d, c, s, Parked(p)),
         EntryIs(d, c, p, s),
         HasBookings(c)
  PROVE  Clean(d)
<1> USE DEF HasBookings, RowIs, EntryIs, NotOnBooking
<1>1. Indices(d) = Indices(c) /\ \A q : ActiveBookings(d, q) = ActiveBookings(c, q)
  BY DEF Indices, ActiveBookings
<1>2. InTurn(d)
  BY <1>1 DEF Clean, InTurn
<1>3. Served(d)
  <2> SUFFICES ASSUME NEW i \in Indices(c), NEW b, b = c.books[i]
               PROVE  /\ b.st = "Booked" => d.spots[b.spot] = Hold(b) /\ d.active[b.plate] = 0
                      /\ b.st = "CheckedIn" => d.active[b.plate] = b.spot
    BY <1>1 DEF Served
  <2>1. /\ b \in Booking /\ b.plate \in Plates /\ b.spot \in Spots /\ b.spot # 0
        /\ Hold(b) # Free /\ \A q : HeldBy(Hold(b), q) => q = b.plate
    BY BookingFields DEF Spots
  <2>2. b.st = "Booked" => b.plate # p
    BY DEF ActiveBookings
  <2>3. b.st = "CheckedIn" => b.plate # p
    BY <2>1 DEF Clean, Served
  <2>4. b.st = "Booked" => b.spot # s
    BY <2>1, <2>2 DEF Clean, Served
  <2>5. QED
    BY <2>1, <2>2, <2>3, <2>4 DEF Clean, Served
<1>4. NothingLeft(d)
  <2>1. \A q, r : (Claimed(d, q, r) <=> Claimed(c, q, r)) /\ (Ended(d, q) <=> Ended(c, q))
    BY <1>1 DEF Claimed, Ended
  <2>2. QED
    BY <2>1, RowKinds DEF Clean, NothingLeft
<1>5. QED
  BY <1>2, <1>3, <1>4 DEF Clean

\* A vehicle that did not come on a booking leaves.
LEMMA CleanLeaves ==
  ASSUME NEW c, NEW d, Clean(c), d.books = c.books,
         NEW p \in Plates, NEW s \in Spots, c.spots[s] = Parked(p), c.active[p] = s,
         NotOnBooking(c, p),
         RowIs(d, c, s, Free),
         EntryIs(d, c, p, 0),
         HasBookings(c)
  PROVE  Clean(d)
<1> USE DEF HasBookings, RowIs, EntryIs, NotOnBooking
<1>1. Indices(d) = Indices(c) /\ \A q : ActiveBookings(d, q) = ActiveBookings(c, q)
  BY DEF Indices, ActiveBookings
<1>2. InTurn(d)
  BY <1>1 DEF Clean, InTurn
<1>3. Served(d)
  <2> SUFFICES ASSUME NEW i \in Indices(c), NEW b, b = c.books[i]
               PROVE  /\ b.st = "Booked" => d.spots[b.spot] = Hold(b) /\ d.active[b.plate] = 0
                      /\ b.st = "CheckedIn" => d.active[b.plate] = b.spot
    BY <1>1 DEF Served
  <2>1. /\ b \in Booking /\ b.plate \in Plates /\ b.spot \in Spots
        /\ HeldBy(Hold(b), b.plate)
    BY BookingFields
  <2>2. b.st = "Booked" => b.spot # s
    BY <2>1, RowKinds DEF Clean, Served
  <2>3. QED
    BY <2>1, <2>2 DEF Clean, Served
<1>4. NothingLeft(d)
  <2>1. \A q, r : (Claimed(d, q, r) <=> Claimed(c, q, r)) /\ (Ended(d, q) <=> Ended(c, q))
    BY <1>1 DEF Claimed, Ended
  <2>2. QED
    BY <2>1, RowKinds DEF Clean, NothingLeft
<1>5. QED
  BY <1>2, <1>3, <1>4 DEF Clean

\* The vehicle p uses its booking i, or gives it up, and its spot s is no hold any more.
Settles(d, c, p, i, s) ==
    /\ s = c.books[i].spot
    /\ d.books[i].plate = p /\ d.books[i].spot = s
    /\ d.books[i].st \in {"CheckedIn", "Cancelled"}
    /\ \A j \in Indices(c) : j # i => d.books[j] = c.books[j]
    /\ \A q \in Plates : ~HeldBy(d.spots[s], q)
    /\ \A r \in Spots : r # s => d.spots[r] = c.spots[r]
    /\ \A q \in Plates : q # p => d.active[q] = c.active[q]
    /\ d.books[i].st = "CheckedIn" => d.active[p] = s

LEMMA CleanSettles ==
  ASSUME NEW c, NEW d, Clean(c), Single(c), Indices(d) = Indices(c), Indices(c) \subseteq Nat,
         NEW p \in Plates, NEW i \in ActiveBookings(c, p),
         NEW s, Settles(d, c, p, i, s), HasBookings(c)
  PROVE  Clean(d)
<1> USE DEF HasBookings, Settles
<1>1. /\ i \in Indices(c) /\ c.books[i].plate = p /\ c.books[i].st = "Booked"
      /\ s \in Spots /\ HeldBy(c.spots[s], p) /\ c.active[p] = 0
      /\ c.spots[s] = Hold(c.books[i])
  <2>1. i \in Indices(c) /\ c.books[i].plate = p /\ c.books[i].st = "Booked"
    BY DEF ActiveBookings
  <2>2. c.books[i] \in Booking
    BY <2>1
  <2>3. c.spots[s] = Hold(c.books[i]) /\ c.active[p] = 0
    BY <2>1 DEF Clean, Served
  <2>4. QED
    BY <2>1, <2>2, <2>3, BookingFields
<1>2. ASSUME NEW j \in Indices(c), j # i, c.books[j].plate = p
      PROVE  c.books[j].st # "Booked" /\ c.books[j].st # "CheckedIn"
  <2>1. c.books[j].st # "Booked"
    <3>1. i \in Nat /\ j \in Nat
      BY <1>1
    <3>2. j < i \/ i < j
      BY <1>2, <3>1
    <3>3. QED
      BY <1>1, <1>2, <3>2 DEF Clean, InTurn
  <2>2. c.books[j].st # "CheckedIn"
    <3>1. c.books[j].spot \in Spots /\ c.books[j].spot # 0
      BY BookingFields DEF Spots
    <3>2. QED
      BY <1>1, <1>2, <3>1 DEF Clean, Served
  <2>3. QED
    BY <2>1, <2>2
<1>3. InTurn(d)
  BY <1>1 DEF Clean, InTurn
<1>4. Served(d)
  <2> SUFFICES ASSUME NEW j \in Indices(c), j # i, NEW b, b = c.books[j]
               PROVE  /\ b.st = "Booked" => d.spots[b.spot] = Hold(b) /\ d.active[b.plate] = 0
                      /\ b.st = "CheckedIn" => d.active[b.plate] = b.spot
    BY DEF Served
  <2>1. /\ b \in Booking /\ b.plate \in Plates /\ b.spot \in Spots
        /\ HeldBy(Hold(b), b.plate) /\ \A q : HeldBy(Hold(b), q) => q = b.plate
    BY BookingFields
  <2>2. b.st \in {"Booked", "CheckedIn"} => b.plate # p
    BY <1>2
  <2>3. b.st = "Booked" => b.spot # s
    BY <1>1, <2>1, <2>2 DEF Clean, Served
  <2>4. QED
    BY <2>1, <2>2, <2>3 DEF Clean, Served
<1>5. NothingLeft(d)
  <2> SUFFICES ASSUME NEW q \in Plates, NEW r \in Spots, HeldBy(d.spots[r], q), Ended(d, q)
               PROVE  Claimed(d, q, r)
    BY DEF NothingLeft
  <2>1. r # s /\ HeldBy(c.spots[r], q)
    OBVIOUS
  <2>2. q # p
    BY <1>1, <2>1 DEF Single
  <2>3. Ended(c, q)
    BY <1>1, <2>2 DEF Ended
  <2>4. Claimed(c, q, r)
    BY <2>1, <2>3 DEF Clean, NothingLeft
  <2>5. QED
    BY <1>1, <2>2, <2>4 DEF Claimed, ActiveBookings
<1>6. QED
  BY <1>3, <1>4, <1>5 DEF Clean

\* A vehicle books a free spot, and has no other claim.
Books(d, c, b, n) ==
    /\ Indices(c) = 1 .. n /\ Indices(d) = 1 .. n + 1
    /\ b.st = "Booked" /\ Bookable(c, b.plate) /\ c.spots[b.spot] = Free
    /\ d.books[n + 1] = b /\ \A i \in Indices(c) : d.books[i] = c.books[i]
    /\ RowIs(d, c, b.spot, Hold(b))
    /\ d.active = c.active

LEMMA CleanBooks ==
  ASSUME NEW c, NEW d, Clean(c), HasBookings(c), NEW n \in Nat, NEW b \in Booking,
         Books(d, c, b, n)
  PROVE  Clean(d)
<1> USE DEF HasBookings, RowIs, Books
<1>1. /\ \A i \in Indices(d) : i \in Indices(c) \/ i = n + 1
      /\ \A i \in Indices(c) : i \in Indices(d) /\ i < n + 1 /\ ~(n + 1 < i)
      /\ n + 1 \in Indices(d) /\ ~(n + 1 < n + 1)
  OBVIOUS
<1>2. b.plate \in Plates /\ b.spot \in Spots /\ Hold(b) # Free
  BY BookingFields
<1>3. InTurn(d)
  <2> SUFFICES ASSUME NEW i \in Indices(d), NEW j \in Indices(d), j < i,
                      d.books[j].plate = d.books[i].plate
               PROVE  d.books[j].st # "Booked"
    BY DEF InTurn
  <2>1. CASE i \in Indices(c)
    BY <1>1, <2>1 DEF Clean, InTurn
  <2>2. CASE i = n + 1
    <3>1. j \in Indices(c) /\ c.books[j].plate = b.plate
      BY <1>1, <2>2
    <3>2. QED
      BY <3>1 DEF Bookable, ActiveBookings
  <2>3. QED
    BY <1>1, <2>1, <2>2
<1>4. Served(d)
  <2>1. ASSUME NEW i \in Indices(c)
        PROVE  c.books[i].st = "Booked" => c.books[i].spot \in Spots /\ c.books[i].spot # b.spot
    BY BookingFields DEF Clean, Served
  <2>2. ASSUME NEW i \in Indices(c), NEW e, e = d.books[i]
        PROVE  /\ e.st = "Booked" => d.spots[e.spot] = Hold(e) /\ d.active[e.plate] = 0
               /\ e.st = "CheckedIn" => d.active[e.plate] = e.spot
    BY <2>1, <2>2 DEF Clean, Served
  <2>3. d.spots[b.spot] = Hold(b) /\ d.active[b.plate] = 0
    BY <1>2 DEF Bookable
  <2>4. QED
    BY <1>1, <2>2, <2>3 DEF Served
<1>5. NothingLeft(d)
  <2> SUFFICES ASSUME NEW q \in Plates, NEW r \in Spots, HeldBy(d.spots[r], q), Ended(d, q)
               PROVE  Claimed(d, q, r)
    BY DEF NothingLeft
  <2>1. CASE r = b.spot
    <3>1. q = b.plate
      BY <2>1, BookingFields
    <3>2. QED
      BY <1>1, <2>1, <3>1 DEF Claimed, ActiveBookings
  <2>2. CASE r # b.spot
    <3>1. HeldBy(c.spots[r], q)
      BY <2>2
    <3>2. Ended(c, q)
      BY <1>1 DEF Ended
    <3>3. Claimed(c, q, r)
      BY <3>1, <3>2 DEF Clean, NothingLeft
    <3>4. QED
      BY <1>1, <3>3 DEF Claimed, ActiveBookings
  <2>3. QED
    BY <2>1, <2>2
<1>6. QED
  BY <1>3, <1>4, <1>5 DEF Clean

\* The bookings D of the copy c end, and their spots U are free.
Lapse(c, d, D, U) ==
    /\ d.active = c.active /\ Indices(d) = Indices(c) /\ Indices(c) \subseteq Nat
    /\ \A i \in Indices(c) : c.books[i] \in Booking
    /\ \A i \in D : i \in Indices(c) /\ c.books[i].st = "Booked"
    /\ \A r : r \in U <=> \E i \in D : r = c.books[i].spot
    /\ \A r \in Spots : d.spots[r] = IF r \in U THEN Free ELSE c.spots[r]
    /\ \A i \in D : d.books[i].plate = c.books[i].plate /\ d.books[i].st = "NoShow"
    /\ \A i \in Indices(c) : i \notin D => d.books[i] = c.books[i]

LEMMA CleanExpires ==
  ASSUME NEW c, NEW d, NEW D, NEW U, Clean(c), Single(c), Lapse(c, d, D, U)
  PROVE  Clean(d)
<1> USE DEF Lapse
<1>1. \A i \in Indices(c) : d.books[i].plate = c.books[i].plate
  OBVIOUS
<1>2. InTurn(d)
  BY <1>1 DEF Clean, InTurn
<1>3. ASSUME NEW i \in Indices(c), i \notin D, c.books[i].st = "Booked"
      PROVE  c.books[i].spot \notin U
  <2> SUFFICES ASSUME NEW j \in D, c.books[j].spot = c.books[i].spot
               PROVE  FALSE
    OBVIOUS
  <2>1. /\ j \in Indices(c) /\ c.books[j].st = "Booked" /\ c.books[j] \in Booking
        /\ c.books[i] \in Booking
    OBVIOUS
  <2>2. Hold(c.books[i]) = Hold(c.books[j])
    BY <1>3, <2>1 DEF Clean, Served
  <2>3. c.books[i].plate = c.books[j].plate
    BY <2>1, <2>2, BookingFields
  <2>4. i \in Nat /\ j \in Nat /\ i # j
    BY <1>3, <2>1
  <2>5. i < j \/ j < i
    BY <2>4
  <2>6. QED
    BY <1>3, <2>1, <2>3, <2>5 DEF Clean, InTurn
<1>4. Served(d)
  <2> SUFFICES ASSUME NEW i \in Indices(c), NEW b, b = d.books[i]
               PROVE  /\ b.st = "Booked" => d.spots[b.spot] = Hold(b) /\ d.active[b.plate] = 0
                      /\ b.st = "CheckedIn" => d.active[b.plate] = b.spot
    BY DEF Served
  <2>1. CASE i \in D
    BY <2>1
  <2>2. CASE i \notin D
    <3>1. b = c.books[i] /\ b.spot \in Spots
      BY <2>2, BookingFields
    <3>2. QED
      BY <1>3, <2>2, <3>1 DEF Clean, Served
  <2>3. QED
    BY <2>1, <2>2
<1>5. NothingLeft(d)
  <2> SUFFICES ASSUME NEW q \in Plates, NEW r \in Spots, HeldBy(d.spots[r], q), Ended(d, q)
               PROVE  Claimed(d, q, r)
    BY DEF NothingLeft
  <2>1. r \notin U /\ HeldBy(c.spots[r], q)
    BY RowKinds
  <2>2. Ended(c, q)
    <3>1. PICK j \in Indices(c) : /\ d.books[j].plate = q
                                 /\ d.books[j].st \in {"Cancelled", "NoShow"}
      BY DEF Ended
    <3>2. CASE j \in D
      <4>1. /\ c.books[j].spot \in U /\ c.books[j].plate = q /\ c.books[j] \in Booking
            /\ c.books[j].st = "Booked"
        BY <1>1, <3>1, <3>2
      <4>2. c.books[j].spot \in Spots /\ HeldBy(c.spots[c.books[j].spot], q)
        BY <4>1, BookingFields DEF Clean, Served
      <4>3. QED
        BY <2>1, <4>1, <4>2 DEF Single
    <3>3. CASE j \notin D
      BY <3>1, <3>3 DEF Ended
    <3>4. QED
      BY <3>2, <3>3
  <2>3. PICK i \in ActiveBookings(c, q) : c.books[i].spot = r
    BY <2>1, <2>2 DEF Clean, NothingLeft, Claimed
  <2>4. i \in Indices(c) /\ i \notin D
    BY <2>1, <2>3 DEF ActiveBookings
  <2>5. QED
    BY <2>3, <2>4 DEF Claimed, ActiveBookings
<1>6. QED
  BY <1>2, <1>4, <1>5 DEF Clean

\* Both copies are the same, and would be accepted.
Tidy(w) == w.mem = w.db /\ Clean(w.mem)

LEMMA Typed ==
  ASSUME NEW w \in Worlds
  PROVE  /\ \A i \in Indices(w.mem) : w.mem.books[i] \in Booking
         /\ HasBookings(w.mem)
         /\ Indices(w.mem) \subseteq Nat
BY BookFacts DEF HasBookings

LEMMA ExpireReservationsTidy ==
  ASSUME NEW w \in Worlds, Tidy(w), NEW F
  PROVE  Tidy(ExpireReservations(w, F))
<1> DEFINE v == ExpireReservations(w, F)
           L == Lapsed(w.mem, F)
<1>1. v = Parts(Freed(w.mem.spots, L), w.mem.active, w.mem.books,
                Freed(w.db.spots, L), w.db.active, w.db.books)
  BY ExpireReservationsParts
<1>2. \A r \in L : r \notin BookedSpots(w.mem)
  BY DEF Lapsed
<1> HIDE DEF v, L
<1>3. /\ v.mem.spots = Freed(w.mem.spots, L) /\ v.mem.active = w.mem.active
      /\ v.mem.books = w.mem.books
  BY <1>1, PartsAre
<1>4. v.mem = v.db
  BY <1>1 DEF Tidy, Parts
<1>5. \A r \in Spots : \/ v.mem.spots[r] = w.mem.spots[r]
                       \/ v.mem.spots[r] = Free /\ r \notin BookedSpots(w.mem)
  BY <1>2, <1>3 DEF Freed
<1>6. Clean(v.mem)
  BY <1>3, <1>5, CleanLess, Typed DEF Tidy
<1>7. QED
  BY <1>4, <1>6 DEF Tidy, v

\* What the expiry of bookings leaves of them.
LateOnly(c, old) ==
    /\ Indices(c) = Indices(old)
    /\ \A i \in Indices(old) :
           /\ i \notin Overdue(old) => c.books[i] = old.books[i]
           /\ i \in Overdue(old) => c.books[i].st = "NoShow"

LEMMA ExpiredBooks ==
  ASSUME NEW w \in Worlds, NEW F
  PROVE  LateOnly(ExpireBookings(w, F).mem, w.mem)
<1> DEFINE v == ExpireBookings(w, F)
           D == Overdue(w.mem)
<1>1. v.mem.books = Resolved(w.mem.books, D, "NoShow")
  BY ExpireBookingsParts, PartsAre
<1>2. w.mem.books \in Seq(Booking)
  BY WorldParts
<1> HIDE DEF v, D
<1>3. Indices(v.mem) = Indices(w.mem)
  BY <1>1, <1>2, Resolving DEF Indices
<1>4. ASSUME NEW i \in Indices(w.mem)
      PROVE  /\ i \notin D => v.mem.books[i] = w.mem.books[i]
             /\ i \in D => v.mem.books[i].st = "NoShow"
  BY <1>1, <1>2, ResolvedOne DEF Indices
<1>5. QED
  BY <1>3, <1>4 DEF LateOnly, v, D

LEMMA ExpireBookingsTidy ==
  ASSUME NEW w \in Worlds, HoldsOk(w), Tidy(w)
  PROVE  Tidy(ExpireBookings(w, {}))
<1> DEFINE v == ExpireBookings(w, {})
           D == Overdue(w.mem)
           U == Unlocked(w.mem, {})
           c == w.mem
           d == v.mem
<1>1. v = Parts(Freed(w.mem.spots, U), w.mem.active, Resolved(w.mem.books, D, "NoShow"),
                Freed(w.db.spots, U), w.db.active,
                Resolved(w.db.books, Written(D, {}), "NoShow"))
  BY ExpireBookingsParts
<1>2. Written(D, {}) = D
  BY DEF Written
<1>3. \A i \in D : i \in Indices(c) /\ c.books[i].st = "Booked"
  BY DEF Overdue
<1>4. \A i \in D : HeldBy(c.spots[c.books[i].spot], c.books[i].plate)
  <2> SUFFICES ASSUME NEW i \in D
               PROVE  HeldBy(c.spots[c.books[i].spot], c.books[i].plate)
    OBVIOUS
  <2>1. c.books[i] \in Booking /\ c.spots[c.books[i].spot] = Hold(c.books[i])
    BY <1>3, Typed DEF Tidy, Clean, Served
  <2>2. QED
    BY <2>1, BookingFields
<1>5. \A r : r \in U <=> \E i \in D : r = c.books[i].spot
  BY <1>4 DEF Unlocked
<1>6. LateOnly(d, c)
  BY ExpiredBooks
<1> HIDE DEF v, D, U
<1>7. v.mem.spots = Freed(w.mem.spots, U) /\ v.mem.active = w.mem.active
      /\ v.mem.books = Resolved(w.mem.books, D, "NoShow")
  BY <1>1, PartsAre
<1>8. v.mem = v.db
  BY <1>1, <1>2 DEF Tidy, Parts
<1>9. \A r \in Spots : d.spots[r] = IF r \in U THEN Free ELSE c.spots[r]
  BY <1>7 DEF Freed
<1>10. \A i \in D : d.books[i].plate = c.books[i].plate /\ d.books[i].st = "NoShow"
  <2> SUFFICES ASSUME NEW i \in D
               PROVE  d.books[i].plate = c.books[i].plate /\ d.books[i].st = "NoShow"
    OBVIOUS
  <2>1. c.books[i] \in Booking /\ i \in DOMAIN w.mem.books /\ w.mem.books \in Seq(Booking)
    BY <1>3, Typed, WorldParts DEF Indices
  <2>2. d.books[i] = [w.mem.books[i] EXCEPT !.st = "NoShow"]
    BY <1>7, <2>1 DEF Resolved
  <2>3. QED
    BY <2>1, <2>2 DEF Booking
<1>11. /\ Indices(d) = Indices(c)
       /\ \A i \in Indices(c) : i \notin D => d.books[i] = c.books[i]
  BY <1>6 DEF LateOnly, D
<1>12. Clean(c) /\ Single(c) /\ d.active = c.active
  BY <1>7 DEF Tidy, HoldsOk
<1>13. Indices(c) \subseteq Nat /\ \A i \in Indices(c) : c.books[i] \in Booking
  BY Typed
<1> HIDE DEF c, d
<1>14. Lapse(c, d, D, U)
  BY <1>3, <1>5, <1>9, <1>10, <1>11, <1>12, <1>13 DEF Lapse
<1>16. Clean(d)
  BY <1>12, <1>14, CleanExpires
<1>15. QED
  BY <1>8, <1>16 DEF Tidy, v, d

LEMMA SweptTidy ==
  ASSUME now \in Nat, NEW w, NEW W, NEW G, Good(w, now, W, G), HoldsOk(w), Tidy(w)
  PROVE  Tidy(Swept(w, {})) /\ LateOnly(Swept(w, {}).mem, w.mem)
<1> DEFINE u == ExpireReservations(w, {})
           v == ExpireBookings(u, {})
<1>1. w \in Worlds
  BY DEF Good
<1>2. u \in Worlds /\ u.mem.books = w.mem.books /\ Overdue(u.mem) = Overdue(w.mem)
  BY ExpireReservationsGood DEF Good
<1>3. HoldsOk(u) /\ Tidy(u)
  BY <1>1, ExpireReservationsHolds, ExpireReservationsTidy
<1>4. v = Swept(w, {})
  BY DEF Swept
<1> HIDE DEF u
<1>5. Tidy(v) /\ LateOnly(v.mem, u.mem)
  BY <1>2, <1>3, ExpireBookingsTidy, ExpiredBooks
<1> HIDE DEF v
<1>6. LateOnly(v.mem, w.mem)
  BY <1>2, <1>5 DEF LateOnly, Indices
<1>7. QED
  BY <1>4, <1>5, <1>6

-----------------------------------------------------------------------------
(***************************************************************************)
(* The calls leave a tidy world tidy, when they spoil nothing.             *)
(***************************************************************************)

\* The holds that no booking needs.
LEMMA Unbooked ==
  ASSUME NEW w \in Worlds, Clean(w.mem), NEW p, ActiveBookings(w.mem, p) = {},
         NEW s \in Spots, HeldBy(w.mem.spots[s], p)
  PROVE  s \notin BookedSpots(w.mem)
<1> SUFFICES ASSUME NEW j \in Indices(w.mem), w.mem.books[j].st = "Booked",
                    w.mem.books[j].spot = s
             PROVE  FALSE
  BY DEF BookedSpots
<1>1. w.mem.books[j] \in Booking /\ w.mem.spots[s] = Hold(w.mem.books[j])
  BY Typed DEF Clean, Served
<1>2. w.mem.books[j].plate = p
  BY <1>1, BookingFields DEF HeldBy
<1>3. QED
  BY <1>2 DEF ActiveBookings

LEMMA FreedTidy ==
  ASSUME NEW w \in Worlds, Tidy(w), NEW s \in Spots, s \notin BookedSpots(w.mem)
  PROVE  Tidy(RowsAt(w, s, Free, Free))
<1> DEFINE v == RowsAt(w, s, Free, Free)
<1>1. v = Parts([w.mem.spots EXCEPT ![s] = Free], w.mem.active, w.mem.books,
                [w.db.spots EXCEPT ![s] = Free], w.db.active, w.db.books)
  BY DEF RowsAt
<1> HIDE DEF v
<1>2. /\ v.mem.spots = [w.mem.spots EXCEPT ![s] = Free]
      /\ v.mem.active = w.mem.active /\ v.mem.books = w.mem.books
  BY <1>1, PartsAre
<1>3. v.mem = v.db
  BY <1>1 DEF Tidy, Parts
<1>4. \A r \in Spots : \/ v.mem.spots[r] = w.mem.spots[r]
                       \/ v.mem.spots[r] = Free /\ r \notin BookedSpots(w.mem)
  BY <1>2, WorldParts
<1>5. Clean(v.mem)
  BY <1>2, <1>4, CleanLess, Typed DEF Tidy
<1>6. QED
  BY <1>3, <1>5 DEF Tidy, v

LEMMA TakenTidy ==
  ASSUME NEW w \in Worlds, Tidy(w), NEW p \in Plates, ~Ended(w.mem, p),
         NEW s \in Spots, w.mem.spots[s] = Free,
         NEW x, \A q \in Plates : HeldBy(x, q) => q = p
  PROVE  Tidy(RowsAt(w, s, x, x))
<1> DEFINE v == RowsAt(w, s, x, x)
<1>1. v = Parts([w.mem.spots EXCEPT ![s] = x], w.mem.active, w.mem.books,
                [w.db.spots EXCEPT ![s] = x], w.db.active, w.db.books)
  BY DEF RowsAt
<1> HIDE DEF v
<1>2. /\ v.mem.spots = [w.mem.spots EXCEPT ![s] = x]
      /\ v.mem.active = w.mem.active /\ v.mem.books = w.mem.books
  BY <1>1, PartsAre
<1>3. v.mem = v.db
  BY <1>1 DEF Tidy, Parts
<1>4. RowIs(v.mem, w.mem, s, x)
  BY <1>2, WorldParts DEF RowIs, EntryIs
<1>5. Clean(v.mem)
  BY <1>2, <1>4, CleanTakes, Typed DEF Tidy
<1>6. QED
  BY <1>3, <1>5 DEF Tidy, v

LEMMA ParkedTidy ==
  ASSUME NEW w \in Worlds, Tidy(w), NEW p \in Plates, ActiveBookings(w.mem, p) = {},
         w.mem.active[p] = 0, NEW s \in Spots,
         w.mem.spots[s] = Free \/ HeldBy(w.mem.spots[s], p)
  PROVE  Tidy(ParkedAt(w, p, s))
<1> DEFINE v == ParkedAt(w, p, s)
<1>1. v = Parts([w.mem.spots EXCEPT ![s] = Parked(p)], [w.mem.active EXCEPT ![p] = s],
                w.mem.books,
                [w.db.spots EXCEPT ![s] = Parked(p)], [w.db.active EXCEPT ![p] = s],
                w.db.books)
  BY DEF ParkedAt
<1> HIDE DEF v
<1>2. /\ v.mem.spots = [w.mem.spots EXCEPT ![s] = Parked(p)]
      /\ v.mem.active = [w.mem.active EXCEPT ![p] = s] /\ v.mem.books = w.mem.books
  BY <1>1, PartsAre
<1>3. v.mem = v.db
  BY <1>1 DEF Tidy, Parts
<1>4. /\ RowIs(v.mem, w.mem, s, Parked(p))
      /\ EntryIs(v.mem, w.mem, p, s)
  BY <1>2, WorldParts DEF RowIs, EntryIs
<1>5. Clean(v.mem)
  BY <1>2, <1>4, CleanParks, Typed DEF Tidy
<1>6. QED
  BY <1>3, <1>5 DEF Tidy, v

LEMMA LeftTidy ==
  ASSUME NEW w \in Worlds, Tidy(w), Occupancy(w.mem), NEW p \in Plates, w.mem.active[p] # 0,
         NotOnBooking(w.mem, p)
  PROVE  Tidy(LeftAt(w, p))
<1> DEFINE v == LeftAt(w, p)
           s == w.mem.active[p]
<1>1. v = Parts([w.mem.spots EXCEPT ![s] = Free], [w.mem.active EXCEPT ![p] = 0],
                w.mem.books,
                [w.db.spots EXCEPT ![s] = Free], [w.db.active EXCEPT ![p] = 0],
                w.db.books)
  BY DEF LeftAt
<1>2. s \in Spots /\ w.mem.spots[s] = Parked(p)
  BY WorldParts DEF Occupancy
<1> HIDE DEF v
<1>3. /\ v.mem.spots = [w.mem.spots EXCEPT ![s] = Free]
      /\ v.mem.active = [w.mem.active EXCEPT ![p] = 0] /\ v.mem.books = w.mem.books
  BY <1>1, PartsAre
<1>4. v.mem = v.db
  BY <1>1 DEF Tidy, Parts
<1>5. /\ RowIs(v.mem, w.mem, s, Free)
      /\ EntryIs(v.mem, w.mem, p, 0)
  BY <1>3, WorldParts DEF RowIs, EntryIs
<1>6. w.mem.active[p] = s
  OBVIOUS
<1> HIDE DEF s
<1>7. Clean(v.mem)
  BY <1>2, <1>3, <1>5, <1>6, CleanLeaves, Typed DEF Tidy
<1>8. QED
  BY <1>4, <1>7 DEF Tidy, v

LEMMA MadeTidy ==
  ASSUME NEW w \in Worlds, Tidy(w), NEW b \in Booking, b.st = "Booked",
         Bookable(w.mem, b.plate), NEW s \in Spots, b.spot = s, w.mem.spots[s] = Free
  PROVE  Tidy(Made(RowsAt(w, s, Hold(b), Hold(b)), b))
<1> DEFINE u == RowsAt(w, s, Hold(b), Hold(b))
           v == Made(u, b)
           n == Len(w.mem.books)
<1>1. u = Parts([w.mem.spots EXCEPT ![s] = Hold(b)], w.mem.active, w.mem.books,
                [w.db.spots EXCEPT ![s] = Hold(b)], w.db.active, w.db.books)
  BY DEF RowsAt
<1>2. v = Parts(u.mem.spots, u.mem.active, Append(u.mem.books, b),
                u.db.spots, u.db.active, Append(u.db.books, b))
  BY DEF Made
<1> HIDE DEF v, u
<1>3. /\ v.mem.spots = [w.mem.spots EXCEPT ![s] = Hold(b)]
      /\ v.mem.active = w.mem.active /\ v.mem.books = Append(w.mem.books, b)
  BY <1>1, <1>2 DEF Parts
<1>4. u.mem = u.db
  BY <1>1 DEF Tidy, Parts
<1>5. v.mem = v.db
  BY <1>2, <1>4 DEF Parts
<1>6. RowIs(v.mem, w.mem, b.spot, Hold(b))
  BY <1>3, WorldParts DEF RowIs
<1>7. n \in Nat /\ Indices(w.mem) = 1 .. n /\ HasBookings(w.mem) /\ w.mem.books \in Seq(Booking)
  BY BookFacts, Typed, WorldParts
<1>8. /\ Indices(v.mem) = 1 .. n + 1
      /\ v.mem.books[n + 1] = b /\ \A i \in Indices(w.mem) : v.mem.books[i] = w.mem.books[i]
  BY <1>3, <1>7 DEF Indices
<1> HIDE DEF n
<1>9. w.mem.spots[b.spot] = Free /\ Clean(w.mem)
  BY DEF Tidy
<1>10. Books(v.mem, w.mem, b, n)
  BY <1>3, <1>6, <1>7, <1>8, <1>9 DEF Books
<1>11. Clean(v.mem)
  BY <1>7, <1>9, <1>10, CleanBooks
<1>12. QED
  BY <1>5, <1>11 DEF Tidy, v, u

\* The booking i of p is used or given up, and its spot is no hold any more.
LEMMA SettlingTidy ==
  ASSUME NEW w \in Worlds, HoldsOk(w), Tidy(w), NEW p \in Plates,
         NEW i \in ActiveBookings(w.mem, p), NEW s, s = w.mem.books[i].spot,
         NEW x \in {"CheckedIn", "Cancelled"},
         NEW v, v.mem = v.db, v.mem.books = [w.mem.books EXCEPT ![i].st = x],
         NEW y, \A q \in Plates : ~HeldBy(y, q), RowIs(v.mem, w.mem, s, y),
         NEW z, EntryIs(v.mem, w.mem, p, z), x = "CheckedIn" => z = s
  PROVE  Tidy(v)
<1> DEFINE c == w.mem
           d == v.mem
<1>1. /\ i \in Indices(c) /\ c.books[i] \in Booking /\ c.books[i].plate = p
      /\ s \in Spots
  BY Typed, BookingFields DEF ActiveBookings
<1>2. /\ Indices(d) = Indices(c) /\ d.books[i] = [c.books[i] EXCEPT !.st = x]
      /\ \A j \in Indices(c) : j # i => d.books[j] = c.books[j]
  BY <1>1, WorldParts DEF Indices
<1>3. d.books[i].plate = p /\ d.books[i].spot = s /\ d.books[i].st = x
  BY <1>1, <1>2 DEF Booking
<1>4. /\ \A q \in Plates : ~HeldBy(d.spots[s], q)
      /\ \A r \in Spots : r # s => d.spots[r] = c.spots[r]
  BY <1>1 DEF RowIs
<1>5. /\ \A q \in Plates : q # p => d.active[q] = c.active[q]
      /\ d.books[i].st = "CheckedIn" => d.active[p] = s
  BY <1>3 DEF EntryIs
<1>6. Clean(c) /\ Single(c) /\ HasBookings(c) /\ Indices(c) \subseteq Nat
  BY Typed DEF Tidy, HoldsOk
<1>7. s = c.books[i].spot /\ i \in ActiveBookings(c, p)
  OBVIOUS
<1> HIDE DEF c, d
<1>8. Settles(d, c, p, i, s)
  BY <1>2, <1>3, <1>4, <1>5, <1>7 DEF Settles
<1>9. Clean(d)
  BY <1>2, <1>6, <1>7, <1>8, CleanSettles
<1>10. QED
  BY <1>9 DEF Tidy, d

LEMMA CheckedInTidy ==
  ASSUME NEW w \in Worlds, HoldsOk(w), Tidy(w), NEW p \in Plates,
         NEW i \in ActiveBookings(w.mem, p), NEW s \in Spots, s = w.mem.books[i].spot
  PROVE  Tidy(ParkedAt(SettledAs(w, i, "CheckedIn"), p, s))
<1> DEFINE u == SettledAs(w, i, "CheckedIn")
           v == ParkedAt(u, p, s)
<1>1. u = Parts(w.mem.spots, w.mem.active, [w.mem.books EXCEPT ![i].st = "CheckedIn"],
                w.db.spots, w.db.active, [w.db.books EXCEPT ![i].st = "CheckedIn"])
  BY DEF SettledAs
<1>2. v = Parts([u.mem.spots EXCEPT ![s] = Parked(p)], [u.mem.active EXCEPT ![p] = s],
                u.mem.books,
                [u.db.spots EXCEPT ![s] = Parked(p)], [u.db.active EXCEPT ![p] = s],
                u.db.books)
  BY DEF ParkedAt
<1> HIDE DEF v, u
<1>3. /\ v.mem.spots = [w.mem.spots EXCEPT ![s] = Parked(p)]
      /\ v.mem.active = [w.mem.active EXCEPT ![p] = s]
      /\ v.mem.books = [w.mem.books EXCEPT ![i].st = "CheckedIn"]
  BY <1>1, <1>2 DEF Parts
<1>4. u.mem = u.db
  BY <1>1 DEF Tidy, Parts
<1>5. v.mem = v.db
  BY <1>2, <1>4 DEF Parts
<1>6. RowIs(v.mem, w.mem, s, Parked(p)) /\ EntryIs(v.mem, w.mem, p, s)
  BY <1>3, WorldParts DEF RowIs, EntryIs
<1>7. \A q \in Plates : ~HeldBy(Parked(p), q)
  BY RowKinds
<1>8. Tidy(v)
  BY <1>3, <1>5, <1>6, <1>7, SettlingTidy
<1>9. QED
  BY <1>8 DEF v, u

LEMMA WithdrawnTidy ==
  ASSUME NEW w \in Worlds, HoldsOk(w), Tidy(w), NEW p \in Plates,
         NEW i \in ActiveBookings(w.mem, p), NEW s \in Spots, s = w.mem.books[i].spot
  PROVE  Tidy(SettledAs(RowsAt(w, s, Free, Free), i, "Cancelled"))
<1> DEFINE u == RowsAt(w, s, Free, Free)
           v == SettledAs(u, i, "Cancelled")
<1>1. u = Parts([w.mem.spots EXCEPT ![s] = Free], w.mem.active, w.mem.books,
                [w.db.spots EXCEPT ![s] = Free], w.db.active, w.db.books)
  BY DEF RowsAt
<1>2. v = Parts(u.mem.spots, u.mem.active, [u.mem.books EXCEPT ![i].st = "Cancelled"],
                u.db.spots, u.db.active, [u.db.books EXCEPT ![i].st = "Cancelled"])
  BY DEF SettledAs
<1> HIDE DEF v, u
<1>3. /\ v.mem.spots = [w.mem.spots EXCEPT ![s] = Free]
      /\ v.mem.active = w.mem.active
      /\ v.mem.books = [w.mem.books EXCEPT ![i].st = "Cancelled"]
  BY <1>1, <1>2 DEF Parts
<1>4. u.mem = u.db
  BY <1>1 DEF Tidy, Parts
<1>5. v.mem = v.db
  BY <1>2, <1>4 DEF Parts
<1>6. RowIs(v.mem, w.mem, s, Free) /\ EntryIs(v.mem, w.mem, p, w.mem.active[p])
  BY <1>3, WorldParts DEF RowIs, EntryIs
<1>7. \A q \in Plates : ~HeldBy(Free, q)
  BY RowKinds
<1>8. Tidy(v)
  BY <1>3, <1>5, <1>6, <1>7, SettlingTidy
<1>9. QED
  BY <1>8 DEF v, u

\* What the calls begin with ends no booking if none is late.
LEMMA StillNotEnded ==
  ASSUME NEW c, NEW old, LateOnly(c, old), Overdue(old) = {}, NEW p, ~Ended(old, p)
  PROVE  ~Ended(c, p)
BY DEF LateOnly, Ended

LEMMA StillNotOnBooking ==
  ASSUME NEW c, NEW old, LateOnly(c, old), NEW p, NotOnBooking(old, p)
  PROVE  NotOnBooking(c, p)
BY DEF LateOnly, NotOnBooking

LEMMA ReservedTidy ==
  ASSUME now \in Nat, NEW w0, NEW W, NEW G, Good(w0, now, W, G), HoldsOk(w0), Tidy(w0),
         NEW p \in Plates, ~Ended(w0.mem, p), Overdue(w0.mem) = {},
         NEW v \in Reserved(w0, p, {})
  PROVE  Tidy(v)
<1> DEFINE w == Swept(w0, {})
           x == AsksFor(p)
<1>1. w \in Worlds
  BY SweptGood DEF Good
<1>2. Tidy(w) /\ LateOnly(w.mem, w0.mem)
  BY SweptTidy
<1>3. Takes(w, v, p)
  BY <1>1, ReservedCases
<1>4. \A q \in Plates : HeldBy(x, q) => q = p
  BY BookingAssumption, RowKinds DEF AsksFor
<1> HIDE DEF w, x
<1>5. ~Ended(w.mem, p)
  BY <1>2, StillNotEnded
<1>6. ASSUME NEW s \in Available(w.mem), v = RowsAt(w, s, x, x)
      PROVE  Tidy(v)
  <2>1. s \in Spots /\ w.mem.spots[s] = Free
    BY DEF Available
  <2>2. QED
    BY <1>1, <1>2, <1>4, <1>5, <1>6, <2>1, TakenTidy
<1>7. QED
  BY <1>2, <1>3, <1>6 DEF Takes, x

LEMMA EnteredTidy ==
  ASSUME now \in Nat, NEW w0, NEW W, NEW G, Good(w0, now, W, G), HoldsOk(w0), Tidy(w0),
         NEW p \in Plates, ActiveBookings(w0.mem, p) = {}, NEW v \in Entered(w0, p, {})
  PROVE  Tidy(v)
<1> DEFINE w == Swept(w0, {})
<1>1. w \in Worlds /\ FewerBookings(w.mem, w0.mem)
  BY SweptGood DEF Good
<1>2. Tidy(w)
  BY SweptTidy
<1>3. v = w \/ (w.mem.active[p] = 0 /\ \E s \in Open(w, p) : v = ParkedAt(w, p, s))
  BY <1>1, EnteredCases
<1> HIDE DEF w
<1>4. ActiveBookings(w.mem, p) = {}
  BY <1>1 DEF FewerBookings
<1>5. QED
  BY <1>1, <1>2, <1>3, <1>4, ParkedTidy DEF Open

LEMMA LeavingTidy ==
  ASSUME now \in Nat, NEW w0, NEW W, NEW G, Good(w0, now, W, G), HoldsOk(w0), Tidy(w0),
         NEW p \in Plates, NotOnBooking(w0.mem, p), NEW v \in Left(w0, p, {})
  PROVE  Tidy(v)
<1> DEFINE w == Swept(w0, {})
<1>1. w \in Worlds /\ Occupancy(w.mem)
  BY SweptGood DEF Good
<1>2. Tidy(w) /\ LateOnly(w.mem, w0.mem)
  BY SweptTidy
<1>3. v = w \/ (w.mem.active[p] # 0 /\ v = LeftAt(w, p))
  BY <1>1, LeftCases
<1> HIDE DEF w
<1>4. NotOnBooking(w.mem, p)
  BY <1>2, StillNotOnBooking
<1>5. QED
  BY <1>1, <1>2, <1>3, <1>4, LeftTidy

\* Nobody came on a booking who would leave, and no booking needs the hold.
LEMMA ReleasedTidy ==
  ASSUME NEW w, NEW t, NEW W, NEW G, Good(w, t, W, G), Tidy(w), NEW s \in Spots,
         Waives(w, s) = {},
         w.mem.spots[s].st = "Occupied" => NotOnBooking(w.mem, w.mem.spots[s].by),
         NEW v \in Released(w, s, {})
  PROVE  Tidy(v)
<1>1. w \in Worlds /\ Occupancy(w.mem) /\ Clean(w.mem) /\ w.mem.spots[s] \in SpotRows
  BY WorldParts DEF Good, Tidy
<1>2. ASSUME NEW p \in Plates, w.mem.spots[s] = Parked(p), w.mem.active[p] = s,
             v = LeftAt(w, p)
      PROVE  Tidy(v)
  <2>1. NotOnBooking(w.mem, p) /\ w.mem.active[p] # 0
    BY <1>2, RowKinds DEF Spots
  <2>2. QED
    BY <1>1, <1>2, <2>1, LeftTidy
<1>3. CASE w.mem.spots[s].st = "Reserved" /\ v = RowsAt(w, s, Free, Free)
  <2>1. HeldBy(w.mem.spots[s], w.mem.spots[s].by)
    BY <1>3 DEF HeldBy
  <2>2. ActiveBookings(w.mem, w.mem.spots[s].by) = {}
    BY <1>3 DEF Waives
  <2>3. s \notin BookedSpots(w.mem)
    BY <1>1, <2>1, <2>2, Unbooked
  <2>4. QED
    BY <1>1, <1>3, <2>3, FreedTidy
<1>4. QED
  BY <1>1, <1>2, <1>3, ReleasedCases

LEMMA HoldCancelledTidy ==
  ASSUME NEW w \in Worlds, Tidy(w), NEW p \in Plates, ActiveBookings(w.mem, p) = {},
         NEW v \in HoldCancelled(w, p, {})
  PROVE  Tidy(v)
<1>1. ASSUME NEW s \in HeldSpots(w.mem, p), v = RowsAt(w, s, Free, Free)
      PROVE  Tidy(v)
  <2>1. s \in Spots /\ HeldBy(w.mem.spots[s], p) /\ Clean(w.mem)
    BY DEF HeldSpots, Tidy
  <2>2. s \notin BookedSpots(w.mem)
    BY <2>1, Unbooked
  <2>3. QED
    BY <1>1, <2>1, <2>2, FreedTidy
<1>2. QED
  BY <1>1, HoldCancelledCases

LEMMA RetypedTidy ==
  ASSUME now \in Nat, NEW w0, NEW W, NEW G, Good(w0, now, W, G), HoldsOk(w0), Tidy(w0),
         NEW p \in Plates, NEW v \in Retyped(w0, p, {})
  PROVE  Tidy(v)
<1> DEFINE u == ExpireBookings(w0, {})
           w == ExpireReservations(u, {})
<1>1. w0 \in Worlds
  BY DEF Good
<1>2. Good(u, now, W, G \union NoShows(u.mem))
  BY ExpireBookingsGood
<1>3. u \in Worlds /\ Tidy(u)
  BY <1>1, <1>2, ExpireBookingsTidy DEF Good
<1>4. w \in Worlds
  BY <1>2, ExpireReservationsGood DEF Good
<1>5. Tidy(w)
  BY <1>3, ExpireReservationsTidy
<1>6. v = w \/ \E s \in Spots : v = RowsAt(w, s, w.mem.spots[s], w.mem.spots[s])
  BY <1>4, RetypedCases
<1> HIDE DEF w
<1>7. ASSUME NEW s \in Spots PROVE RowsAt(w, s, w.mem.spots[s], w.mem.spots[s]) = w
  BY <1>4, <1>5, SameRows DEF Tidy
<1>8. QED
  BY <1>5, <1>6, <1>7

LEMMA CreatedTidy ==
  ASSUME now \in Nat, NEW w0, NEW W, NEW G, Good(w0, now, W, G), HoldsOk(w0), Tidy(w0),
         NEW p \in Plates, NEW lead \in Leads, NEW v \in Created(w0, p, lead, {})
  PROVE  Tidy(v)
<1> DEFINE w == ExpireBookings(w0, {})
<1>1. w0 \in Worlds
  BY DEF Good
<1>2. w \in Worlds /\ Tidy(w)
  BY <1>1, ExpireBookingsGood, ExpireBookingsTidy DEF Good
<1>3. \/ v = w
      \/ /\ Bookable(w.mem, p)
         /\ \E s \in Available(w.mem) :
                LET b == BookingOf(p, lead, s) IN
                /\ b \in Booking
                /\ v = Made(RowsAt(w, s, Hold(b), Hold(b)), b)
  BY <1>2, CreatedCases
<1> HIDE DEF w
<1>4. ASSUME Bookable(w.mem, p), NEW s \in Available(w.mem), NEW b \in Booking,
             b = BookingOf(p, lead, s), v = Made(RowsAt(w, s, Hold(b), Hold(b)), b)
      PROVE  Tidy(v)
  <2>1. /\ b.plate = p /\ b.spot = s /\ b.st = "Booked"
        /\ s \in Spots /\ w.mem.spots[s] = Free
    BY <1>4 DEF BookingOf, Available
  <2>2. Bookable(w.mem, b.plate)
    BY <1>4, <2>1
  <2>3. QED
    BY <1>2, <1>4, <2>1, <2>2, MadeTidy
<1>5. QED
  BY <1>2, <1>3, <1>4

\* The spot p holds is that of its booking, so it checks in.
LEMMA ConfirmedTidy ==
  ASSUME now \in Nat, NEW w0, NEW W, NEW G, Good(w0, now, W, G), HoldsOk(w0), Tidy(w0),
         NEW p \in Plates, NEW v \in Confirmed(w0, p, {})
  PROVE  Tidy(v)
<1> DEFINE w == BeforeConfirm(w0, {})
<1>1. w0 \in Worlds
  BY DEF Good
<1>2. w \in Worlds /\ Agree(w)
  BY <1>1, ExpireBookingsGood DEF Good, BeforeConfirm
<1>3. HoldsOk(w) /\ Tidy(w)
  BY <1>1, ExpireBookingsHolds, ExpireBookingsTidy DEF BeforeConfirm
<1>4. \/ v = w
      \/ \E i \in ActiveBookings(w.mem, p), s \in HeldSpots(w.mem, p) :
             CheckIn(w, v, p, i, s, {})
  BY <1>2, ConfirmedCases
<1> HIDE DEF w
<1>5. ASSUME NEW i \in ActiveBookings(w.mem, p), NEW s \in HeldSpots(w.mem, p),
             CheckIn(w, v, p, i, s, {})
      PROVE  Tidy(v)
  <2>1. s \in Spots /\ HeldBy(w.mem.spots[s], p)
    BY DEF HeldSpots
  <2>2. /\ i \in Indices(w.mem) /\ w.mem.books[i] \in Booking /\ w.mem.books[i].plate = p
        /\ w.mem.books[i].st = "Booked" /\ w.mem.books[i].spot \in Spots
    BY <1>2, OwnBooking
  <2>3. /\ w.mem.spots[w.mem.books[i].spot] = Hold(w.mem.books[i])
        /\ w.mem.active[p] = 0
    BY <1>3, <2>2 DEF Tidy, Clean, Served
  <2>4. s = w.mem.books[i].spot
    BY <1>3, <2>1, <2>2, <2>3, BookingFields DEF HoldsOk, Single
  <2>5. w.db.active[p] = 0
    BY <1>3, <2>3 DEF Tidy
  <2>6. v = ParkedAt(SettledAs(w, i, "CheckedIn"), p, s)
    BY <1>5, <2>4, <2>5 DEF CheckIn
  <2>7. QED
    BY <1>2, <1>3, <2>1, <2>4, <2>6, CheckedInTidy
<1>6. QED
  BY <1>3, <1>4, <1>5

\* The booking has its hold, which goes with it.
LEMMA CancelledTidy ==
  ASSUME now \in Nat, NEW w0, NEW W, NEW G, Good(w0, now, W, G), HoldsOk(w0), Tidy(w0),
         NEW p \in Plates, NEW v \in Cancelled(w0, p, {})
  PROVE  Tidy(v)
<1> DEFINE w == ExpireBookings(w0, {})
<1>1. w0 \in Worlds
  BY DEF Good
<1>2. w \in Worlds /\ Agree(w)
  BY <1>1, ExpireBookingsGood DEF Good
<1>3. HoldsOk(w) /\ Tidy(w)
  BY <1>1, ExpireBookingsHolds, ExpireBookingsTidy
<1>4. v = w \/ \E i \in ActiveBookings(w.mem, p) : Withdrawal(w, v, p, i, {})
  BY <1>2, CancelledCases
<1> HIDE DEF w
<1>5. ASSUME NEW i \in ActiveBookings(w.mem, p), Withdrawal(w, v, p, i, {})
      PROVE  Tidy(v)
  <2> DEFINE s == w.mem.books[i].spot
  <2>1. /\ i \in Indices(w.mem) /\ w.mem.books[i] \in Booking /\ w.mem.books[i].plate = p
        /\ w.mem.books[i].st = "Booked" /\ s \in Spots
    BY <1>2, OwnBooking
  <2>2. HeldBy(w.mem.spots[s], p)
    BY <1>3, <2>1, BookingFields DEF Tidy, Clean, Served
  <2>3. v = SettledAs(RowsAt(w, s, Free, Free), i, "Cancelled")
    BY <1>5, <2>2 DEF Withdrawal
  <2> HIDE DEF s
  <2>4. QED
    BY <1>2, <1>3, <2>1, <2>3, WithdrawnTidy DEF s
<1>6. QED
  BY <1>3, <1>4, <1>5

-----------------------------------------------------------------------------
(***************************************************************************)
(* The inductive invariant.                                                *)
(***************************************************************************)

\* What the database says at any time, whether the process runs or not.
Stored(c, t, W, G) ==
    /\ c \in Copies /\ Len(c.books) <= MaxBookings
    /\ Unused(c, W, G)
    /\ Forfeits(c, t, G)
    /\ \A i \in Live(c, t, W) : Respects(c.spots[c.books[i].spot], c.books[i])

BInv ==
    /\ now \in 0 .. MaxTime /\ up \in BOOLEAN /\ faults \in 0 .. MaxFaults
    /\ spoiled \in BOOLEAN /\ waived \subseteq 1 .. MaxBookings
    /\ up => Good(World, now, waived, forfeited)
    /\ ~up => mem = Empty
    /\ Stored(db, now, waived, forfeited)
    /\ faults = 0 => Single(db) /\ (up => HoldsOk(World))
    /\ ~spoiled => faults = 0 /\ Clean(db) /\ Occupancy(db) /\ (up => mem = db)

LEMMA GoodStored ==
  ASSUME NEW w, NEW t \in Nat, NEW W, NEW G, Good(w, t, W, G)
  PROVE  Stored(w.db, t, W, G)
<1> DEFINE c == w.db
<1>1. /\ w \in Worlds /\ Agree(w) /\ c \in Copies
      /\ Len(w.mem.books) <= MaxBookings
  BY DEF Good, Worlds
<1>2. Indices(w.mem) = Indices(c) /\ w.mem.active = c.active
  BY <1>1 DEF Agree
<1>3. Len(c.books) <= MaxBookings
  BY <1>1, <1>2, BookFacts
<1>4. ASSUME NEW i \in Indices(c), c.books[i].st = "Booked"
      PROVE  i \in G \/ c.books[i] = w.mem.books[i]
  <2>1. w.mem.books[i].st # "NoShow" => c.books[i] = w.mem.books[i]
    BY <1>1, <1>2, BooksAgree
  <2>2. w.mem.books[i].st = "NoShow" => i \in G
    BY <1>2 DEF Good, Forfeits, NoShows
  <2>3. QED
    BY <2>1, <2>2
<1>5. Unused(c, W, G)
  BY <1>2, <1>4 DEF Good, Unused, ActiveBookings
<1>6. Forfeits(c, t, G)
  <2>1. NoShows(c) \subseteq G
    <3> SUFFICES ASSUME NEW i \in Indices(c), c.books[i].st = "NoShow" PROVE i \in G
      BY DEF NoShows
    <3>1. w.mem.books[i] = c.books[i]
      BY <1>1, <1>2 DEF Agree, SameBooking
    <3>2. QED
      BY <1>2, <3>1 DEF Good, Forfeits, NoShows
  <2>2. ASSUME NEW i \in G
        PROVE  /\ i \in Indices(c) /\ Deadline(c.books[i]) <= t
               /\ c.books[i].st \in {"NoShow", "Booked"}
    <3>1. /\ i \in Indices(w.mem) /\ Deadline(w.mem.books[i]) <= t
          /\ w.mem.books[i].st \in {"NoShow", "Booked"}
      BY DEF Good, Forfeits
    <3>2. /\ Deadline(c.books[i]) = Deadline(w.mem.books[i])
          /\ w.mem.books[i].st # "NoShow" => c.books[i] = w.mem.books[i]
          /\ w.mem.books[i].st = "NoShow" => c.books[i].st \in {"NoShow", "Booked"}
      BY <1>1, <3>1, BooksAgree
    <3>3. QED
      BY <1>2, <3>1, <3>2
  <2>3. QED
    BY <2>1, <2>2 DEF Forfeits
<1>7. ASSUME NEW i \in Live(c, t, W)
      PROVE  Respects(c.spots[c.books[i].spot], c.books[i])
  <2>1. i \in Indices(c) /\ i \notin W /\ c.books[i].st = "Booked" /\ t < Deadline(c.books[i])
    BY DEF Live
  <2>2. i \notin G
    <3>1. c.books[i] \in Booking
      BY <1>1, <2>1, BookFacts
    <3>2. i \in G => Deadline(c.books[i]) <= t
      BY <1>6 DEF Forfeits
    <3>3. QED
      BY <2>1, <3>1, <3>2, BookingFields
  <2>3. c.books[i] = w.mem.books[i]
    BY <1>4, <2>1, <2>2
  <2>4. i \in Live(w.mem, t, W)
    BY <1>2, <2>1, <2>3 DEF Live
  <2>5. Respects(c.spots[w.mem.books[i].spot], w.mem.books[i])
    BY <2>4 DEF Good, Kept
  <2>6. QED
    BY <2>3, <2>5
<1>8. QED
  BY <1>1, <1>3, <1>5, <1>6, <1>7 DEF Stored

\* A database the start-up checks accept makes a good world.
LEMMA Restarted ==
  ASSUME NEW c, NEW t \in Nat, NEW W, NEW G, Stored(c, t, W, G), Accepts(c),
         NEW w, w = [mem |-> c, db |-> c]
  PROVE  Good(w, t, W, G)
<1>1. w.mem = c /\ w.db = c /\ c \in Copies /\ w \in Worlds
  BY DEF Stored, Worlds
<1>2. HasBookings(c) /\ Indices(c) \subseteq Nat
  BY <1>1, Typed
<1>3. Agree(w)
  BY <1>1 DEF Agree, SameBooking, Alike
<1>4. Occupancy(c)
  BY DEF Accepts, Occupancy
<1>5. OneBooking(c)
  <2> SUFFICES ASSUME NEW p \in Plates, NEW i \in ActiveBookings(c, p),
                      NEW j \in ActiveBookings(c, p), i # j
               PROVE  FALSE
    BY DEF OneBooking
  <2>1. /\ i \in Indices(c) /\ j \in Indices(c) /\ i \in Nat /\ j \in Nat
        /\ c.books[i].plate = p /\ c.books[j].plate = p
    BY <1>2 DEF ActiveBookings
  <2>2. ~(j < i) /\ ~(i < j)
    BY <2>1 DEF Accepts
  <2>3. QED
    BY <2>1, <2>2
<1>6. ASSUME NEW i \in Live(c, t, W)
      PROVE  /\ Backs(c.spots[c.books[i].spot], c.books[i])
             /\ Respects(c.spots[c.books[i].spot], c.books[i])
  <2>1. HeldBy(c.spots[c.books[i].spot], c.books[i].plate)
    BY DEF Live, Accepts
  <2>2. Respects(c.spots[c.books[i].spot], c.books[i])
    BY DEF Stored
  <2>3. QED
    BY <2>1, <2>2 DEF Respects, Backs
<1>7. Kept(w, t, W)
  BY <1>1, <1>6 DEF Kept
<1>8. QED
  BY <1>1, <1>3, <1>4, <1>5, <1>7 DEF Good, Stored

\* Time passes.
LEMMA Later ==
  ASSUME NEW c \in Copies, NEW t \in Nat, NEW u \in Nat, t <= u, NEW W, NEW G,
         Forfeits(c, t, G)
  PROVE  Forfeits(c, u, G) /\ Live(c, u, W) \subseteq Live(c, t, W)
<1>1. \A i \in Indices(c) : c.books[i] \in Booking
  BY DEF Copies, Indices
<1>2. \A i \in Indices(c) : Deadline(c.books[i]) \in Nat
  BY <1>1, BookingFields
<1>3. QED
  BY <1>2 DEF Forfeits, Live

\* A call ends in the world w, the writes F of it having failed, and gives up bookings.
Ends(w, F, waives) ==
    /\ up /\ now' = now
    /\ waived' = waived \union waives /\ forfeited' = forfeited \union NoShows(w.mem)
    /\ db' = w.db
    /\ \/ up' = TRUE /\ mem' = w.mem
       \/ F # {} /\ up' = FALSE /\ mem' = Empty
    /\ faults' = IF F = {} THEN faults ELSE faults + 1
    /\ F # {} => faults < MaxFaults
    /\ spoiled' \in BOOLEAN /\ (~spoiled' => ~spoiled /\ F = {})

LEMMA EndsWell ==
  ASSUME BInv, NEW F, NEW w, NEW waives \in SUBSET (1 .. MaxBookings), Ends(w, F, waives),
         Good(w, now, waived \union waives, forfeited \union NoShows(w.mem)),
         F = {} /\ faults = 0 => HoldsOk(w),
         ~spoiled' => Tidy(w)
  PROVE  BInv'
<1> DEFINE V == waived \union waives
           H == forfeited \union NoShows(w.mem)
<1>1. now \in Nat /\ now' = now /\ waived' = V /\ forfeited' = H /\ db' = w.db
  BY BookingAssumption DEF BInv, Ends
<1>2. /\ now' \in 0 .. MaxTime /\ up' \in BOOLEAN /\ faults' \in 0 .. MaxFaults
      /\ spoiled' \in BOOLEAN /\ waived' \subseteq 1 .. MaxBookings
  <2>1. now' \in 0 .. MaxTime /\ up' \in BOOLEAN /\ spoiled' \in BOOLEAN
    BY DEF BInv, Ends
  <2>2. waived' \subseteq 1 .. MaxBookings
    BY <1>1 DEF BInv
  <2>3. faults' \in 0 .. MaxFaults
    BY BookingAssumption DEF BInv, Ends
  <2>4. QED
    BY <2>1, <2>2, <2>3
<1>3. Good(w, now', waived', forfeited')
  BY <1>1
<1>4. Stored(db', now', waived', forfeited')
  BY <1>1, <1>3, GoodStored
<1>5. ASSUME up' PROVE World' = w /\ mem' = w.mem
  <2>1. mem' = w.mem
    BY <1>5 DEF Ends
  <2>2. w = [mem |-> w.mem, db |-> w.db]
    BY <1>3, WorldParts DEF Good, Parts
  <2>3. QED
    BY <1>1, <2>1, <2>2 DEF World
<1>6. ASSUME faults' = 0
      PROVE  Single(db') /\ (up' => HoldsOk(World'))
  <2>1. F = {} /\ faults = 0
    BY <1>6, BookingAssumption DEF BInv, Ends
  <2>2. HoldsOk(w)
    BY <2>1
  <2>3. w.mem.active = w.db.active
    BY <1>3 DEF Good, Agree
  <2>4. Single(w.db)
    BY <2>2, <2>3 DEF HoldsOk, Single, SameHolds
  <2>5. QED
    BY <1>1, <1>5, <2>2, <2>4
<1>7. ASSUME ~spoiled'
      PROVE  faults' = 0 /\ Clean(db') /\ Occupancy(db') /\ (up' => mem' = db')
  <2>1. ~spoiled /\ F = {} /\ faults' = faults
    BY <1>7 DEF Ends
  <2>2. faults = 0
    BY <2>1 DEF BInv
  <2>3. w.mem = w.db /\ Clean(w.mem) /\ Occupancy(w.mem)
    BY <1>3, <1>7 DEF Tidy, Good
  <2>4. QED
    BY <1>1, <1>5, <2>1, <2>2, <2>3
<1>8. ~up' => mem' = Empty
  BY DEF Ends
<1>9. up' => Good(World', now', waived', forfeited')
  BY <1>3, <1>5
<1>10. QED
  BY <1>2, <1>4, <1>6, <1>7, <1>8, <1>9 DEF BInv

\* What the invariant says while the process runs.
LEMMA Running ==
  ASSUME BInv, up
  PROVE  /\ now \in Nat /\ World.mem = mem /\ World.db = db
         /\ Good(World, now, waived, forfeited) /\ World \in Worlds
         /\ faults = 0 => HoldsOk(World)
         /\ ~spoiled => HoldsOk(World) /\ Tidy(World)
         /\ Indices(mem) \subseteq 1 .. MaxBookings
<1>1. now \in Nat /\ World.mem = mem /\ World.db = db
  BY BookingAssumption DEF BInv, World
<1>2. /\ Good(World, now, waived, forfeited)
      /\ faults = 0 => HoldsOk(World)
      /\ ~spoiled => faults = 0 /\ Clean(db) /\ mem = db
  BY DEF BInv
<1>3. World \in Worlds /\ Len(mem.books) <= MaxBookings
  BY <1>1, <1>2 DEF Good
<1>4. Indices(mem) = 1 .. Len(mem.books) /\ Len(mem.books) \in Nat
  BY <1>1, <1>3, BookFacts
<1>5. Indices(mem) \subseteq 1 .. MaxBookings
  BY <1>3, <1>4, BookingAssumption
<1>6. QED
  BY <1>1, <1>2, <1>3, <1>5 DEF Tidy

\* A call that gives nothing up.
LEMMA EndsPlainly ==
  ASSUME BInv, NEW F, NEW w, Ends(w, F, {}),
         Good(w, now, waived, forfeited \union NoShows(w.mem)),
         F = {} /\ faults = 0 => HoldsOk(w),
         ~spoiled' => Tidy(w)
  PROVE  BInv'
<1>1. waived \union {} = waived
  OBVIOUS
<1>2. QED
  BY <1>1, EndsWell

LEMMA ReserveStep ==
  ASSUME BInv, NEW p \in Plates, Reserve(p)
  PROVE  BInv'
<1>1. PICK F \in Outages : \E v \in Reserved(World, p, F) :
          Ends(v, F, {}) /\ (~spoiled' => ~Gone(p) /\ Overdue(mem) = {})
  BY DEF Reserve, Call, Ends, BInv, Outages, Own
<1>2. PICK v \in Reserved(World, p, F) :
          Ends(v, F, {}) /\ (~spoiled' => ~Gone(p) /\ Overdue(mem) = {})
  BY <1>1
<1>3. /\ now \in Nat /\ World.mem = mem /\ Good(World, now, waived, forfeited)
      /\ faults = 0 => HoldsOk(World)
      /\ ~spoiled => HoldsOk(World) /\ Tidy(World)
  BY <1>2, Running DEF Ends
<1>4. Good(v, now, waived, forfeited \union NoShows(v.mem))
  BY <1>3, ReservedGood
<1>5. F = {} /\ faults = 0 => HoldsOk(v)
  BY <1>3, ReservedHolds
<1>6. ASSUME ~spoiled' PROVE Tidy(v)
  <2>1. F = {} /\ ~spoiled
    BY <1>2, <1>6 DEF Ends
  <2>2. ~Ended(World.mem, p) /\ Overdue(World.mem) = {}
    BY <1>2, <1>3, <1>6 DEF Gone, Ended
  <2>3. QED
    BY <1>3, <2>1, <2>2, ReservedTidy
<1>7. QED
  BY <1>2, <1>4, <1>5, <1>6, EndsPlainly

LEMMA EnterStep ==
  ASSUME BInv, NEW p \in Plates, Enter(p)
  PROVE  BInv'
<1> DEFINE A == ActiveBookings(mem, p)
<1>1. PICK F \in Outages : \E v \in Entered(World, p, F) :
          Ends(v, F, A) /\ (~spoiled' => A = {})
  BY DEF Enter, Call, Ends, BInv, Outages, Own
<1>2. PICK v \in Entered(World, p, F) : Ends(v, F, A) /\ (~spoiled' => A = {})
  BY <1>1
<1>3. /\ now \in Nat /\ World.mem = mem /\ Good(World, now, waived, forfeited)
      /\ faults = 0 => HoldsOk(World)
      /\ ~spoiled => HoldsOk(World) /\ Tidy(World)
      /\ Indices(mem) \subseteq 1 .. MaxBookings
  BY <1>2, Running DEF Ends
<1>4. Good(v, now, waived \union A, forfeited \union NoShows(v.mem))
  BY <1>3, EnteredGood
<1>5. F = {} /\ faults = 0 => HoldsOk(v)
  BY <1>3, EnteredHolds
<1>6. ASSUME ~spoiled' PROVE Tidy(v)
  <2>1. F = {} /\ ~spoiled
    BY <1>2, <1>6 DEF Ends
  <2>2. ActiveBookings(World.mem, p) = {}
    BY <1>2, <1>3, <1>6
  <2>3. QED
    BY <1>3, <2>1, <2>2, EnteredTidy
<1>7. A \in SUBSET (1 .. MaxBookings)
  BY <1>3 DEF ActiveBookings
<1> HIDE DEF A
<1>8. QED
  BY <1>2, <1>4, <1>5, <1>6, <1>7, EndsWell

LEMMA LeaveStep ==
  ASSUME BInv, NEW p \in Plates, Leave(p)
  PROVE  BInv'
<1>1. PICK F \in Outages : \E v \in Left(World, p, F) :
          Ends(v, F, {}) /\ (~spoiled' => ~CameOn(p))
  BY DEF Leave, Call, Ends, BInv, Outages, Own
<1>2. PICK v \in Left(World, p, F) : Ends(v, F, {}) /\ (~spoiled' => ~CameOn(p))
  BY <1>1
<1>3. /\ now \in Nat /\ World.mem = mem /\ Good(World, now, waived, forfeited)
      /\ faults = 0 => HoldsOk(World)
      /\ ~spoiled => HoldsOk(World) /\ Tidy(World)
  BY <1>2, Running DEF Ends
<1>4. Good(v, now, waived, forfeited \union NoShows(v.mem))
  BY <1>3, LeftGood
<1>5. F = {} /\ faults = 0 => HoldsOk(v)
  BY <1>3, LeavingHolds
<1>6. ASSUME ~spoiled' PROVE Tidy(v)
  <2>1. F = {} /\ ~spoiled
    BY <1>2, <1>6 DEF Ends
  <2>2. NotOnBooking(World.mem, p)
    BY <1>2, <1>3, <1>6 DEF CameOn, NotOnBooking
  <2>3. QED
    BY <1>3, <2>1, <2>2, LeavingTidy
<1>7. QED
  BY <1>2, <1>4, <1>5, <1>6, EndsPlainly

LEMMA ReleaseStep ==
  ASSUME BInv, NEW s \in Spots, Release(s)
  PROVE  BInv'
<1> DEFINE x == mem.spots[s]
           A == IF x.st = "Occupied" THEN {} ELSE ActiveBookings(mem, x.by)
<1>1. CASE x.st = "Occupied"
  <2>1. PICK F \in Outages : \E v \in Released(World, s, F) :
            Ends(v, F, {}) /\ (~spoiled' => ~CameOn(x.by))
    BY <1>1 DEF Release, Call, Ends, BInv, Outages, Own
  <2>2. PICK v \in Released(World, s, F) : Ends(v, F, {}) /\ (~spoiled' => ~CameOn(x.by))
    BY <2>1
  <2>3. /\ now \in Nat /\ World.mem = mem /\ Good(World, now, waived, forfeited)
        /\ faults = 0 => HoldsOk(World)
        /\ ~spoiled => HoldsOk(World) /\ Tidy(World)
    BY <2>2, Running DEF Ends
  <2>4. Waives(World, s) = {}
    BY <1>1, <2>3 DEF Waives
  <2>5. Good(v, now, waived, forfeited \union NoShows(v.mem))
    <3>1. waived \union Waives(World, s) = waived
      BY <2>4
    <3>2. QED
      BY <2>3, <3>1, ReleasedGood
  <2>6. F = {} /\ faults = 0 => HoldsOk(v)
    BY <2>3, ReleasedSpotHolds
  <2>7. ASSUME ~spoiled' PROVE Tidy(v)
    <3>1. F = {} /\ ~spoiled
      BY <2>2, <2>7 DEF Ends
    <3>2. NotOnBooking(World.mem, World.mem.spots[s].by)
      BY <2>2, <2>3, <2>7 DEF CameOn, NotOnBooking
    <3>3. QED
      BY <2>3, <2>4, <3>1, <3>2, ReleasedTidy
  <2>8. QED
    BY <2>2, <2>5, <2>6, <2>7, EndsPlainly
<1>2. CASE x.st # "Occupied"
  <2>1. PICK F \in Outages : \E v \in Released(World, s, F) :
            Ends(v, F, A) /\ (~spoiled' => A = {})
    BY <1>2 DEF Release, Call, Ends, BInv, Outages, Own
  <2>2. PICK v \in Released(World, s, F) : Ends(v, F, A) /\ (~spoiled' => A = {})
    BY <2>1
  <2>3. /\ now \in Nat /\ World.mem = mem /\ Good(World, now, waived, forfeited)
        /\ faults = 0 => HoldsOk(World)
        /\ ~spoiled => HoldsOk(World) /\ Tidy(World)
        /\ Indices(mem) \subseteq 1 .. MaxBookings
    BY <2>2, Running DEF Ends
  <2>4. Waives(World, s) = A
    BY <2>3 DEF Waives
  <2>5. Good(v, now, waived \union A, forfeited \union NoShows(v.mem))
    BY <2>3, <2>4, ReleasedGood
  <2>6. F = {} /\ faults = 0 => HoldsOk(v)
    BY <2>3, ReleasedSpotHolds
  <2>7. ASSUME ~spoiled' PROVE Tidy(v)
    <3>1. F = {} /\ ~spoiled
      BY <2>2, <2>7 DEF Ends
    <3>2. Waives(World, s) = {} /\ World.mem.spots[s].st # "Occupied"
      BY <1>2, <2>2, <2>3, <2>4, <2>7
    <3>3. QED
      BY <2>3, <3>1, <3>2, ReleasedTidy
  <2>8. A \in SUBSET (1 .. MaxBookings)
    BY <2>3 DEF ActiveBookings
  <2> HIDE DEF A
  <2>9. QED
    BY <2>2, <2>5, <2>6, <2>7, <2>8, EndsWell
<1>3. QED
  BY <1>1, <1>2

LEMMA CancelReservationStep ==
  ASSUME BInv, NEW p \in Plates, CancelReservation(p)
  PROVE  BInv'
<1> DEFINE A == ActiveBookings(mem, p)
<1>1. PICK F \in Outages : \E v \in HoldCancelled(World, p, F) :
          Ends(v, F, A) /\ (~spoiled' => A = {})
  BY DEF CancelReservation, Call, Ends, BInv, Outages, Own
<1>2. PICK v \in HoldCancelled(World, p, F) : Ends(v, F, A) /\ (~spoiled' => A = {})
  BY <1>1
<1>3. /\ now \in Nat /\ World.mem = mem /\ Good(World, now, waived, forfeited)
      /\ World \in Worlds
      /\ faults = 0 => HoldsOk(World)
      /\ ~spoiled => HoldsOk(World) /\ Tidy(World)
      /\ Indices(mem) \subseteq 1 .. MaxBookings
  BY <1>2, Running DEF Ends
<1>4. Good(v, now, waived \union A, forfeited \union NoShows(v.mem))
  BY <1>3, HoldCancelledGood
<1>5. F = {} /\ faults = 0 => HoldsOk(v)
  BY <1>3, HoldCancelledHolds
<1>6. ASSUME ~spoiled' PROVE Tidy(v)
  <2>1. F = {} /\ ~spoiled
    BY <1>2, <1>6 DEF Ends
  <2>2. ActiveBookings(World.mem, p) = {}
    BY <1>2, <1>3, <1>6
  <2>3. QED
    BY <1>3, <2>1, <2>2, HoldCancelledTidy
<1>7. A \in SUBSET (1 .. MaxBookings)
  BY <1>3 DEF ActiveBookings
<1> HIDE DEF A
<1>8. QED
  BY <1>2, <1>4, <1>5, <1>6, <1>7, EndsWell

LEMMA UpdateVehicleTypeStep ==
  ASSUME BInv, NEW p \in Plates, UpdateVehicleType(p)
  PROVE  BInv'
<1>1. PICK F \in Outages : \E v \in Retyped(World, p, F) : Ends(v, F, {})
  BY DEF UpdateVehicleType, Call, Ends, BInv, Outages, Own
<1>2. PICK v \in Retyped(World, p, F) : Ends(v, F, {})
  BY <1>1
<1>3. /\ now \in Nat /\ World.mem = mem /\ Good(World, now, waived, forfeited)
      /\ faults = 0 => HoldsOk(World)
      /\ ~spoiled => HoldsOk(World) /\ Tidy(World)
  BY <1>2, Running DEF Ends
<1>4. Good(v, now, waived, forfeited \union NoShows(v.mem))
  BY <1>3, RetypedGood
<1>5. F = {} /\ faults = 0 => HoldsOk(v)
  BY <1>3, RetypedHolds
<1>6. ASSUME ~spoiled' PROVE Tidy(v)
  <2>1. F = {} /\ ~spoiled
    BY <1>2, <1>6 DEF Ends
  <2>2. QED
    BY <1>3, <2>1, RetypedTidy
<1>7. QED
  BY <1>2, <1>4, <1>5, <1>6, EndsPlainly

LEMMA CreateBookingStep ==
  ASSUME BInv, NEW p \in Plates, NEW lead \in Leads, CreateBooking(p, lead)
  PROVE  BInv'
<1>1. PICK F \in Outages : \E v \in Created(World, p, lead, F) : Ends(v, F, {})
  BY DEF CreateBooking, Call, Ends, BInv, Outages, Own
<1>2. PICK v \in Created(World, p, lead, F) : Ends(v, F, {})
  BY <1>1
<1>3. /\ now \in Nat /\ World.mem = mem /\ Good(World, now, waived, forfeited)
      /\ faults = 0 => HoldsOk(World)
      /\ ~spoiled => HoldsOk(World) /\ Tidy(World)
  BY <1>2, Running DEF Ends
<1>4. Len(World.mem.books) < MaxBookings
  BY <1>3 DEF CreateBooking
<1>5. Good(v, now, waived, forfeited \union NoShows(v.mem))
  BY <1>3, <1>4, CreatedGood
<1>6. F = {} /\ faults = 0 => HoldsOk(v)
  BY <1>3, CreatedHolds
<1>7. ASSUME ~spoiled' PROVE Tidy(v)
  <2>1. F = {} /\ ~spoiled
    BY <1>2, <1>7 DEF Ends
  <2>2. QED
    BY <1>3, <2>1, CreatedTidy
<1>8. QED
  BY <1>2, <1>5, <1>6, <1>7, EndsPlainly

LEMMA ConfirmBookingStep ==
  ASSUME BInv, NEW p \in Plates, ConfirmBooking(p)
  PROVE  BInv'
<1>1. PICK F \in Outages : \E v \in Confirmed(World, p, F) : Ends(v, F, {})
  BY DEF ConfirmBooking, Call, Ends, BInv, Outages, Own
<1>2. PICK v \in Confirmed(World, p, F) : Ends(v, F, {})
  BY <1>1
<1>3. /\ now \in Nat /\ World.mem = mem /\ Good(World, now, waived, forfeited)
      /\ faults = 0 => HoldsOk(World)
      /\ ~spoiled => HoldsOk(World) /\ Tidy(World)
  BY <1>2, Running DEF Ends
<1>4. Good(v, now, waived, forfeited \union NoShows(v.mem))
  BY <1>3, ConfirmedGood
<1>5. F = {} /\ faults = 0 => HoldsOk(v)
  BY <1>3, ConfirmedHolds
<1>6. ASSUME ~spoiled' PROVE Tidy(v)
  <2>1. F = {} /\ ~spoiled
    BY <1>2, <1>6 DEF Ends
  <2>2. QED
    BY <1>3, <2>1, ConfirmedTidy
<1>7. QED
  BY <1>2, <1>4, <1>5, <1>6, EndsPlainly

LEMMA CancelBookingStep ==
  ASSUME BInv, NEW p \in Plates, CancelBooking(p)
  PROVE  BInv'
<1>1. PICK F \in Outages : \E v \in Cancelled(World, p, F) : Ends(v, F, {})
  BY DEF CancelBooking, Call, Ends, BInv, Outages, Own
<1>2. PICK v \in Cancelled(World, p, F) : Ends(v, F, {})
  BY <1>1
<1>3. /\ now \in Nat /\ World.mem = mem /\ Good(World, now, waived, forfeited)
      /\ faults = 0 => HoldsOk(World)
      /\ ~spoiled => HoldsOk(World) /\ Tidy(World)
  BY <1>2, Running DEF Ends
<1>4. Good(v, now, waived, forfeited \union NoShows(v.mem))
  BY <1>3, CancelledGood
<1>5. F = {} /\ faults = 0 => HoldsOk(v)
  BY <1>3, CancelledHolds
<1>6. ASSUME ~spoiled' PROVE Tidy(v)
  <2>1. F = {} /\ ~spoiled
    BY <1>2, <1>6 DEF Ends
  <2>2. QED
    BY <1>3, <2>1, CancelledTidy
<1>7. QED
  BY <1>2, <1>4, <1>5, <1>6, EndsPlainly

LEMMA TickStep ==
  ASSUME BInv, Tick
  PROVE  BInv'
<1>1. /\ now \in Nat /\ now' \in Nat /\ now <= now' /\ now' \in 0 .. MaxTime
      /\ mem' = mem /\ db' = db /\ up' = up /\ faults' = faults /\ waived' = waived
      /\ forfeited' = forfeited /\ spoiled' = spoiled /\ World' = World
  BY BookingAssumption DEF BInv, Tick, World
<1>2. Stored(db, now', waived, forfeited)
  <2>1. db \in Copies /\ Forfeits(db, now, forfeited)
    BY DEF BInv, Stored
  <2>2. /\ Forfeits(db, now', forfeited)
        /\ Live(db, now', waived) \subseteq Live(db, now, waived)
    BY <1>1, <2>1, Later
  <2>3. QED
    BY <2>2 DEF BInv, Stored
<1>3. ASSUME up PROVE Good(World, now', waived, forfeited)
  <2>1. Good(World, now, waived, forfeited) /\ World.mem \in Copies
    BY <1>3 DEF BInv, Good, Worlds
  <2>2. Forfeits(World.mem, now, forfeited)
    BY <2>1 DEF Good
  <2>3. /\ Forfeits(World.mem, now', forfeited)
        /\ Live(World.mem, now', waived) \subseteq Live(World.mem, now, waived)
    BY <1>1, <2>1, <2>2, Later
  <2>4. Kept(World, now', waived)
    BY <2>1, <2>3 DEF Good, Kept
  <2>5. QED
    BY <2>1, <2>3, <2>4 DEF Good
<1>4. QED
  BY <1>1, <1>2, <1>3 DEF BInv

LEMMA CrashStep ==
  ASSUME BInv, Crash
  PROVE  BInv'
BY DEF BInv, Crash

LEMMA RestartStep ==
  ASSUME BInv, Restart
  PROVE  BInv'
<1>1. /\ now' = now /\ db' = db /\ up' /\ mem' = db /\ faults' = faults /\ waived' = waived
      /\ forfeited' = forfeited /\ spoiled' = spoiled /\ World' = [mem |-> db, db |-> db]
      /\ now \in Nat /\ up' = TRUE
  BY BookingAssumption DEF BInv, Restart, World
<1>2. Stored(db, now, waived, forfeited) /\ Accepts(db)
  BY DEF BInv, Restart
<1>3. Good(World', now, waived, forfeited)
  BY <1>1, <1>2, Restarted
<1>4. faults = 0 => HoldsOk(World')
  BY <1>1 DEF BInv, HoldsOk, SameHolds
<1>5. QED
  BY <1>1, <1>2, <1>3, <1>4 DEF BInv

LEMMA StandsStill ==
  ASSUME BInv, UNCHANGED vars
  PROVE  BInv'
<1>1. /\ now' = now /\ mem' = mem /\ db' = db /\ up' = up /\ faults' = faults
      /\ waived' = waived /\ forfeited' = forfeited /\ spoiled' = spoiled /\ World' = World
  BY DEF vars, World
<1>2. QED
  BY <1>1 DEF BInv

LEMMA StartsEmpty ==
  ASSUME Init
  PROVE  BInv
<1>1. /\ mem = Empty /\ db = Empty /\ now = 0 /\ up = TRUE /\ faults = 0
      /\ waived = {} /\ forfeited = {} /\ spoiled = FALSE
      /\ World = [mem |-> Empty, db |-> Empty]
  BY DEF Init, World
<1>2. Empty \in Copies /\ Indices(Empty) = {} /\ Len(Empty.books) = 0
  BY RowKinds DEF Empty, Copies, Indices
<1>3. /\ \A s \in Spots : Empty.spots[s] = Free
      /\ \A p \in Plates : Empty.active[p] = 0 /\ ActiveBookings(Empty, p) = {}
      /\ NoShows(Empty) = {} /\ \A t, W : Live(Empty, t, W) = {}
  BY <1>2 DEF Empty, ActiveBookings, NoShows, Live
<1>4. Free.st = "Available" /\ \A q : ~HeldBy(Free, q)
  BY RowKinds
<1>5. Stored(Empty, 0, {}, {}) /\ Occupancy(Empty) /\ Single(Empty) /\ Clean(Empty)
  <2>1. Stored(Empty, 0, {}, {})
    BY <1>2, <1>3, BookingAssumption DEF Stored, Unused, Forfeits
  <2>2. Occupancy(Empty)
    BY <1>3, <1>4 DEF Occupancy
  <2>3. Single(Empty)
    BY <1>3, <1>4 DEF Single
  <2>4. Clean(Empty)
    BY <1>2, <1>3, <1>4 DEF Clean, InTurn, Served, NothingLeft
  <2>5. QED
    BY <2>1, <2>2, <2>3, <2>4
<1>6. Accepts(Empty)
  BY <1>2, <1>5, CleanAccepted
<1>7. Good(World, 0, {}, {})
  BY <1>1, <1>5, <1>6, Restarted
<1>8. HoldsOk(World)
  BY <1>1, <1>5 DEF HoldsOk, SameHolds
<1>9. /\ now \in 0 .. MaxTime /\ up \in BOOLEAN /\ faults \in 0 .. MaxFaults
      /\ spoiled \in BOOLEAN /\ waived \subseteq 1 .. MaxBookings
  <2>1. 0 \in 0 .. MaxTime /\ 0 \in 0 .. MaxFaults
    BY BookingAssumption
  <2>2. QED
    BY <1>1, <2>1
<1>10. /\ Good(World, now, waived, forfeited) /\ Stored(db, now, waived, forfeited)
       /\ Single(db) /\ Clean(db) /\ Occupancy(db) /\ mem = db
  BY <1>1, <1>5, <1>7
<1>11. QED
  BY <1>1, <1>8, <1>9, <1>10 DEF BInv

-----------------------------------------------------------------------------
(***************************************************************************)
(* The theorems.                                                           *)
(***************************************************************************)

\* The invariant that carries the others holds of ParkingService for any vehicles,
\* spots, delays and failing writes: each call keeps memory and database alike, the holds
\* of live bookings in place, and, when nothing spoiled it, a database the start accepts.
THEOREM BookingsInductive == Spec => []BInv
<1>1. ASSUME BInv, [Next]_vars PROVE BInv'
  <2>1. ASSUME NEW p \in Plates, Enter(p) PROVE BInv'
    BY <1>1, <2>1, EnterStep
  <2>2. ASSUME NEW p \in Plates, Leave(p) PROVE BInv'
    BY <1>1, <2>2, LeaveStep
  <2>3. ASSUME NEW p \in Plates, UpdateVehicleType(p) PROVE BInv'
    BY <1>1, <2>3, UpdateVehicleTypeStep
  <2>4. ASSUME NEW p \in Plates, Reserve(p) PROVE BInv'
    BY <1>1, <2>4, ReserveStep
  <2>5. ASSUME NEW p \in Plates, CancelReservation(p) PROVE BInv'
    BY <1>1, <2>5, CancelReservationStep
  <2>6. ASSUME NEW p \in Plates, ConfirmBooking(p) PROVE BInv'
    BY <1>1, <2>6, ConfirmBookingStep
  <2>7. ASSUME NEW p \in Plates, CancelBooking(p) PROVE BInv'
    BY <1>1, <2>7, CancelBookingStep
  <2>8. ASSUME NEW p \in Plates, NEW lead \in Leads, CreateBooking(p, lead) PROVE BInv'
    BY <1>1, <2>8, CreateBookingStep
  <2>9. ASSUME NEW s \in Spots, Release(s) PROVE BInv'
    BY <1>1, <2>9, ReleaseStep
  <2>10. CASE Tick
    BY <1>1, <2>10, TickStep
  <2>11. CASE Crash
    BY <1>1, <2>11, CrashStep
  <2>12. CASE Restart
    BY <1>1, <2>12, RestartStep
  <2>13. CASE UNCHANGED vars
    BY <1>1, <2>13, StandsStill
  <2>14. Bookers \subseteq Plates
    BY BookingAssumption
  <2>15. QED
    BY <1>1, <2>1, <2>2, <2>3, <2>4, <2>5, <2>6, <2>7, <2>8, <2>9, <2>10, <2>11, <2>12,
       <2>13, <2>14 DEF Next
<1>2. QED
  BY <1>1, StartsEmpty, PTL DEF Spec

\* What it says of a world in which the bookings are in order.
LEMMA CopyTyped ==
  ASSUME NEW c \in Copies
  PROVE  c \in Copy
<1>1. SpotRows \subseteq [st : {"Available", "Reserved", "Occupied"},
                          by : Plates \union {None}, until : Nat]
  BY DEF SpotRows, Free, Held, Parked
<1>2. QED
  BY <1>1 DEF Copies, Copy

LEMMA InOrder ==
  ASSUME BInv
  PROVE  BookingsSound
<1>1. MaxBookings \in Nat /\ now \in Nat
  BY BookingAssumption DEF BInv
<1>2. db \in Copies /\ Forfeits(db, now, forfeited) /\ Len(db.books) <= MaxBookings
  BY DEF BInv, Stored
<1>3. ASSUME up
      PROVE  /\ World.mem = mem /\ World.db = db /\ World \in Worlds /\ mem \in Copies
             /\ Good(World, now, waived, forfeited)
  BY <1>3, Running DEF Worlds
<1>4. Empty \in Copies
  BY RowKinds DEF Empty, Copies
<1>5. TypeOK
  <2>1. mem \in Copy /\ db \in Copy
    BY <1>2, <1>3, <1>4, CopyTyped DEF BInv
  <2>2. forfeited \subseteq 1 .. MaxBookings
    <3>1. Len(db.books) \in Nat /\ Indices(db) = 1 .. Len(db.books)
      BY <1>2 DEF Copies, Indices
    <3>2. forfeited \subseteq Indices(db)
      BY <1>2 DEF Forfeits
    <3>3. QED
      BY <1>1, <1>2, <3>1, <3>2
  <2>3. QED
    BY <2>1, <2>2 DEF BInv, TypeOK
<1>6. ASSUME up PROVE CopiesAgree
  <2>1. Agree(World)
    BY <1>3, <1>6 DEF Good
  <2>2. QED
    BY <1>3, <1>6, <2>1 DEF Agree, SameBooking, Alike, CopiesAgree
<1>7. ASSUME up PROVE OneClaimEach
  <2> SUFFICES ASSUME NEW p \in Plates
               PROVE  /\ \A i, j \in ActiveBookings(mem, p) : i = j
                      /\ mem.active[p] # 0 =>
                            ActiveBookings(mem, p) \subseteq waived \union forfeited
                      /\ faults = 0 =>
                            \A s, t \in HeldSpots(mem, p) : s = t /\ mem.active[p] = 0
    BY DEF OneClaimEach
  <2>1. \A i, j \in ActiveBookings(mem, p) : i = j
    BY <1>3, <1>7 DEF Good, OneBooking
  <2>2. mem.active[p] # 0 => ActiveBookings(mem, p) \subseteq waived \union forfeited
    BY <1>3, <1>7 DEF Good, Unused
  <2>3. faults = 0 => Single(mem)
    BY <1>3, <1>7 DEF BInv, HoldsOk
  <2>4. QED
    BY <2>1, <2>2, <2>3 DEF Single, HeldSpots
<1>8. ASSUME up PROVE BookingKeepsSpot
  <2> SUFFICES ASSUME NEW i \in Indices(mem) \ waived, mem.books[i].st = "Booked",
                      now < Deadline(mem.books[i])
               PROVE  mem.spots[mem.books[i].spot] =
                          Held(mem.books[i].plate, Deadline(mem.books[i]))
    BY DEF BookingKeepsSpot
  <2>1. i \in Live(mem, now, waived)
    BY DEF Live
  <2>2. QED
    BY <1>3, <1>8, <2>1 DEF Good, Kept, Backs, Hold
<1>9. ForfeitIsFinal
  <2>1. up => Forfeits(mem, now, forfeited)
    BY <1>3 DEF Good
  <2>2. QED
    BY <1>2, <2>1 DEF Forfeits, ForfeitIsFinal
<1>10. QED
  BY <1>5, <1>6, <1>7, <1>8, <1>9 DEF BookingsSound

\* Whichever writes fail and whenever the process stops: memory and database agree on
\* who is parked where and on the bookings; nobody has two bookings; a booking keeps its
\* spot until its deadline unless its driver gave it up; a no-show stays one.
THEOREM BookingsInOrder == Spec => []BookingsSound
<1>1. BInv => BookingsSound
  BY InOrder
<1>2. QED
  BY <1>1, BookingsInductive, PTL

\* The start-up checks accept the database whenever nothing they are known not to accept
\* has happened: the calls on bookings alone never leave one that cannot be started with.
THEOREM BookingsRestartable == Spec => []StartsAgain
<1>1. ASSUME BInv PROVE StartsAgain
  <2>1. ASSUME ~spoiled PROVE Accepts(db)
    <3>1. db \in Copies /\ Occupancy(db) /\ Clean(db)
      BY <1>1, <2>1 DEF BInv, Stored
    <3>2. QED
      BY <3>1, CleanAccepted
  <2>2. QED
    BY <2>1 DEF StartsAgain
<1>2. QED
  BY <1>1, BookingsInductive, PTL
=============================================================================
