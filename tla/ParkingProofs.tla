--------------------------- MODULE ParkingProofs ---------------------------
(***************************************************************************)
(* Proofs about ParkingCore and about EntryPlanner, which composes the     *)
(* core with the asynchronous entry planner, for every value of their      *)
(* constants.                                                              *)
(*                                                                         *)
(* Part 1 is about the core.  It says what the elementary changes of a     *)
(* world preserve (freeing holds, locking spots, parking a car, resolving  *)
(* reservations), shows that every call is made of such changes, and       *)
(* combines them into the theorems about Spec.                             *)
(*                                                                         *)
(* Part 2 is about PlannerSpec, for any queue and any number of retries:   *)
(* the composition keeps what is proved of the core, locks included; no    *)
(* request is forgotten; cars enter only for who asked, as by one entry of *)
(* the core; and refusals have a reason.  The worlds a commit may end in   *)
(* are shown to be sound with the lemmas of part 1, all other calls are    *)
(* steps of the core.                                                      *)
(*                                                                         *)
(* Part 3 shows that both implement ReservationLife: every part of a call  *)
(* takes each reservation at most one step of its life, and a reservation  *)
(* that one part of a call has moved is left alone by the others.          *)
(***************************************************************************)
EXTENDS EntryPlanner, SequenceTheorems, TLAPS

-----------------------------------------------------------------------------
(***************************************************************************)
(* Part 1.  The core.                                                      *)
(***************************************************************************)

Good(w, t) == w \in WorldType /\ DbSound(w) /\ MemorySound(w, t)

Resolved == {"Completed", "Cancelled", "NoShow"}

\* What was resolved in w is the same in v, and so are its receipts.
KeepsResolved(w, v) ==
    \A r \in ResvIds : w.dbResv[r].st \in Resolved =>
        v.dbResv[r] = w.dbResv[r] /\ v.ledger[r] = w.ledger[r]

-----------------------------------------------------------------------------
(***************************************************************************)
(* Rows and tables.                                                        *)
(***************************************************************************)

LEMMA SpotFacts ==
  ASSUME NEW x \in SpotType
  PROVE  /\ x.st \in {"Available", "Reserved", "Occupied"}
         /\ x.st = "Available" <=> x = Free
         /\ x.st # "Available" => x.by \in Plates
         /\ x.st = "Occupied" <=> x = Parked(x.by) /\ x.st = "Occupied"
         /\ x.st = "Reserved" => x = Held(x.by, x.until) /\ x.until \in Nat
BY DEF SpotType, Free, Parked, Held

LEMMA RowTypes ==
  /\ Free \in SpotType
  /\ \A p \in Plates : Parked(p) \in SpotType
  /\ \A p \in Plates, t \in Nat : Held(p, t) \in SpotType
  /\ Free.st = "Available"
  /\ \A p : Parked(p).st = "Occupied" /\ Parked(p).by = p
  /\ \A p, t : Held(p, t).st = "Reserved" /\ Held(p, t).by = p /\ Held(p, t).until = t
BY DEF Free, Parked, Held, SpotType

LEMMA FreeAtType ==
  ASSUME NEW f \in [Spots -> SpotType], NEW S
  PROVE  /\ FreeAt(f, S) \in [Spots -> SpotType]
         /\ \A s \in Spots : FreeAt(f, S)[s] = IF s \in S THEN Free ELSE f[s]
BY DEF FreeAt, SpotType

LEMMA MarkedType ==
  ASSUME NEW f \in [ResvIds -> ResvType], NEW R,
         NEW st \in {"Completed", "CheckedIn", "Cancelled", "NoShow"}
  PROVE  /\ Marked(f, R, st) \in [ResvIds -> ResvType]
         /\ \A r \in ResvIds :
              /\ Marked(f, R, st)[r].plate = f[r].plate
              /\ Marked(f, R, st)[r].spot = f[r].spot
              /\ Marked(f, R, st)[r].start = f[r].start
              /\ Marked(f, R, st)[r].deadline = f[r].deadline
              /\ Marked(f, R, st)[r].charged = f[r].charged
              /\ Marked(f, R, st)[r].st = IF r \in R THEN st ELSE f[r].st
              /\ r \notin R => Marked(f, R, st)[r] = f[r]
BY DEF Marked, ResvType

LEMMA BookedType ==
  ASSUME NEW l \in [ResvIds -> [PaymentKinds -> Nat]], NEW R, NEW kind \in PaymentKinds
  PROVE  /\ Booked(l, R, kind) \in [ResvIds -> [PaymentKinds -> Nat]]
         /\ \A r \in ResvIds : r \notin R => Booked(l, R, kind)[r] = l[r]
         /\ \A r \in ResvIds, k \in PaymentKinds :
              Booked(l, R, kind)[r][k] = IF r \in R /\ k = kind THEN l[r][k] + 1 ELSE l[r][k]
BY DEF Booked

-----------------------------------------------------------------------------
(***************************************************************************)
(* Elementary changes.  u is the world before, v the world after; v is     *)
(* given by its fields.                                                    *)
(***************************************************************************)

\* Spots that are Reserved in memory may be freed in memory and database.
LEMMA FreeingHolds ==
  ASSUME NEW t \in Nat, NEW u, Good(u, t), NEW v \in WorldType, NEW S,
         \A s \in S \cap Spots : u.spots[s].st = "Reserved",
         v.spots = FreeAt(u.spots, S), v.dbSpots = FreeAt(u.dbSpots, S),
         v.resv = u.resv, v.dbResv = u.dbResv, v.active = u.active,
         v.dbActive = u.dbActive, v.ledger = u.ledger, v.nextId = u.nextId
  PROVE  Good(v, t) /\ KeepsResolved(u, v)
<1> USE DEF Good
<1>0. /\ u \in WorldType
      /\ u.spots \in [Spots -> SpotType] /\ u.dbSpots \in [Spots -> SpotType]
      /\ u.dbActive \in [Plates -> Spots \cup {None}]
  BY DEF WorldType
<1>1. \A s \in Spots : /\ v.spots[s] = IF s \in S THEN Free ELSE u.spots[s]
                       /\ v.dbSpots[s] = IF s \in S THEN Free ELSE u.dbSpots[s]
                       /\ s \in S => u.spots[s].st = "Reserved"
  BY <1>0, FreeAtType
<1>2. \A s \in Spots : s \in S => u.dbSpots[s].st = "Reserved"
  BY <1>1, RowTypes DEF MemorySound, Mirrored
<1>3. RowsSound(v) /\ OneOpen(v.dbResv) /\ CheckedInSound(v) /\ LedgerSound(v)
  BY DEF DbSound, RowsSound, OneOpen, CheckedInSound, LedgerSound
<1>4. SpotsMatchRecords(v.dbSpots, v.dbActive)
  BY <1>0, <1>1, <1>2, RowTypes DEF DbSound, SpotsMatchRecords
<1>5. HoldsExplained(v)
  BY <1>1, RowTypes DEF DbSound, HoldsExplained
<1>6. Mirrored(v)
  BY <1>1 DEF MemorySound, Mirrored
<1>7. LocksSound(v)
  <2>1. \A r \in ResvIds : v.resv[r].st = "Confirmed" => v.resv[r].spot \in Spots
    BY DEF DbSound, RowsSound, MemorySound, Mirrored
  <2>2. QED
    BY <1>1, <2>1, RowTypes DEF MemorySound, LocksSound
<1>8. HoldsBacked(v, t)
  BY <1>1, RowTypes DEF MemorySound, HoldsBacked
<1>9. QED
  BY <1>3, <1>4, <1>5, <1>6, <1>7, <1>8 DEF DbSound, MemorySound, KeepsResolved

\* An Available spot may be locked for the Confirmed reservation on it.
LEMMA LockingSpots ==
  ASSUME NEW t \in Nat, NEW u, Good(u, t), NEW v \in WorldType, NEW S,
         \A s \in Spots :
           IF s \in S
           THEN /\ u.spots[s].st = "Available"
                /\ v.dbSpots[s] = v.spots[s]
                /\ \E r \in ResvIds :
                     /\ u.resv[r].st = "Confirmed" /\ u.resv[r].spot = s
                     /\ v.spots[s] = Held(u.resv[r].plate, u.resv[r].deadline)
           ELSE v.spots[s] = u.spots[s] /\ v.dbSpots[s] = u.dbSpots[s],
         v.resv = u.resv, v.dbResv = u.dbResv, v.active = u.active,
         v.dbActive = u.dbActive, v.ledger = u.ledger, v.nextId = u.nextId
  PROVE  Good(v, t) /\ KeepsResolved(u, v)
<1> USE DEF Good
<1>0. /\ u \in WorldType
      /\ u.spots \in [Spots -> SpotType] /\ u.dbSpots \in [Spots -> SpotType]
      /\ u.dbActive \in [Plates -> Spots \cup {None}]
      /\ u.resv = u.dbResv
  BY DEF WorldType, MemorySound, Mirrored
<1>1. \A s \in Spots : s \in S => u.dbSpots[s].st # "Occupied" /\ v.dbSpots[s].st = "Reserved"
  BY <1>0, RowTypes DEF MemorySound, Mirrored
<1>2. RowsSound(v) /\ OneOpen(v.dbResv) /\ CheckedInSound(v) /\ LedgerSound(v)
  BY DEF DbSound, RowsSound, OneOpen, CheckedInSound, LedgerSound
<1>3. SpotsMatchRecords(v.dbSpots, v.dbActive)
  BY <1>0, <1>1, RowTypes DEF DbSound, SpotsMatchRecords
<1>4. HoldsExplained(v)
  <2> SUFFICES ASSUME NEW s \in Spots, v.dbSpots[s].st = "Reserved"
               PROVE  \E r \in ResvIds : /\ v.dbResv[r].st # "Absent"
                                         /\ v.dbResv[r].spot = s
                                         /\ v.dbResv[r].plate = v.dbSpots[s].by
                                         /\ v.dbResv[r].deadline = v.dbSpots[s].until
    BY DEF HoldsExplained
  <2>1. CASE s \in S
    BY <2>1, <1>0, RowTypes
  <2>2. CASE s \notin S
    BY <2>2 DEF DbSound, HoldsExplained
  <2>3. QED
    BY <2>1, <2>2
<1>5. Mirrored(v)
  BY DEF MemorySound, Mirrored
<1>6. LocksSound(v)
  <2> SUFFICES ASSUME NEW r \in ResvIds, v.resv[r].st = "Confirmed",
                      v.spots[v.resv[r].spot].st = "Reserved"
               PROVE  v.spots[v.resv[r].spot] = Held(v.resv[r].plate, v.resv[r].deadline)
    BY DEF LocksSound
  <2>1. v.resv[r].spot \in Spots
    BY <1>0 DEF DbSound, RowsSound
  <2>2. CASE v.resv[r].spot \in S
    <3>1. PICK q \in ResvIds : /\ u.resv[q].st = "Confirmed"
                               /\ u.resv[q].spot = v.resv[r].spot
                               /\ v.spots[v.resv[r].spot]
                                    = Held(u.resv[q].plate, u.resv[q].deadline)
      BY <2>1, <2>2
    <3>2. q = r
      BY <3>1, <1>0 DEF DbSound, OneOpen, Open
    <3>3. QED
      BY <3>1, <3>2
  <2>3. CASE v.resv[r].spot \notin S
    BY <2>1, <2>3 DEF MemorySound, LocksSound
  <2>4. QED
    BY <2>2, <2>3
<1>7. HoldsBacked(v, t)
  <2> SUFFICES ASSUME NEW s \in Spots, v.spots[s].st = "Reserved"
               PROVE  \/ v.spots[s].until < t
                      \/ \E r \in ResvIds : /\ v.resv[r].st = "Confirmed"
                                            /\ v.resv[r].spot = s
                                            /\ v.resv[r].plate = v.spots[s].by
                                            /\ v.resv[r].deadline = v.spots[s].until
    BY DEF HoldsBacked
  <2>1. CASE s \in S
    BY <2>1, RowTypes
  <2>2. CASE s \notin S
    BY <2>2 DEF MemorySound, HoldsBacked
  <2>3. QED
    BY <2>1, <2>2
<1>8. QED
  BY <1>2, <1>3, <1>4, <1>5, <1>6, <1>7 DEF DbSound, MemorySound, KeepsResolved

\* Memory may give up a spot that no car is on, and the database not.
LEMMA DroppingSpot ==
  ASSUME NEW t \in Nat, NEW u, Good(u, t), NEW v \in WorldType, NEW s \in Spots,
         u.spots[s].st # "Occupied",
         v.spots = [u.spots EXCEPT ![s] = Free], v.dbSpots = u.dbSpots,
         v.resv = u.resv, v.dbResv = u.dbResv, v.active = u.active,
         v.dbActive = u.dbActive, v.ledger = u.ledger, v.nextId = u.nextId
  PROVE  Good(v, t) /\ KeepsResolved(u, v)
<1> USE DEF Good
<1>0. /\ u \in WorldType
      /\ u.spots \in [Spots -> SpotType] /\ u.dbSpots \in [Spots -> SpotType]
  BY DEF WorldType
<1>1. \A x \in Spots : v.spots[x] = IF x = s THEN Free ELSE u.spots[x]
  BY <1>0
<1>2. DbSound(v)
  BY DEF DbSound, RowsSound, OneOpen, CheckedInSound, LedgerSound, HoldsExplained
<1>3. Mirrored(v)
  <2>1. u.spots[s] = Free \/ u.spots[s].st = "Reserved"
    BY <1>0, SpotFacts
  <2>2. v.spots[s] = v.dbSpots[s] \/ v.dbSpots[s].st = "Reserved"
    BY <2>1, <1>1 DEF MemorySound, Mirrored
  <2>3. QED
    BY <1>1, <2>2 DEF MemorySound, Mirrored
<1>4. LocksSound(v)
  <2>1. \A r \in ResvIds : v.resv[r].st = "Confirmed" => v.resv[r].spot \in Spots
    BY DEF DbSound, RowsSound, MemorySound, Mirrored
  <2>2. QED
    BY <1>1, <2>1, RowTypes DEF MemorySound, LocksSound
<1>5. HoldsBacked(v, t)
  BY <1>1, RowTypes DEF MemorySound, HoldsBacked
<1>6. QED
  BY <1>2, <1>3, <1>4, <1>5 DEF MemorySound, KeepsResolved

\* A car without a record may be parked on a spot no car is on.
LEMMA ParkingCar ==
  ASSUME NEW t \in Nat, NEW u, Good(u, t), NEW v \in WorldType,
         NEW s \in Spots, NEW p \in Plates,
         u.spots[s].st # "Occupied", u.dbActive[p] = None,
         v.spots = [u.spots EXCEPT ![s] = Parked(p)],
         v.dbSpots = [u.dbSpots EXCEPT ![s] = Parked(p)],
         v.active = [u.active EXCEPT ![p] = s],
         v.dbActive = [u.dbActive EXCEPT ![p] = s],
         v.resv = u.resv, v.dbResv = u.dbResv, v.ledger = u.ledger, v.nextId = u.nextId
  PROVE  Good(v, t) /\ KeepsResolved(u, v)
<1> USE DEF Good
<1>0. /\ u \in WorldType
      /\ u.spots \in [Spots -> SpotType] /\ u.dbSpots \in [Spots -> SpotType]
      /\ u.active \in [Plates -> Spots \cup {None}]
      /\ u.dbActive \in [Plates -> Spots \cup {None}]
      /\ u.resv = u.dbResv /\ u.active = u.dbActive
  BY DEF WorldType, MemorySound, Mirrored
<1>1. \A x \in Spots : /\ v.spots[x] = IF x = s THEN Parked(p) ELSE u.spots[x]
                       /\ v.dbSpots[x] = IF x = s THEN Parked(p) ELSE u.dbSpots[x]
  BY <1>0
<1>2. \A q \in Plates : v.dbActive[q] = IF q = p THEN s ELSE u.dbActive[q]
  BY <1>0
<1>3. u.dbSpots[s].st # "Occupied"
  BY <1>0, RowTypes DEF MemorySound, Mirrored
<1>4. RowsSound(v) /\ OneOpen(v.dbResv) /\ LedgerSound(v)
  BY DEF DbSound, RowsSound, OneOpen, LedgerSound
<1>5. SpotsMatchRecords(v.dbSpots, v.dbActive)
  <2>1. ASSUME NEW x \in Spots, v.dbSpots[x].st = "Occupied"
        PROVE  v.dbSpots[x].by \in Plates /\ v.dbActive[v.dbSpots[x].by] = x
    <3>1. CASE x = s
      BY <3>1, <1>1, <1>2, RowTypes
    <3>2. CASE x # s
      <4>1. u.dbSpots[x].by \in Plates /\ u.dbActive[u.dbSpots[x].by] = x
        BY <2>1, <3>2, <1>1 DEF DbSound, SpotsMatchRecords
      <4>2. u.dbSpots[x].by # p
        BY <4>1, NoneAssumption
      <4>3. QED
        BY <3>2, <4>1, <4>2, <1>1, <1>2
    <3>3. QED
      BY <3>1, <3>2
  <2>2. ASSUME NEW q \in Plates, v.dbActive[q] # None
        PROVE  v.dbSpots[v.dbActive[q]] = Parked(q)
    <3>1. CASE q = p
      BY <3>1, <1>1, <1>2
    <3>2. CASE q # p
      <4>1. u.dbActive[q] \in Spots /\ u.dbSpots[u.dbActive[q]] = Parked(q)
        BY <1>0, <1>2, <2>2, <3>2 DEF DbSound, SpotsMatchRecords
      <4>2. u.dbActive[q] # s
        BY <4>1, <1>3, RowTypes
      <4>3. QED
        BY <3>2, <4>1, <4>2, <1>1, <1>2
    <3>3. QED
      BY <3>1, <3>2
  <2>3. QED
    BY <2>1, <2>2 DEF SpotsMatchRecords
<1>6. CheckedInSound(v)
  <2> SUFFICES ASSUME NEW r \in ResvIds, v.dbResv[r].st = "CheckedIn"
               PROVE  v.dbActive[v.dbResv[r].plate] = v.dbResv[r].spot
    BY DEF CheckedInSound
  <2>1. /\ u.dbActive[u.dbResv[r].plate] = u.dbResv[r].spot
        /\ u.dbResv[r].plate \in Plates /\ u.dbResv[r].spot \in Spots
    BY DEF DbSound, CheckedInSound, RowsSound
  <2>2. u.dbResv[r].plate # p
    BY <2>1, NoneAssumption
  <2>3. QED
    BY <2>1, <2>2, <1>2
<1>7. HoldsExplained(v)
  BY <1>1, RowTypes DEF DbSound, HoldsExplained
<1>8. Mirrored(v)
  BY <1>0, <1>1 DEF MemorySound, Mirrored
<1>9. LocksSound(v)
  <2>1. \A r \in ResvIds : v.resv[r].st = "Confirmed" => v.resv[r].spot \in Spots
    BY <1>0 DEF DbSound, RowsSound
  <2>2. QED
    BY <1>1, <2>1, RowTypes DEF MemorySound, LocksSound
<1>10. HoldsBacked(v, t)
  BY <1>1, RowTypes DEF MemorySound, HoldsBacked
<1>11. QED
  BY <1>4, <1>5, <1>6, <1>7, <1>8, <1>9, <1>10 DEF DbSound, MemorySound, KeepsResolved

\* Confirmed reservations whose cars are parked on their spots may be checked in.
LEMMA Arriving ==
  ASSUME NEW t \in Nat, NEW u, Good(u, t), NEW v \in WorldType, NEW R \in SUBSET ResvIds,
         \A r \in R : /\ u.dbResv[r].st = "Confirmed"
                      /\ u.dbActive[u.dbResv[r].plate] = u.dbResv[r].spot,
         v.resv = v.dbResv, v.dbResv = Marked(u.dbResv, R, "CheckedIn"),
         v.spots = u.spots, v.dbSpots = u.dbSpots, v.active = u.active,
         v.dbActive = u.dbActive, v.ledger = u.ledger, v.nextId = u.nextId
  PROVE  Good(v, t) /\ KeepsResolved(u, v)
<1> USE DEF Good
<1>0. /\ u \in WorldType
      /\ u.dbResv \in [ResvIds -> ResvType]
      /\ u.spots \in [Spots -> SpotType] /\ u.dbSpots \in [Spots -> SpotType]
      /\ u.resv = u.dbResv /\ u.active = u.dbActive
  BY DEF WorldType, MemorySound, Mirrored
<1>1. \A q \in ResvIds :
        /\ v.dbResv[q].plate = u.dbResv[q].plate
        /\ v.dbResv[q].spot = u.dbResv[q].spot
        /\ v.dbResv[q].deadline = u.dbResv[q].deadline
        /\ v.dbResv[q].charged = u.dbResv[q].charged
        /\ v.dbResv[q].st = IF q \in R THEN "CheckedIn" ELSE u.dbResv[q].st
        /\ q \notin R => v.dbResv[q] = u.dbResv[q]
        /\ Open(v.dbResv[q]) <=> Open(u.dbResv[q])
  BY <1>0, MarkedType DEF Open
<1>2. \A r \in R :
      /\ u.dbResv[r].plate \in Plates /\ u.dbResv[r].spot \in Spots
      /\ u.dbSpots[u.dbResv[r].spot] = Parked(u.dbResv[r].plate)
  BY NoneAssumption DEF DbSound, RowsSound, SpotsMatchRecords
<1>3. RowsSound(v)
  BY <1>1 DEF DbSound, RowsSound
<1>4. OneOpen(v.dbResv)
  BY <1>1 DEF DbSound, OneOpen
<1>5. SpotsMatchRecords(v.dbSpots, v.dbActive)
  BY DEF DbSound
<1>6. CheckedInSound(v)
  BY <1>1 DEF DbSound, CheckedInSound
<1>7. HoldsExplained(v)
  BY <1>1 DEF DbSound, HoldsExplained
<1>8. LedgerSound(v)
  BY <1>1 DEF DbSound, LedgerSound, Once
<1>9. Mirrored(v)
  BY <1>0 DEF MemorySound, Mirrored
<1>10. LocksSound(v)
  BY <1>0, <1>1 DEF MemorySound, LocksSound
<1>11. HoldsBacked(v, t)
  <2> SUFFICES ASSUME NEW s \in Spots, v.spots[s].st = "Reserved", ~(v.spots[s].until < t)
               PROVE  \E q \in ResvIds : /\ v.resv[q].st = "Confirmed"
                                         /\ v.resv[q].spot = s
                                         /\ v.resv[q].plate = v.spots[s].by
                                         /\ v.resv[q].deadline = v.spots[s].until
    BY DEF HoldsBacked
  <2>1. PICK q \in ResvIds : /\ u.resv[q].st = "Confirmed" /\ u.resv[q].spot = s
                             /\ u.resv[q].plate = u.spots[s].by
                             /\ u.resv[q].deadline = u.spots[s].until
    BY DEF MemorySound, HoldsBacked
  <2>2. u.dbSpots[s].st = "Reserved"
    BY RowTypes DEF MemorySound, Mirrored
  <2>3. q \notin R
    BY <2>1, <2>2, <1>0, <1>2, RowTypes
  <2>4. QED
    BY <2>1, <2>3, <1>0, <1>1
<1>12. KeepsResolved(u, v)
  BY <1>1 DEF KeepsResolved, Resolved
<1>13. QED
  BY <1>3, <1>4, <1>5, <1>6, <1>7, <1>8, <1>9, <1>10, <1>11, <1>12 DEF DbSound, MemorySound

\* Confirmed reservations that hold nothing any more, or only a lapsed lock, may be
\* cancelled or missed; the receipt goes with the status.
LEMMA Resolving ==
  ASSUME NEW t \in Nat, NEW u, Good(u, t), NEW v \in WorldType, NEW R \in SUBSET ResvIds,
         NEW st, NEW kind, NEW C,
         \/ st = "Cancelled" /\ kind = "refund"
         \/ st = "NoShow" /\ kind = "forfeit",
         C = Charged(u, R),
         \A r \in R : /\ u.dbResv[r].st = "Confirmed"
                      /\ HeldBy(u.spots[u.dbResv[r].spot], u.dbResv[r].plate)
                           => u.dbResv[r].deadline < t,
         v.resv = v.dbResv, v.dbResv = Marked(u.dbResv, R, st),
         v.ledger = Booked(u.ledger, C, kind),
         v.spots = u.spots, v.dbSpots = u.dbSpots, v.active = u.active,
         v.dbActive = u.dbActive, v.nextId = u.nextId
  PROVE  Good(v, t) /\ KeepsResolved(u, v)
<1> USE DEF Good
<1>0. /\ u \in WorldType
      /\ u.dbResv \in [ResvIds -> ResvType]
      /\ u.spots \in [Spots -> SpotType] /\ u.dbSpots \in [Spots -> SpotType]
      /\ u.ledger \in [ResvIds -> [PaymentKinds -> Nat]]
      /\ u.resv = u.dbResv /\ u.active = u.dbActive
      /\ kind \in PaymentKinds
      /\ st \in {"Completed", "CheckedIn", "Cancelled", "NoShow"}
  BY DEF WorldType, MemorySound, Mirrored, PaymentKinds
<1>1. \A q \in ResvIds :
        /\ v.dbResv[q].plate = u.dbResv[q].plate
        /\ v.dbResv[q].spot = u.dbResv[q].spot
        /\ v.dbResv[q].deadline = u.dbResv[q].deadline
        /\ v.dbResv[q].charged = u.dbResv[q].charged
        /\ v.dbResv[q].st = IF q \in R THEN st ELSE u.dbResv[q].st
        /\ q \notin R => v.dbResv[q] = u.dbResv[q]
        /\ Open(v.dbResv[q]) => q \notin R /\ Open(u.dbResv[q])
  BY <1>0, MarkedType DEF Open
<1>2. \A q \in ResvIds : q \in C <=> q \in R /\ u.dbResv[q].charged
  BY <1>0 DEF Charged
<1>3. \A q \in ResvIds :
        /\ q \notin C => v.ledger[q] = u.ledger[q]
        /\ \A k \in PaymentKinds :
             v.ledger[q][k] = IF q \in C /\ k = kind THEN u.ledger[q][k] + 1 ELSE u.ledger[q][k]
  BY <1>0, BookedType
<1>4. RowsSound(v)
  BY <1>1 DEF DbSound, RowsSound
<1>5. OneOpen(v.dbResv)
  BY <1>1 DEF DbSound, OneOpen
<1>6. SpotsMatchRecords(v.dbSpots, v.dbActive)
  BY DEF DbSound
<1>7. CheckedInSound(v)
  BY <1>1, <1>0 DEF DbSound, CheckedInSound
<1>8. HoldsExplained(v)
  BY <1>1 DEF DbSound, HoldsExplained
<1>9. LedgerSound(v)
  <2> SUFFICES ASSUME NEW r \in ResvIds
               PROVE  /\ v.ledger[r]["charge"]  = Once(v.dbResv[r].st # "Absent"    /\ v.dbResv[r].charged)
                      /\ v.ledger[r]["refund"]  = Once(v.dbResv[r].st = "Cancelled" /\ v.dbResv[r].charged)
                      /\ v.ledger[r]["forfeit"] = Once(v.dbResv[r].st = "NoShow"    /\ v.dbResv[r].charged)
                      /\ v.ledger[r]["apply"]   = Once(v.dbResv[r].st = "Completed")
    BY DEF LedgerSound
  <2>1. /\ u.ledger[r]["charge"]  = Once(u.dbResv[r].st # "Absent"    /\ u.dbResv[r].charged)
        /\ u.ledger[r]["refund"]  = Once(u.dbResv[r].st = "Cancelled" /\ u.dbResv[r].charged)
        /\ u.ledger[r]["forfeit"] = Once(u.dbResv[r].st = "NoShow"    /\ u.dbResv[r].charged)
        /\ u.ledger[r]["apply"]   = Once(u.dbResv[r].st = "Completed")
    BY DEF DbSound, LedgerSound
  <2>2. CASE r \in R
    BY <2>1, <2>2, <1>1, <1>2, <1>3 DEF Once, PaymentKinds
  <2>3. CASE r \notin R
    BY <2>1, <2>3, <1>1, <1>2, <1>3
  <2>4. QED
    BY <2>2, <2>3
<1>10. Mirrored(v)
  BY <1>0 DEF MemorySound, Mirrored
<1>11. LocksSound(v)
  BY <1>0, <1>1 DEF MemorySound, LocksSound
<1>12. HoldsBacked(v, t)
  <2> SUFFICES ASSUME NEW s \in Spots, v.spots[s].st = "Reserved", ~(v.spots[s].until < t)
               PROVE  \E q \in ResvIds : /\ v.resv[q].st = "Confirmed"
                                         /\ v.resv[q].spot = s
                                         /\ v.resv[q].plate = v.spots[s].by
                                         /\ v.resv[q].deadline = v.spots[s].until
    BY DEF HoldsBacked
  <2>1. PICK q \in ResvIds : /\ u.resv[q].st = "Confirmed" /\ u.resv[q].spot = s
                             /\ u.resv[q].plate = u.spots[s].by
                             /\ u.resv[q].deadline = u.spots[s].until
    BY DEF MemorySound, HoldsBacked
  <2>2. q \notin R
    BY <2>1, <1>0 DEF HeldBy
  <2>3. QED
    BY <2>1, <2>2, <1>0, <1>1
<1>13. KeepsResolved(u, v)
  BY <1>1, <1>2, <1>3 DEF KeepsResolved, Resolved
<1>14. QED
  BY <1>4, <1>5, <1>6, <1>7, <1>8, <1>9, <1>10, <1>11, <1>12, <1>13 DEF DbSound, MemorySound

\* A car may leave its spot when its checked-in reservation, if any, is completed
\* with it.
LEMMA Departing ==
  ASSUME NEW t \in Nat, NEW u, Good(u, t), NEW v \in WorldType,
         NEW p \in Plates, NEW s \in Spots, NEW R \in SUBSET ResvIds,
         u.dbActive[p] = s,
         \A r \in ResvIds :
           r \in R <=> u.dbResv[r].st = "CheckedIn" /\ u.dbResv[r].plate = p,
         v.resv = v.dbResv, v.dbResv = Marked(u.dbResv, R, "Completed"),
         v.ledger = Booked(u.ledger, R, "apply"),
         \A x \in Spots : /\ v.spots[x] = IF x = s THEN Free ELSE u.spots[x]
                         /\ v.dbSpots[x] = IF x = s THEN Free ELSE u.dbSpots[x],
         \A q \in Plates : v.dbActive[q] = IF q = p THEN None ELSE u.dbActive[q],
         v.active = v.dbActive, v.nextId = u.nextId
  PROVE  Good(v, t) /\ KeepsResolved(u, v)
<1> USE DEF Good
<1>0. /\ u \in WorldType
      /\ u.dbResv \in [ResvIds -> ResvType]
      /\ u.spots \in [Spots -> SpotType] /\ u.dbSpots \in [Spots -> SpotType]
      /\ u.ledger \in [ResvIds -> [PaymentKinds -> Nat]]
      /\ u.active \in [Plates -> Spots \cup {None}]
      /\ u.dbActive \in [Plates -> Spots \cup {None}]
      /\ u.resv = u.dbResv /\ u.active = u.dbActive
      /\ "apply" \in PaymentKinds
  BY DEF WorldType, MemorySound, Mirrored, PaymentKinds
<1>1. \A q \in ResvIds :
        /\ v.dbResv[q].plate = u.dbResv[q].plate
        /\ v.dbResv[q].spot = u.dbResv[q].spot
        /\ v.dbResv[q].deadline = u.dbResv[q].deadline
        /\ v.dbResv[q].charged = u.dbResv[q].charged
        /\ v.dbResv[q].st = IF q \in R THEN "Completed" ELSE u.dbResv[q].st
        /\ q \notin R => v.dbResv[q] = u.dbResv[q]
        /\ Open(v.dbResv[q]) => q \notin R /\ Open(u.dbResv[q])
  BY <1>0, MarkedType DEF Open
<1>2. \A q \in ResvIds :
        /\ q \notin R => v.ledger[q] = u.ledger[q]
        /\ \A k \in PaymentKinds :
             v.ledger[q][k] = IF q \in R /\ k = "apply" THEN u.ledger[q][k] + 1 ELSE u.ledger[q][k]
  BY <1>0, BookedType
<1>3. \A x \in Spots : /\ v.spots[x] = IF x = s THEN Free ELSE u.spots[x]
                       /\ v.dbSpots[x] = IF x = s THEN Free ELSE u.dbSpots[x]
  OBVIOUS
<1>4. \A q \in Plates : v.dbActive[q] = IF q = p THEN None ELSE u.dbActive[q]
  OBVIOUS
<1>5. u.dbSpots[s] = Parked(p)
  BY NoneAssumption DEF DbSound, SpotsMatchRecords
<1>6. RowsSound(v)
  BY <1>1 DEF DbSound, RowsSound
<1>7. OneOpen(v.dbResv)
  BY <1>1 DEF DbSound, OneOpen
<1>8. SpotsMatchRecords(v.dbSpots, v.dbActive)
  <2>1. ASSUME NEW x \in Spots, v.dbSpots[x].st = "Occupied"
        PROVE  v.dbSpots[x].by \in Plates /\ v.dbActive[v.dbSpots[x].by] = x
    <3>1. x # s /\ u.dbSpots[x].by \in Plates /\ u.dbActive[u.dbSpots[x].by] = x
      BY <2>1, <1>3, RowTypes DEF DbSound, SpotsMatchRecords
    <3>2. QED
      BY <3>1, <1>3, <1>4
  <2>2. ASSUME NEW q \in Plates, v.dbActive[q] # None
        PROVE  v.dbSpots[v.dbActive[q]] = Parked(q)
    <3>1. q # p /\ u.dbActive[q] \in Spots /\ u.dbSpots[u.dbActive[q]] = Parked(q)
      BY <1>0, <1>4, <2>2 DEF DbSound, SpotsMatchRecords
    <3>2. u.dbActive[q] # s
      BY <3>1, <1>5, RowTypes
    <3>3. QED
      BY <3>1, <3>2, <1>3, <1>4
  <2>3. QED
    BY <2>1, <2>2 DEF SpotsMatchRecords
<1>9. CheckedInSound(v)
  BY <1>1, <1>4 DEF DbSound, CheckedInSound, RowsSound
<1>10. HoldsExplained(v)
  BY <1>1, <1>3, RowTypes DEF DbSound, HoldsExplained
<1>11. LedgerSound(v)
  <2> SUFFICES ASSUME NEW r \in ResvIds
               PROVE  /\ v.ledger[r]["charge"]  = Once(v.dbResv[r].st # "Absent"    /\ v.dbResv[r].charged)
                      /\ v.ledger[r]["refund"]  = Once(v.dbResv[r].st = "Cancelled" /\ v.dbResv[r].charged)
                      /\ v.ledger[r]["forfeit"] = Once(v.dbResv[r].st = "NoShow"    /\ v.dbResv[r].charged)
                      /\ v.ledger[r]["apply"]   = Once(v.dbResv[r].st = "Completed")
    BY DEF LedgerSound
  <2>1. /\ u.ledger[r]["charge"]  = Once(u.dbResv[r].st # "Absent"    /\ u.dbResv[r].charged)
        /\ u.ledger[r]["refund"]  = Once(u.dbResv[r].st = "Cancelled" /\ u.dbResv[r].charged)
        /\ u.ledger[r]["forfeit"] = Once(u.dbResv[r].st = "NoShow"    /\ u.dbResv[r].charged)
        /\ u.ledger[r]["apply"]   = Once(u.dbResv[r].st = "Completed")
    BY DEF DbSound, LedgerSound
  <2>2. CASE r \in R
    BY <2>1, <2>2, <1>1, <1>2 DEF Once, PaymentKinds
  <2>3. CASE r \notin R
    BY <2>1, <2>3, <1>1, <1>2
  <2>4. QED
    BY <2>2, <2>3
<1>12. Mirrored(v)
  BY <1>0, <1>3 DEF MemorySound, Mirrored
<1>13. LocksSound(v)
  <2>1. \A r \in ResvIds : v.resv[r].st = "Confirmed" =>
          v.resv[r].spot \in Spots /\ u.resv[r].st = "Confirmed" /\ v.resv[r] = u.resv[r]
    BY <1>0, <1>1 DEF DbSound, RowsSound
  <2>2. QED
    BY <2>1, <1>3, RowTypes DEF MemorySound, LocksSound
<1>14. HoldsBacked(v, t)
  <2> SUFFICES ASSUME NEW x \in Spots, v.spots[x].st = "Reserved", ~(v.spots[x].until < t)
               PROVE  \E q \in ResvIds : /\ v.resv[q].st = "Confirmed"
                                         /\ v.resv[q].spot = x
                                         /\ v.resv[q].plate = v.spots[x].by
                                         /\ v.resv[q].deadline = v.spots[x].until
    BY DEF HoldsBacked
  <2>1. x # s
    BY <1>3, RowTypes
  <2>2. PICK q \in ResvIds : /\ u.resv[q].st = "Confirmed" /\ u.resv[q].spot = x
                             /\ u.resv[q].plate = u.spots[x].by
                             /\ u.resv[q].deadline = u.spots[x].until
    BY <2>1, <1>3 DEF MemorySound, HoldsBacked
  <2>3. q \notin R
    BY <2>2, <1>0
  <2>4. QED
    BY <2>1, <2>2, <2>3, <1>0, <1>1, <1>3
<1>15. KeepsResolved(u, v)
  BY <1>1, <1>2 DEF KeepsResolved, Resolved
<1>16. QED
  BY <1>6, <1>7, <1>8, <1>9, <1>10, <1>11, <1>12, <1>13, <1>14, <1>15 DEF DbSound, MemorySound

\* Ids and gateway operations may be used up at will.
LEMMA Bookkeeping ==
  ASSUME NEW t \in Nat, NEW u, Good(u, t), NEW v \in WorldType,
         v.nextId \in u.nextId .. MaxReservations + 1,
         v.spots = u.spots, v.dbSpots = u.dbSpots, v.resv = u.resv, v.dbResv = u.dbResv,
         v.active = u.active, v.dbActive = u.dbActive, v.ledger = u.ledger
  PROVE  Good(v, t) /\ KeepsResolved(u, v)
<1> USE DEF Good
<1>1. RowsSound(v)
  BY BoundAssumption DEF DbSound, RowsSound, ResvIds
<1>2. DbSound(v)
  BY <1>1 DEF DbSound, OneOpen, CheckedInSound, LedgerSound, HoldsExplained
<1>3. MemorySound(v, t)
  BY DEF MemorySound, Mirrored, LocksSound, HoldsBacked
<1>4. QED
  BY <1>2, <1>3 DEF KeepsResolved

\* A fresh id may become a Confirmed reservation, with its charge receipt, when
\* neither its plate nor its spot has an open one and the spot is Available.
LEMMA Ordering ==
  ASSUME NEW t \in Nat, NEW u, Good(u, t), NEW v \in WorldType,
         NEW id \in ResvIds, NEW o \in ResvType, NEW C,
         u.nextId = id, v.nextId = id + 1,
         o.st = "Confirmed", o.plate \in Plates, o.spot \in Spots,
         u.spots[o.spot].st = "Available",
         \A r \in ResvIds : Open(u.dbResv[r]) =>
           u.dbResv[r].plate # o.plate /\ u.dbResv[r].spot # o.spot,
         \A r \in ResvIds : r \in C <=> r = id /\ o.charged,
         v.resv = v.dbResv, v.dbResv = [u.dbResv EXCEPT ![id] = o],
         v.ledger = Booked(u.ledger, C, "charge"),
         v.spots = u.spots, v.dbSpots = u.dbSpots, v.active = u.active,
         v.dbActive = u.dbActive
  PROVE  Good(v, t) /\ KeepsResolved(u, v)
<1> USE DEF Good
<1>0. /\ u \in WorldType
      /\ u.dbResv \in [ResvIds -> ResvType]
      /\ u.spots \in [Spots -> SpotType] /\ u.dbSpots \in [Spots -> SpotType]
      /\ u.ledger \in [ResvIds -> [PaymentKinds -> Nat]]
      /\ u.resv = u.dbResv /\ u.active = u.dbActive
      /\ "charge" \in PaymentKinds
  BY DEF WorldType, MemorySound, Mirrored, PaymentKinds
<1>1. \A q \in ResvIds : v.dbResv[q] = IF q = id THEN o ELSE u.dbResv[q]
  BY <1>0
<1>2. \A q \in ResvIds :
        /\ q \notin C => v.ledger[q] = u.ledger[q]
        /\ \A k \in PaymentKinds :
             v.ledger[q][k] = IF q \in C /\ k = "charge" THEN u.ledger[q][k] + 1 ELSE u.ledger[q][k]
  BY <1>0, BookedType
<1>3. u.dbResv[id].st = "Absent"
  BY DEF DbSound, RowsSound, ResvIds
<1>4. RowsSound(v)
  BY <1>1, BoundAssumption DEF DbSound, RowsSound, ResvIds
<1>5. OneOpen(v.dbResv)
  BY <1>1 DEF DbSound, OneOpen
<1>6. SpotsMatchRecords(v.dbSpots, v.dbActive)
  BY DEF DbSound
<1>7. CheckedInSound(v)
  BY <1>1 DEF DbSound, CheckedInSound
<1>8. HoldsExplained(v)
  <2> SUFFICES ASSUME NEW s \in Spots, v.dbSpots[s].st = "Reserved"
               PROVE  \E r \in ResvIds : /\ v.dbResv[r].st # "Absent"
                                         /\ v.dbResv[r].spot = s
                                         /\ v.dbResv[r].plate = v.dbSpots[s].by
                                         /\ v.dbResv[r].deadline = v.dbSpots[s].until
    BY DEF HoldsExplained
  <2>1. PICK r \in ResvIds : /\ u.dbResv[r].st # "Absent"
                             /\ u.dbResv[r].spot = s
                             /\ u.dbResv[r].plate = v.dbSpots[s].by
                             /\ u.dbResv[r].deadline = v.dbSpots[s].until
    BY DEF DbSound, HoldsExplained
  <2>2. QED
    BY <2>1, <1>1, <1>3
<1>9. LedgerSound(v)
  <2> SUFFICES ASSUME NEW r \in ResvIds
               PROVE  /\ v.ledger[r]["charge"]  = Once(v.dbResv[r].st # "Absent"    /\ v.dbResv[r].charged)
                      /\ v.ledger[r]["refund"]  = Once(v.dbResv[r].st = "Cancelled" /\ v.dbResv[r].charged)
                      /\ v.ledger[r]["forfeit"] = Once(v.dbResv[r].st = "NoShow"    /\ v.dbResv[r].charged)
                      /\ v.ledger[r]["apply"]   = Once(v.dbResv[r].st = "Completed")
    BY DEF LedgerSound
  <2>1. /\ u.ledger[r]["charge"]  = Once(u.dbResv[r].st # "Absent"    /\ u.dbResv[r].charged)
        /\ u.ledger[r]["refund"]  = Once(u.dbResv[r].st = "Cancelled" /\ u.dbResv[r].charged)
        /\ u.ledger[r]["forfeit"] = Once(u.dbResv[r].st = "NoShow"    /\ u.dbResv[r].charged)
        /\ u.ledger[r]["apply"]   = Once(u.dbResv[r].st = "Completed")
    BY DEF DbSound, LedgerSound
  <2>2. CASE r = id
    BY <2>1, <2>2, <1>1, <1>2, <1>3 DEF Once, PaymentKinds
  <2>3. CASE r # id
    BY <2>1, <2>3, <1>1, <1>2
  <2>4. QED
    BY <2>2, <2>3
<1>10. Mirrored(v)
  BY <1>0 DEF MemorySound, Mirrored
<1>11. LocksSound(v)
  BY <1>0, <1>1 DEF MemorySound, LocksSound
<1>12. HoldsBacked(v, t)
  <2> SUFFICES ASSUME NEW s \in Spots, v.spots[s].st = "Reserved", ~(v.spots[s].until < t)
               PROVE  \E q \in ResvIds : /\ v.resv[q].st = "Confirmed"
                                         /\ v.resv[q].spot = s
                                         /\ v.resv[q].plate = v.spots[s].by
                                         /\ v.resv[q].deadline = v.spots[s].until
    BY DEF HoldsBacked
  <2>1. PICK q \in ResvIds : /\ u.resv[q].st = "Confirmed" /\ u.resv[q].spot = s
                             /\ u.resv[q].plate = u.spots[s].by
                             /\ u.resv[q].deadline = u.spots[s].until
    BY DEF MemorySound, HoldsBacked
  <2>2. q # id
    BY <2>1, <1>0, <1>3
  <2>3. QED
    BY <2>1, <2>2, <1>0, <1>1
<1>13. KeepsResolved(u, v)
  BY <1>1, <1>2, <1>3 DEF KeepsResolved, Resolved
<1>14. QED
  BY <1>4, <1>5, <1>6, <1>7, <1>8, <1>9, <1>10, <1>11, <1>12, <1>13 DEF DbSound, MemorySound

LEMMA KeepsTransitive ==
  ASSUME NEW u, NEW v, NEW w, KeepsResolved(u, v), KeepsResolved(v, w)
  PROVE  KeepsResolved(u, w)
BY DEF KeepsResolved

-----------------------------------------------------------------------------
(***************************************************************************)
(* The parts of the calls.                                                 *)
(***************************************************************************)

LEMMA ExpireGood ==
  ASSUME NEW t \in Nat, NEW w, Good(w, t), NEW F
  PROVE  Good(Expire(w, t, F), t) /\ KeepsResolved(w, Expire(w, t, F))
<1> DEFINE S == Lapsed(w, t, F)
           v == Expire(w, t, F)
<1>0. w \in WorldType
  BY DEF Good
<1>1. v = [w EXCEPT !.spots = FreeAt(w.spots, S), !.dbSpots = FreeAt(w.dbSpots, S)]
  BY DEF Expire
<1>2. \A s \in S \cap Spots : w.spots[s].st = "Reserved"
  BY DEF Lapsed
<1> HIDE DEF S, v
<1>3. FreeAt(w.spots, S) \in [Spots -> SpotType] /\ FreeAt(w.dbSpots, S) \in [Spots -> SpotType]
  BY <1>0, FreeAtType DEF WorldType
<1>4. v \in WorldType
  BY <1>0, <1>1, <1>3 DEF WorldType
<1>5. /\ v.spots = FreeAt(w.spots, S) /\ v.dbSpots = FreeAt(w.dbSpots, S)
      /\ v.resv = w.resv /\ v.dbResv = w.dbResv /\ v.active = w.active
      /\ v.dbActive = w.dbActive /\ v.ledger = w.ledger /\ v.nextId = w.nextId
  BY <1>0, <1>1 DEF WorldType
<1>6. Good(v, t) /\ KeepsResolved(w, v)
  BY <1>2, <1>4, <1>5, FreeingHolds
<1>7. QED
  BY <1>6 DEF v

LEMMA SettleGood ==
  ASSUME NEW t \in Nat, NEW w, Good(w, t), NEW F
  PROVE  Good(SettleNoShows(w, t, F), t) /\ KeepsResolved(w, SettleNoShows(w, t, F))
<1> DEFINE S == Unlocked(w, t, F)
           R == Settled(w, t, F)
           L == Late(w, t)
           C == Charged(w, R)
           D == Charged(w, L)
           u == [w EXCEPT !.spots = FreeAt(w.spots, S), !.dbSpots = FreeAt(w.dbSpots, S)]
           v == SettleNoShows(w, t, F)
<1>0. /\ w \in WorldType
      /\ w.resv = w.dbResv
      /\ "forfeit" \in PaymentKinds
  BY DEF Good, MemorySound, Mirrored, PaymentKinds
<1>1. v = [w EXCEPT !.spots   = FreeAt(w.spots, S),
                    !.dbSpots = FreeAt(w.dbSpots, S),
                    !.resv    = Marked(w.resv, R, "NoShow"),
                    !.dbResv  = Marked(w.dbResv, R, "NoShow"),
                    !.ledger  = Booked(w.ledger, C, "forfeit"),
                    !.gateway = Booked(w.gateway, D, "forfeit")]
  BY DEF SettleNoShows
<1>2. /\ \A s \in S \cap Spots : w.spots[s].st = "Reserved"
      /\ R \in SUBSET ResvIds
      /\ \A r \in R : w.dbResv[r].st = "Confirmed" /\ t > w.dbResv[r].deadline
  BY <1>0 DEF Unlocked, Settled, Late, HeldBy
<1> HIDE DEF S, R, L, D, v
<1>3. /\ FreeAt(w.spots, S) \in [Spots -> SpotType] /\ FreeAt(w.dbSpots, S) \in [Spots -> SpotType]
      /\ Marked(w.resv, R, "NoShow") \in [ResvIds -> ResvType]
      /\ Marked(w.dbResv, R, "NoShow") \in [ResvIds -> ResvType]
      /\ Booked(w.ledger, C, "forfeit") \in [ResvIds -> [PaymentKinds -> Nat]]
      /\ Booked(w.gateway, D, "forfeit") \in [ResvIds -> [PaymentKinds -> Nat]]
  <2> HIDE DEF C
  <2>1. /\ w.spots \in [Spots -> SpotType] /\ w.dbSpots \in [Spots -> SpotType]
        /\ w.resv \in [ResvIds -> ResvType] /\ w.dbResv \in [ResvIds -> ResvType]
        /\ w.ledger \in [ResvIds -> [PaymentKinds -> Nat]]
        /\ w.gateway \in [ResvIds -> [PaymentKinds -> Nat]]
    BY <1>0 DEF WorldType
  <2>2. FreeAt(w.spots, S) \in [Spots -> SpotType] /\ FreeAt(w.dbSpots, S) \in [Spots -> SpotType]
    BY <2>1, FreeAtType
  <2>3. /\ Marked(w.resv, R, "NoShow") \in [ResvIds -> ResvType]
        /\ Marked(w.dbResv, R, "NoShow") \in [ResvIds -> ResvType]
    BY <2>1, MarkedType
  <2>4. /\ Booked(w.ledger, C, "forfeit") \in [ResvIds -> [PaymentKinds -> Nat]]
        /\ Booked(w.gateway, D, "forfeit") \in [ResvIds -> [PaymentKinds -> Nat]]
    BY <1>0, <2>1, BookedType
  <2>5. QED
    BY <2>2, <2>3, <2>4
<1>4. C = Charged(u, R)
  BY <1>0 DEF Charged, WorldType
<1> HIDE DEF C
<1>5. u \in WorldType /\ v \in WorldType
  BY <1>0, <1>1, <1>3 DEF WorldType
<1>6. /\ u.spots = FreeAt(w.spots, S) /\ u.dbSpots = FreeAt(w.dbSpots, S)
      /\ u.resv = w.resv /\ u.dbResv = w.dbResv /\ u.active = w.active
      /\ u.dbActive = w.dbActive /\ u.ledger = w.ledger /\ u.nextId = w.nextId
  BY <1>0 DEF WorldType
<1>7. /\ v.spots = FreeAt(w.spots, S) /\ v.dbSpots = FreeAt(w.dbSpots, S)
      /\ v.resv = Marked(w.resv, R, "NoShow") /\ v.dbResv = Marked(w.dbResv, R, "NoShow")
      /\ v.active = w.active /\ v.dbActive = w.dbActive
      /\ v.ledger = Booked(w.ledger, C, "forfeit") /\ v.nextId = w.nextId
  BY <1>0, <1>1 DEF WorldType
<1> HIDE DEF u
<1>8. Good(u, t) /\ KeepsResolved(w, u)
  BY <1>2, <1>5, <1>6, FreeingHolds
<1>9. v.resv = v.dbResv /\ v.dbResv = Marked(u.dbResv, R, "NoShow")
  BY <1>0, <1>6, <1>7
<1>10. \A r \in R : /\ u.dbResv[r].st = "Confirmed"
                    /\ u.dbResv[r].deadline < t
  <2>1. \A r \in ResvIds : w.dbResv[r].deadline \in Nat
    BY <1>0 DEF WorldType, ResvType
  <2>2. QED
    BY <1>2, <1>6, <2>1
<1>11. Good(v, t) /\ KeepsResolved(u, v)
  <2>1. /\ v.ledger = Booked(u.ledger, C, "forfeit") /\ v.spots = u.spots
        /\ v.dbSpots = u.dbSpots /\ v.active = u.active
        /\ v.dbActive = u.dbActive /\ v.nextId = u.nextId
    BY <1>6, <1>7
  <2>2. QED
    BY <1>2, <1>4, <1>5, <1>8, <1>9, <1>10, <2>1, Resolving
<1>12. QED
  BY <1>8, <1>11, KeepsTransitive DEF v

LEMMA RelockGood ==
  ASSUME NEW t \in Nat, NEW w, Good(w, t), NEW F
  PROVE  Good(Relock(w, t, F), t) /\ KeepsResolved(w, Relock(w, t, F))
<1> DEFINE S == {s \in Spots : w.spots[s].st = "Available" /\ Takers(w, t, s, F) # {}}
           taker(s) == CHOOSE r \in Takers(w, t, s, F) : TRUE
           lock(s) == Held(w.resv[taker(s)].plate, w.resv[taker(s)].deadline)
           f == Relocked(w.spots, w, t, F)
           g == Relocked(w.dbSpots, w, t, F)
           v == Relock(w, t, F)
<1>0. /\ w \in WorldType
      /\ w.resv = w.dbResv
      /\ w.spots \in [Spots -> SpotType] /\ w.dbSpots \in [Spots -> SpotType]
      /\ w.resv \in [ResvIds -> ResvType]
  BY DEF Good, MemorySound, Mirrored, WorldType
<1>1. v = [w EXCEPT !.spots = f, !.dbSpots = g]
  BY DEF Relock
<1>2. /\ f = [s \in Spots |-> IF s \in S THEN lock(s) ELSE w.spots[s]]
      /\ g = [s \in Spots |-> IF s \in S THEN lock(s) ELSE w.dbSpots[s]]
  BY DEF Relocked
<1>3. \A s \in S : /\ w.spots[s].st = "Available"
                   /\ taker(s) \in ResvIds
                   /\ w.resv[taker(s)].st = "Confirmed"
                   /\ w.resv[taker(s)].spot = s
  BY DEF Takers
<1>4. \A s \in S : lock(s) \in SpotType
  <2>1. \A s \in S : w.resv[taker(s)].plate \in Plates /\ w.resv[taker(s)].deadline \in Nat
    BY <1>0, <1>3 DEF Good, DbSound, RowsSound, ResvType
  <2>2. QED
    BY <2>1, RowTypes
<1>5. f \in [Spots -> SpotType] /\ g \in [Spots -> SpotType]
  <2> HIDE DEF lock, S
  <2>1. QED
    BY <1>0, <1>2, <1>4
<1>6. \A s \in Spots :
        IF s \in S
        THEN /\ w.spots[s].st = "Available"
             /\ g[s] = f[s]
             /\ \E r \in ResvIds :
                  /\ w.resv[r].st = "Confirmed" /\ w.resv[r].spot = s
                  /\ f[s] = Held(w.resv[r].plate, w.resv[r].deadline)
        ELSE f[s] = w.spots[s] /\ g[s] = w.dbSpots[s]
  <2>1. \A s \in Spots : /\ f[s] = IF s \in S THEN lock(s) ELSE w.spots[s]
                         /\ g[s] = IF s \in S THEN lock(s) ELSE w.dbSpots[s]
    <3> HIDE DEF lock, S, f, g
    <3>1. QED
      BY <1>2
  <2> HIDE DEF S, f, g, taker
  <2>2. QED
    BY <1>3, <2>1
<1> HIDE DEF S, f, g, v
<1>7. v \in WorldType
  BY <1>0, <1>1, <1>5 DEF WorldType
<1>8. /\ v.spots = f /\ v.dbSpots = g
      /\ v.resv = w.resv /\ v.dbResv = w.dbResv /\ v.active = w.active
      /\ v.dbActive = w.dbActive /\ v.ledger = w.ledger /\ v.nextId = w.nextId
  BY <1>0, <1>1 DEF WorldType
<1>9. \A s \in Spots :
        IF s \in S
        THEN /\ w.spots[s].st = "Available"
             /\ v.dbSpots[s] = v.spots[s]
             /\ \E r \in ResvIds :
                  /\ w.resv[r].st = "Confirmed" /\ w.resv[r].spot = s
                  /\ v.spots[s] = Held(w.resv[r].plate, w.resv[r].deadline)
        ELSE v.spots[s] = w.spots[s] /\ v.dbSpots[s] = w.dbSpots[s]
  BY <1>6, <1>8
<1>10. Good(v, t) /\ KeepsResolved(w, v)
  BY <1>7, <1>8, <1>9, LockingSpots
<1>11. QED
  BY <1>10 DEF v

LEMMA SweepGood ==
  ASSUME NEW t \in Nat, NEW w, Good(w, t), NEW F
  PROVE  Good(Sweep(w, t, F), t) /\ KeepsResolved(w, Sweep(w, t, F))
BY SettleGood, RelockGood, KeepsTransitive DEF Sweep

LEMMA OccupyGood ==
  ASSUME NEW t \in Nat, NEW w, Good(w, t), NEW F, NEW p \in Plates, NEW s \in Spots,
         w.spots[s].st # "Occupied"
  PROVE  /\ Good(OccupyAndRecord(w, p, s, F), t)
         /\ KeepsResolved(w, OccupyAndRecord(w, p, s, F))
<1> DEFINE a == [w.spots EXCEPT ![s] = Free]
           b == [w.spots EXCEPT ![s] = Parked(p)]
           c == [w.dbSpots EXCEPT ![s] = Parked(p)]
           d == [w.active EXCEPT ![p] = s]
           e == [w.dbActive EXCEPT ![p] = s]
           dropped == [w EXCEPT !.spots = a]
           parked == [w EXCEPT !.spots = b, !.active = d, !.dbSpots = c, !.dbActive = e]
<1>0. w \in WorldType
  BY DEF Good
<1>1. OccupyAndRecord(w, p, s, F) =
        IF <<"entry", p>> \in F \/ w.dbActive[p] # None THEN dropped ELSE parked
  BY DEF OccupyAndRecord
<1>2. /\ a \in [Spots -> SpotType] /\ b \in [Spots -> SpotType] /\ c \in [Spots -> SpotType]
      /\ d \in [Plates -> Spots \cup {None}] /\ e \in [Plates -> Spots \cup {None}]
  BY <1>0, RowTypes DEF WorldType
<1>3. dropped \in WorldType /\ parked \in WorldType
  <2> HIDE DEF a, b, c, d, e
  <2>1. QED
    BY <1>0, <1>2 DEF WorldType
<1>4. /\ dropped.spots = a /\ dropped.dbSpots = w.dbSpots
      /\ dropped.resv = w.resv /\ dropped.dbResv = w.dbResv /\ dropped.active = w.active
      /\ dropped.dbActive = w.dbActive /\ dropped.ledger = w.ledger
      /\ dropped.nextId = w.nextId
  <2> HIDE DEF a, b, c, d, e
  <2>1. QED
    BY <1>0 DEF WorldType
<1>5. /\ parked.spots = b /\ parked.dbSpots = c
      /\ parked.resv = w.resv /\ parked.dbResv = w.dbResv /\ parked.active = d
      /\ parked.dbActive = e /\ parked.ledger = w.ledger
      /\ parked.nextId = w.nextId
  <2> HIDE DEF a, b, c, d, e
  <2>1. QED
    BY <1>0 DEF WorldType
<1> HIDE DEF dropped, parked
<1>6. Good(dropped, t) /\ KeepsResolved(w, dropped)
  BY <1>3, <1>4, DroppingSpot
<1>7. ASSUME w.dbActive[p] = None
      PROVE  Good(parked, t) /\ KeepsResolved(w, parked)
  BY <1>3, <1>5, <1>7, ParkingCar
<1>8. QED
  BY <1>1, <1>6, <1>7

LEMMA CheckInLockGood ==
  ASSUME NEW t \in Nat, NEW w, Good(w, t), NEW F, NEW r \in ResvIds,
         w.resv[r].st = "Confirmed"
  PROVE  /\ Good(CheckInLock(w, r, F), t)
         /\ KeepsResolved(w, CheckInLock(w, r, F))
         /\ CheckInLock(w, r, F).resv = w.resv
         /\ CheckInLock(w, r, F).active = w.active
<1> DEFINE s == w.resv[r].spot
           h == Held(w.resv[r].plate, w.resv[r].deadline)
           a == [w.spots EXCEPT ![s] = h]
           b == [w.dbSpots EXCEPT ![s] = h]
           v == [w EXCEPT !.spots = a, !.dbSpots = b]
           S == {s}
<1>0. w \in WorldType /\ w.resv = w.dbResv
  BY DEF Good, MemorySound, Mirrored
<1>1. CheckInLock(w, r, F) =
        IF w.spots[s].st = "Available" /\ <<"checkinLock", r>> \notin F THEN v ELSE w
  BY DEF CheckInLock
<1>2. s \in Spots /\ h \in SpotType
  <2>1. w.resv[r].plate \in Plates /\ w.resv[r].spot \in Spots /\ w.resv[r].deadline \in Nat
    BY <1>0 DEF Good, DbSound, RowsSound, WorldType, ResvType
  <2>2. QED
    BY <2>1, RowTypes
<1>3. /\ a \in [Spots -> SpotType] /\ b \in [Spots -> SpotType]
      /\ \A x \in Spots : /\ a[x] = IF x = s THEN h ELSE w.spots[x]
                          /\ b[x] = IF x = s THEN h ELSE w.dbSpots[x]
  <2> HIDE DEF h, s
  <2>1. QED
    BY <1>0, <1>2 DEF WorldType
<1> HIDE DEF a, b
<1>4. v \in WorldType
  BY <1>0, <1>3 DEF WorldType
<1>5. /\ v.spots = a /\ v.dbSpots = b
      /\ v.resv = w.resv /\ v.dbResv = w.dbResv /\ v.active = w.active
      /\ v.dbActive = w.dbActive /\ v.ledger = w.ledger /\ v.nextId = w.nextId
  BY <1>0 DEF WorldType
<1>6. ASSUME w.spots[s].st = "Available"
      PROVE  Good(v, t) /\ KeepsResolved(w, v)
  <2>1. \A x \in Spots :
          IF x \in S
          THEN /\ w.spots[x].st = "Available"
               /\ v.dbSpots[x] = v.spots[x]
               /\ \E q \in ResvIds :
                    /\ w.resv[q].st = "Confirmed" /\ w.resv[q].spot = x
                    /\ v.spots[x] = Held(w.resv[q].plate, w.resv[q].deadline)
          ELSE v.spots[x] = w.spots[x] /\ v.dbSpots[x] = w.dbSpots[x]
    <3> HIDE DEF v
    <3>1. QED
      BY <1>3, <1>5, <1>6
  <2> HIDE DEF S, v
  <2>2. QED
    BY <1>4, <1>5, <2>1, LockingSpots
<1>7. KeepsResolved(w, w)
  BY DEF KeepsResolved
<1> HIDE DEF v
<1>8. QED
  BY <1>1, <1>5, <1>6, <1>7

LEMMA CheckInSpotGood ==
  ASSUME NEW t \in Nat, NEW w, Good(w, t), NEW F, NEW r \in ResvIds,
         w.resv[r].st = "Confirmed"
  PROVE  /\ Good(CheckInSpot(w, r, F).w, t)
         /\ KeepsResolved(w, CheckInSpot(w, r, F).w)
<1> DEFINE s == w.resv[r].spot
           p == w.resv[r].plate
           h == Held(p, w.resv[r].deadline)
           R == {r}
           a == [w.spots EXCEPT ![s] = h]
           b == [w.spots EXCEPT ![s] = Parked(p)]
           c == [w.dbSpots EXCEPT ![s] = Parked(p)]
           d == [w.active EXCEPT ![p] = s]
           e == [w.dbActive EXCEPT ![p] = s]
           f == Marked(w.resv, R, "CheckedIn")
           g == Marked(w.dbResv, R, "CheckedIn")
           undone == [w EXCEPT !.spots = a]
           u == [w EXCEPT !.spots = b, !.active = d, !.dbSpots = c, !.dbActive = e]
           v == [w EXCEPT !.spots = b, !.active = d, !.dbSpots = c, !.dbActive = e,
                          !.resv = f, !.dbResv = g]
<1>0. w \in WorldType /\ w.resv = w.dbResv
  BY DEF Good, MemorySound, Mirrored
<1>1. /\ ~HeldBy(w.spots[s], p) => CheckInSpot(w, r, F).w = w
      /\ HeldBy(w.spots[s], p) /\ (<<"checkin", r>> \in F \/ w.dbActive[p] # None)
           => CheckInSpot(w, r, F).w = undone
      /\ HeldBy(w.spots[s], p) /\ ~(<<"checkin", r>> \in F \/ w.dbActive[p] # None)
           => CheckInSpot(w, r, F).w = v
  BY DEF CheckInSpot
<1>2. s \in Spots /\ p \in Plates
  BY <1>0 DEF Good, DbSound, RowsSound
<1>3. ASSUME HeldBy(w.spots[s], p)
      PROVE  undone = w
  <2>1. w.spots[s] = h
    BY <1>3 DEF HeldBy, Good, MemorySound, LocksSound
  <2>2. a = w.spots
    <3> HIDE DEF h, s
    <3>1. QED
      BY <2>1, <1>0, <1>2 DEF WorldType
  <2> HIDE DEF a
  <2>3. QED
    BY <2>2, <1>0 DEF WorldType
<1>4. KeepsResolved(w, w)
  BY DEF KeepsResolved
<1>5. ASSUME HeldBy(w.spots[s], p), w.dbActive[p] = None
      PROVE  Good(v, t) /\ KeepsResolved(w, v)
  <2>1. /\ b \in [Spots -> SpotType] /\ c \in [Spots -> SpotType]
        /\ d \in [Plates -> Spots \cup {None}] /\ e \in [Plates -> Spots \cup {None}]
        /\ f \in [ResvIds -> ResvType] /\ g \in [ResvIds -> ResvType]
    <3> HIDE DEF s, p, R
    <3>1. QED
      BY <1>0, <1>2, RowTypes, MarkedType DEF WorldType
  <2>2. /\ R \in SUBSET ResvIds
        /\ \A q \in R : q = r
    OBVIOUS
  <2>3. e[p] = s
    <3> HIDE DEF s, p
    <3>1. QED
      BY <1>0, <1>2 DEF WorldType
  <2>4. w.spots[s].st # "Occupied"
    BY <1>5 DEF HeldBy
  <2>5. u \in WorldType /\ v \in WorldType
    <3> HIDE DEF b, c, d, e, f, g
    <3>1. QED
      BY <1>0, <2>1 DEF WorldType
  <2>6. /\ u.spots = b /\ u.dbSpots = c /\ u.active = d /\ u.dbActive = e
        /\ u.resv = w.resv /\ u.dbResv = w.dbResv /\ u.ledger = w.ledger
        /\ u.nextId = w.nextId
    <3> HIDE DEF b, c, d, e, f, g
    <3>1. QED
      BY <1>0 DEF WorldType
  <2>7. /\ v.spots = b /\ v.dbSpots = c /\ v.active = d /\ v.dbActive = e
        /\ v.resv = f /\ v.dbResv = g /\ v.ledger = w.ledger
        /\ v.nextId = w.nextId
    <3> HIDE DEF b, c, d, e, f, g
    <3>1. QED
      BY <1>0 DEF WorldType
  <2> HIDE DEF u, v
  <2>8. Good(u, t) /\ KeepsResolved(w, u)
    <3> HIDE DEF s, p
    <3>1. QED
      BY <1>2, <1>5, <2>4, <2>5, <2>6, ParkingCar
  <2>9. \A q \in R : /\ u.dbResv[q].st = "Confirmed"
                     /\ u.dbActive[u.dbResv[q].plate] = u.dbResv[q].spot
    <3> HIDE DEF b, c, d, e, f, g
    <3>1. QED
      BY <1>0, <2>2, <2>3, <2>6
  <2>10. v.resv = v.dbResv /\ v.dbResv = Marked(u.dbResv, R, "CheckedIn")
    <3> HIDE DEF R
    <3>1. QED
      BY <1>0, <2>6, <2>7
  <2>11. Good(v, t) /\ KeepsResolved(u, v)
    <3>1. /\ v.spots = u.spots /\ v.dbSpots = u.dbSpots /\ v.active = u.active
          /\ v.dbActive = u.dbActive /\ v.ledger = u.ledger /\ v.nextId = u.nextId
      BY <2>6, <2>7
    <3> HIDE DEF R
    <3>2. QED
      BY <2>2, <2>5, <2>8, <2>9, <2>10, <3>1, Arriving
  <2>12. QED
    BY <2>8, <2>11, KeepsTransitive
<1> HIDE DEF undone, v, s, p
<1>6. QED
  BY <1>1, <1>3, <1>4, <1>5

LEMMA CheckInGood ==
  ASSUME NEW t \in Nat, NEW w, Good(w, t), NEW F, NEW p
  PROVE  /\ Good(CheckInImpl(w, t, p, F).w, t)
         /\ KeepsResolved(w, CheckInImpl(w, t, p, F).w)
<1> DEFINE u == Sweep(w, t, F)
           due == Due(u, t, p)
           r == CHOOSE q \in due : TRUE
           v == CheckInLock(u, r, F)
<1>1. Good(u, t) /\ KeepsResolved(w, u)
  BY SweepGood
<1>2. CheckInImpl(w, t, p, F).w = IF due = {} THEN u ELSE CheckInSpot(v, r, F).w
  BY DEF CheckInImpl
<1>3. ASSUME due # {}
      PROVE  /\ Good(CheckInSpot(v, r, F).w, t)
             /\ KeepsResolved(u, CheckInSpot(v, r, F).w)
  <2>1. r \in ResvIds /\ u.resv[r].st = "Confirmed"
    <3>1. r \in due
      BY <1>3
    <3>2. QED
      BY <3>1 DEF Due
  <2> HIDE DEF u, r
  <2>2. Good(v, t) /\ KeepsResolved(u, v) /\ v.resv = u.resv
    BY <1>1, <2>1, CheckInLockGood
  <2> HIDE DEF v
  <2>3. Good(CheckInSpot(v, r, F).w, t) /\ KeepsResolved(v, CheckInSpot(v, r, F).w)
    BY <2>1, <2>2, CheckInSpotGood
  <2>4. QED
    BY <2>2, <2>3, KeepsTransitive
<1> HIDE DEF u, due, r, v
<1>4. QED
  BY <1>1, <1>2, <1>3, KeepsTransitive

LEMMA LeaveGood ==
  ASSUME NEW t \in Nat, NEW w0, Good(w0, t), NEW F, NEW p \in Plates
  PROVE  /\ Good(LeaveImpl(w0, t, p, F).w, t)
         /\ KeepsResolved(w0, LeaveImpl(w0, t, p, F).w)
<1> DEFINE w == Expire(w0, t, F)
           s == w.active[p]
           R == ServedBy(w, p)
           a == [w.spots EXCEPT ![s] = Free]
           b == [w.dbSpots EXCEPT ![s] = Free]
           c == [w.active EXCEPT ![p] = None]
           d == [w.dbActive EXCEPT ![p] = None]
           f == Marked(w.resv, R, "Completed")
           g == Marked(w.dbResv, R, "Completed")
           l == Booked(w.ledger, R, "apply")
           v == [w EXCEPT !.spots = a, !.active = c, !.dbSpots = b, !.dbActive = d,
                          !.resv = f, !.dbResv = g, !.ledger = l]
<1>1. Good(w, t) /\ KeepsResolved(w0, w)
  BY ExpireGood
<1>2. \/ LeaveImpl(w0, t, p, F).w = w
      \/ s # None /\ LeaveImpl(w0, t, p, F).w = v
  BY DEF LeaveImpl, Completed
<1> HIDE DEF w
<1>3. ASSUME s # None
      PROVE  Good(v, t) /\ KeepsResolved(w, v)
  <2>0. /\ w \in WorldType /\ w.resv = w.dbResv /\ w.active = w.dbActive
        /\ "apply" \in PaymentKinds
    BY <1>1 DEF Good, MemorySound, Mirrored, PaymentKinds
  <2>1. s \in Spots
    BY <1>3, <2>0 DEF WorldType
  <2>2. /\ R \in SUBSET ResvIds
        /\ \A r \in ResvIds :
             r \in R <=> w.dbResv[r].st = "CheckedIn" /\ w.dbResv[r].plate = p
    BY <2>0 DEF ServedBy
  <2>3. /\ a \in [Spots -> SpotType] /\ b \in [Spots -> SpotType]
        /\ c \in [Plates -> Spots \cup {None}] /\ d \in [Plates -> Spots \cup {None}]
        /\ f \in [ResvIds -> ResvType] /\ g \in [ResvIds -> ResvType]
        /\ l \in [ResvIds -> [PaymentKinds -> Nat]]
    <3> HIDE DEF s, R
    <3>1. QED
      BY <2>0, <2>1, RowTypes, MarkedType, BookedType DEF WorldType
  <2>4. v \in WorldType
    <3> HIDE DEF a, b, c, d, f, g, l
    <3>1. QED
      BY <2>0, <2>3 DEF WorldType
  <2>5. /\ v.spots = a /\ v.dbSpots = b /\ v.active = c /\ v.dbActive = d
        /\ v.resv = f /\ v.dbResv = g /\ v.ledger = l /\ v.nextId = w.nextId
    <3> HIDE DEF a, b, c, d, f, g, l
    <3>1. QED
      BY <2>0 DEF WorldType
  <2> HIDE DEF v, R
  <2>6. v.resv = v.dbResv
    BY <2>0, <2>5
  <2>7. w.dbActive[p] = s
    BY <2>0
  <2> HIDE DEF s
  <2>8. /\ v.dbResv = Marked(w.dbResv, R, "Completed")
        /\ v.ledger = Booked(w.ledger, R, "apply")
        /\ v.active = v.dbActive /\ v.nextId = w.nextId
        /\ \A x \in Spots : /\ v.spots[x] = IF x = s THEN Free ELSE w.spots[x]
                            /\ v.dbSpots[x] = IF x = s THEN Free ELSE w.dbSpots[x]
        /\ \A q \in Plates : v.dbActive[q] = IF q = p THEN None ELSE w.dbActive[q]
    BY <2>0, <2>5 DEF WorldType
  <2>9. R \in SUBSET ResvIds
    BY <2>2
  <2> HIDE DEF a, b, c, d, f, g, l
  <2>10. QED
    BY <1>1, <2>1, <2>2, <2>4, <2>6, <2>7, <2>8, <2>9, Departing
<1> HIDE DEF s, v
<1>4. QED
  BY <1>1, <1>2, <1>3, KeepsTransitive

LEMMA PlaceGood ==
  ASSUME NEW t \in Nat, NEW w, Good(w, t), NEW F, NEW p \in Plates, NEW acc \in BOOLEAN,
         NEW start \in Nat, NEW s \in Candidates(w, acc), w.nextId \in ResvIds,
         \A r \in ResvIds : Open(w.resv[r]) => w.resv[r].plate # p
  PROVE  /\ Good(Place(w, p, s, acc, start, F), t)
         /\ KeepsResolved(w, Place(w, p, s, acc, start, F))
<1> DEFINE id == w.nextId
           deadline == start + (IF acc THEN 2 * Grace ELSE Grace)
           order == [st |-> "Confirmed", plate |-> p, spot |-> s, start |-> start,
                     deadline |-> deadline, charged |-> ~acc]
           paid == IF acc THEN {} ELSE {id}
           h == Held(p, deadline)
           pay == Booked(w.gateway, paid, "charge")
           f == [w.resv EXCEPT ![id] = order]
           g == [w.dbResv EXCEPT ![id] = order]
           l == Booked(w.ledger, paid, "charge")
           a == [w.spots EXCEPT ![s] = h]
           b == [w.dbSpots EXCEPT ![s] = h]
           n == id + 1
           S == {s}
           drawn == [w EXCEPT !.nextId = n]
           charged == [w EXCEPT !.nextId = n, !.gateway = pay]
           placed == [w EXCEPT !.nextId = n, !.gateway = pay, !.resv = f, !.dbResv = g,
                               !.ledger = l]
           locked == [w EXCEPT !.nextId = n, !.gateway = pay, !.resv = f, !.dbResv = g,
                               !.ledger = l, !.spots = a, !.dbSpots = b]
<1>0. /\ w \in WorldType /\ w.resv = w.dbResv
      /\ "charge" \in PaymentKinds
      /\ s \in Spots /\ w.spots[s].st = "Available"
      /\ \A r \in ResvIds : Open(w.resv[r]) => w.resv[r].spot # s
  BY DEF Good, MemorySound, Mirrored, PaymentKinds, Candidates
<1>1. Place(w, p, s, acc, start, F) \in {drawn, charged, placed, locked}
  <2> DEFINE drawn1 == [w EXCEPT !.nextId = w.nextId + 1]
             charged1 == [drawn1 EXCEPT !.gateway = Booked(drawn1.gateway, paid, "charge")]
             placed1 == [charged1 EXCEPT !.resv[id] = order, !.dbResv[id] = order,
                                         !.ledger = Booked(charged1.ledger, paid, "charge")]
             locked1 == [placed1 EXCEPT !.spots[s] = h, !.dbSpots[s] = h]
  <2>1. Place(w, p, s, acc, start, F) \in {drawn1, charged1, placed1, locked1}
    BY DEF Place
  <2>2. drawn1 = drawn
    OBVIOUS
  <2>3. drawn1.gateway = w.gateway
    BY <1>0 DEF WorldType
  <2>4. charged1 = charged
    <3> HIDE DEF paid
    <3>1. QED
      BY <2>3, <1>0 DEF WorldType
  <2>5. charged1.ledger = w.ledger /\ charged1.resv = w.resv /\ charged1.dbResv = w.dbResv
    <3> HIDE DEF paid
    <3>1. QED
      BY <1>0 DEF WorldType
  <2>6. placed1 = placed
    <3>1. placed1 = [charged1 EXCEPT !.resv = f, !.dbResv = g, !.ledger = l]
      BY <2>5
    <3> HIDE DEF f, g, l, pay, placed1, charged1
    <3>2. QED
      BY <2>4, <3>1, <1>0 DEF WorldType
  <2>7. placed1.spots = w.spots /\ placed1.dbSpots = w.dbSpots
    <3> HIDE DEF f, g, l, pay, placed1
    <3>1. QED
      BY <2>6, <1>0 DEF WorldType
  <2>8. locked1 = locked
    <3>1. locked1 = [placed1 EXCEPT !.spots = a, !.dbSpots = b]
      BY <2>7
    <3> HIDE DEF f, g, l, a, b, pay, placed1, locked1
    <3>2. QED
      BY <2>6, <3>1, <1>0 DEF WorldType
  <2> HIDE DEF drawn1, charged1, placed1, locked1, drawn, charged, placed, locked
  <2>9. QED
    BY <2>1, <2>2, <2>4, <2>6, <2>8
<1>2. /\ deadline \in Nat /\ order \in ResvType /\ h \in SpotType
      /\ id \in Nat /\ n \in Nat /\ n \in id .. MaxReservations + 1
  <2>1. deadline \in Nat
    BY RuleAssumption
  <2> HIDE DEF deadline
  <2>2. QED
    BY <2>1, <1>0, RowTypes, BoundAssumption DEF ResvType, ResvIds
<1>3. /\ order.st = "Confirmed" /\ order.plate = p /\ order.spot = s
      /\ order.deadline = deadline /\ (order.charged <=> ~acc)
  OBVIOUS
<1>4. \A r \in ResvIds : r \in paid <=> r = id /\ order.charged
  BY <1>3
<1> HIDE DEF deadline, order, paid
<1>5. /\ pay \in [ResvIds -> [PaymentKinds -> Nat]]
      /\ l \in [ResvIds -> [PaymentKinds -> Nat]]
      /\ f \in [ResvIds -> ResvType] /\ g \in [ResvIds -> ResvType]
      /\ a \in [Spots -> SpotType] /\ b \in [Spots -> SpotType]
  <2> HIDE DEF id, h
  <2>1. QED
    BY <1>0, <1>2, BookedType DEF WorldType
<1>6. \A x \in Spots : /\ a[x] = IF x = s THEN h ELSE w.spots[x]
                       /\ b[x] = IF x = s THEN h ELSE w.dbSpots[x]
  BY <1>0 DEF WorldType
<1>7. f[id] = order
  BY <1>0 DEF WorldType
<1>8. f = g
  BY <1>0
<1> HIDE DEF pay, l, f, g, a, b, n
<1>9. /\ drawn \in WorldType /\ charged \in WorldType
      /\ placed \in WorldType /\ locked \in WorldType
  BY <1>0, <1>2, <1>5 DEF WorldType
<1>10. /\ drawn.spots = w.spots /\ drawn.dbSpots = w.dbSpots /\ drawn.resv = w.resv
       /\ drawn.dbResv = w.dbResv /\ drawn.active = w.active
       /\ drawn.dbActive = w.dbActive /\ drawn.ledger = w.ledger /\ drawn.nextId = n
  BY <1>0 DEF WorldType
<1>11. /\ charged.spots = w.spots /\ charged.dbSpots = w.dbSpots /\ charged.resv = w.resv
       /\ charged.dbResv = w.dbResv /\ charged.active = w.active
       /\ charged.dbActive = w.dbActive /\ charged.ledger = w.ledger /\ charged.nextId = n
  BY <1>0 DEF WorldType
<1>12. /\ placed.spots = w.spots /\ placed.dbSpots = w.dbSpots /\ placed.resv = f
       /\ placed.dbResv = g /\ placed.active = w.active
       /\ placed.dbActive = w.dbActive /\ placed.ledger = l /\ placed.nextId = n
  BY <1>0 DEF WorldType
<1>13. /\ locked.spots = a /\ locked.dbSpots = b /\ locked.resv = f
       /\ locked.dbResv = g /\ locked.active = w.active
       /\ locked.dbActive = w.dbActive /\ locked.ledger = l /\ locked.nextId = n
  BY <1>0 DEF WorldType
<1> HIDE DEF drawn, charged, placed, locked
<1>14. Good(drawn, t) /\ KeepsResolved(w, drawn)
  BY <1>2, <1>9, <1>10, Bookkeeping
<1>15. Good(charged, t) /\ KeepsResolved(w, charged)
  BY <1>2, <1>9, <1>11, Bookkeeping
<1>16. Good(placed, t) /\ KeepsResolved(w, placed)
  <2>1. /\ placed.resv = placed.dbResv
        /\ placed.dbResv = [w.dbResv EXCEPT ![id] = order]
        /\ placed.ledger = Booked(w.ledger, paid, "charge")
        /\ placed.nextId = id + 1
    BY <1>8, <1>12 DEF g, l, n
  <2>2. \A r \in ResvIds : Open(w.dbResv[r]) =>
          w.dbResv[r].plate # order.plate /\ w.dbResv[r].spot # order.spot
    BY <1>0, <1>3
  <2>3. w.spots[order.spot].st = "Available" /\ order.spot \in Spots /\ order.plate \in Plates
    BY <1>0, <1>3
  <2>4. w.nextId = id
    OBVIOUS
  <2>5. id \in ResvIds
    OBVIOUS
  <2> HIDE DEF id
  <2>6. QED
    BY <1>2, <1>3, <1>4, <1>9, <1>12, <2>1, <2>2, <2>3, <2>4, <2>5, Ordering
<1>17. Good(locked, t) /\ KeepsResolved(w, locked)
  <2>1. \A x \in Spots :
          IF x \in S
          THEN /\ placed.spots[x].st = "Available"
               /\ locked.dbSpots[x] = locked.spots[x]
               /\ \E q \in ResvIds :
                    /\ placed.resv[q].st = "Confirmed" /\ placed.resv[q].spot = x
                    /\ locked.spots[x] = Held(placed.resv[q].plate, placed.resv[q].deadline)
          ELSE locked.spots[x] = placed.spots[x] /\ locked.dbSpots[x] = placed.dbSpots[x]
    <3>1. /\ placed.resv[id].st = "Confirmed" /\ placed.resv[id].spot = s
          /\ h = Held(placed.resv[id].plate, placed.resv[id].deadline)
      BY <1>3, <1>7, <1>12
    <3>2. id \in ResvIds
      OBVIOUS
    <3> HIDE DEF id, h
    <3>3. QED
      BY <1>0, <1>6, <1>12, <1>13, <3>1, <3>2
  <2>2. /\ locked.resv = placed.resv /\ locked.dbResv = placed.dbResv
        /\ locked.active = placed.active /\ locked.dbActive = placed.dbActive
        /\ locked.ledger = placed.ledger /\ locked.nextId = placed.nextId
    BY <1>12, <1>13
  <2> HIDE DEF S
  <2>3. Good(locked, t) /\ KeepsResolved(placed, locked)
    BY <1>9, <1>16, <2>1, <2>2, LockingSpots
  <2>4. QED
    BY <1>16, <2>3, KeepsTransitive
<1>18. QED
  BY <1>1, <1>14, <1>15, <1>16, <1>17

\* The end of cancel, once the spot is not held any more.
LEMMA RefundGood ==
  ASSUME NEW t \in Nat, NEW x, Good(x, t), NEW r \in ResvIds, NEW C,
         x.resv[r].st = "Confirmed", C = Charged(x, {r}),
         ~HeldBy(x.spots[x.resv[r].spot], x.resv[r].plate)
  PROVE  LET refunded == [x EXCEPT !.gateway = Booked(x.gateway, C, "refund")]
             cancelled == [refunded EXCEPT !.resv   = Marked(refunded.resv, {r}, "Cancelled"),
                                           !.dbResv = Marked(refunded.dbResv, {r}, "Cancelled"),
                                           !.ledger = Booked(refunded.ledger, C, "refund")]
         IN  /\ Good(refunded, t) /\ KeepsResolved(x, refunded)
             /\ Good(cancelled, t) /\ KeepsResolved(x, cancelled)
<1> DEFINE R == {r}
           y == Booked(x.gateway, C, "refund")
           f == Marked(x.resv, R, "Cancelled")
           g == Marked(x.dbResv, R, "Cancelled")
           l == Booked(x.ledger, C, "refund")
           u == [x EXCEPT !.gateway = y]
           v == [u EXCEPT !.resv = f, !.dbResv = g, !.ledger = l]
<1>0. /\ x \in WorldType /\ x.resv = x.dbResv
      /\ "refund" \in PaymentKinds
      /\ x.nextId \in x.nextId .. MaxReservations + 1
  BY BoundAssumption DEF Good, MemorySound, Mirrored, PaymentKinds, DbSound, RowsSound
<1>1. /\ R \in SUBSET ResvIds
      /\ \A q \in R : q = r
      /\ C = Charged(x, R)
  OBVIOUS
<1>2. /\ y \in [ResvIds -> [PaymentKinds -> Nat]] /\ l \in [ResvIds -> [PaymentKinds -> Nat]]
      /\ f \in [ResvIds -> ResvType] /\ g \in [ResvIds -> ResvType]
  <2> HIDE DEF R
  <2>1. /\ x.resv \in [ResvIds -> ResvType] /\ x.dbResv \in [ResvIds -> ResvType]
        /\ x.ledger \in [ResvIds -> [PaymentKinds -> Nat]]
        /\ x.gateway \in [ResvIds -> [PaymentKinds -> Nat]]
    BY <1>0 DEF WorldType
  <2>2. y \in [ResvIds -> [PaymentKinds -> Nat]]
    BY <1>0, <2>1, BookedType
  <2>3. l \in [ResvIds -> [PaymentKinds -> Nat]]
    BY <1>0, <2>1, BookedType
  <2>4. f \in [ResvIds -> ResvType] /\ g \in [ResvIds -> ResvType]
    BY <2>1, MarkedType
  <2>5. QED
    BY <2>2, <2>3, <2>4
<1>3. u.resv = x.resv /\ u.dbResv = x.dbResv /\ u.ledger = x.ledger
  <2> HIDE DEF y
  <2>1. QED
    BY <1>0 DEF WorldType
<1>4. v = [u EXCEPT !.resv   = Marked(u.resv, {r}, "Cancelled"),
                    !.dbResv = Marked(u.dbResv, {r}, "Cancelled"),
                    !.ledger = Booked(u.ledger, C, "refund")]
  BY <1>3
<1>5. u \in WorldType /\ v \in WorldType
  <2> HIDE DEF y, f, g, l
  <2>1. QED
    BY <1>0, <1>2 DEF WorldType
<1>6. /\ u.spots = x.spots /\ u.dbSpots = x.dbSpots /\ u.active = x.active
      /\ u.dbActive = x.dbActive /\ u.nextId = x.nextId
      /\ v.spots = x.spots /\ v.dbSpots = x.dbSpots /\ v.active = x.active
      /\ v.dbActive = x.dbActive /\ v.nextId = x.nextId
      /\ v.resv = f /\ v.dbResv = g /\ v.ledger = l
  <2> HIDE DEF y, f, g, l
  <2>1. QED
    BY <1>0 DEF WorldType
<1>7. Good(u, t) /\ KeepsResolved(x, u)
  <2> HIDE DEF u
  <2>1. u.nextId \in x.nextId .. MaxReservations + 1
    BY <1>0, <1>6
  <2>2. QED
    BY <1>3, <1>5, <1>6, <2>1, Bookkeeping
<1>8. Good(v, t) /\ KeepsResolved(x, v)
  <2>1. /\ v.resv = v.dbResv /\ v.dbResv = Marked(x.dbResv, R, "Cancelled")
        /\ v.ledger = Booked(x.ledger, C, "refund")
    BY <1>0, <1>6
  <2>2. \A q \in R : /\ x.dbResv[q].st = "Confirmed"
                     /\ ~HeldBy(x.spots[x.dbResv[q].spot], x.dbResv[q].plate)
    BY <1>0, <1>1
  <2> HIDE DEF v, R
  <2>3. QED
    BY <1>1, <1>5, <1>6, <2>1, <2>2, Resolving
<1> HIDE DEF v, u
<1>9. QED
  BY <1>4, <1>7, <1>8 DEF u, y

LEMMA CancelGood ==
  ASSUME NEW t \in Nat, NEW w0, Good(w0, t), NEW F, NEW p
  PROVE  /\ Good(CancelImpl(w0, t, p, F), t)
         /\ KeepsResolved(w0, CancelImpl(w0, t, p, F))
<1> DEFINE w == Sweep(w0, t, F)
           mine == {r \in ResvIds : /\ w.resv[r].st = "Confirmed" /\ w.resv[r].plate = p
                                    /\ t < w.resv[r].start}
           r == CHOOSE q \in mine : TRUE
           s == w.resv[r].spot
           holds == HeldBy(w.spots[s], p)
           freed == [w EXCEPT !.spots[s] = Free, !.dbSpots[s] = Free]
           x == IF holds THEN freed ELSE w
           C == Charged(w, {r})
           refunded == [x EXCEPT !.gateway = Booked(x.gateway, C, "refund")]
           cancelled == [refunded EXCEPT !.resv   = Marked(refunded.resv, {r}, "Cancelled"),
                                         !.dbResv = Marked(refunded.dbResv, {r}, "Cancelled"),
                                         !.ledger = Booked(refunded.ledger, C, "refund")]
<1>1. Good(w, t) /\ KeepsResolved(w0, w)
  BY SweepGood
<1>2. CancelImpl(w0, t, p, F) =
        IF mine = {} THEN w
        ELSE IF holds /\ <<"cancelUnlock", r>> \in F THEN w
        ELSE IF <<"cancel", r>> \in F THEN refunded
        ELSE cancelled
  BY DEF CancelImpl
<1>3. ASSUME mine # {}
      PROVE  /\ Good(refunded, t) /\ KeepsResolved(w, refunded)
             /\ Good(cancelled, t) /\ KeepsResolved(w, cancelled)
  <2>1. r \in ResvIds /\ w.resv[r].st = "Confirmed" /\ w.resv[r].plate = p
    <3>1. r \in mine
      BY <1>3
    <3> HIDE DEF w, r
    <3>2. QED
      BY <3>1
  <2> HIDE DEF w, r, mine
  <2>2. w \in WorldType /\ w.resv = w.dbResv /\ s \in Spots
    BY <1>1, <2>1 DEF Good, MemorySound, Mirrored, DbSound, RowsSound
  <2>3. ASSUME holds
        PROVE  Good(freed, t) /\ KeepsResolved(w, freed) /\ freed.resv = w.resv
               /\ ~HeldBy(freed.spots[s], p)
    <3> DEFINE S == {s}
               a == [w.spots EXCEPT ![s] = Free]
               b == [w.dbSpots EXCEPT ![s] = Free]
    <3>1. /\ a \in [Spots -> SpotType] /\ b \in [Spots -> SpotType]
          /\ a[s] = Free
      <4> HIDE DEF s
      <4>1. QED
        BY <2>2, RowTypes DEF WorldType
    <3>2. a = FreeAt(w.spots, S) /\ b = FreeAt(w.dbSpots, S)
      <4> HIDE DEF s
      <4>1. QED
        BY <2>2 DEF FreeAt, WorldType
    <3>3. \A y \in S \cap Spots : w.spots[y].st = "Reserved"
      BY <2>3 DEF HeldBy
    <3>4. freed = [w EXCEPT !.spots = a, !.dbSpots = b]
      OBVIOUS
    <3> HIDE DEF a, b, freed, S
    <3>5. freed \in WorldType
      BY <2>2, <3>1, <3>4 DEF WorldType
    <3>6. /\ freed.spots = a /\ freed.dbSpots = b /\ freed.resv = w.resv
          /\ freed.dbResv = w.dbResv /\ freed.active = w.active
          /\ freed.dbActive = w.dbActive /\ freed.ledger = w.ledger
          /\ freed.nextId = w.nextId
      BY <2>2, <3>4 DEF WorldType
    <3>7. freed.spots = FreeAt(w.spots, S) /\ freed.dbSpots = FreeAt(w.dbSpots, S)
      BY <3>2, <3>6
    <3> HIDE DEF s
    <3>8. Good(freed, t) /\ KeepsResolved(w, freed)
      BY <1>1, <3>3, <3>5, <3>6, <3>7, FreeingHolds
    <3>9. QED
      BY <3>1, <3>6, <3>8, RowTypes DEF HeldBy
  <2>4. KeepsResolved(w, w)
    BY DEF KeepsResolved
  <2>5. /\ Good(x, t) /\ KeepsResolved(w, x) /\ x.resv = w.resv
        /\ ~HeldBy(x.spots[s], p)
    <3> HIDE DEF freed, s
    <3>1. QED
      BY <1>1, <2>3, <2>4
  <2> HIDE DEF x
  <2>6. C = Charged(x, {r}) /\ x.resv[r].st = "Confirmed"
        /\ ~HeldBy(x.spots[x.resv[r].spot], x.resv[r].plate)
    BY <2>1, <2>5 DEF Charged
  <2> HIDE DEF C
  <2>7. /\ Good(refunded, t) /\ KeepsResolved(x, refunded)
        /\ Good(cancelled, t) /\ KeepsResolved(x, cancelled)
    BY <2>1, <2>5, <2>6, RefundGood
  <2> HIDE DEF refunded, cancelled
  <2>8. QED
    BY <2>5, <2>7, KeepsTransitive
<1> HIDE DEF w, mine, r, holds, refunded, cancelled
<1>4. QED
  BY <1>1, <1>2, <1>3, KeepsTransitive

LEMMA CreateGood ==
  ASSUME NEW t \in Nat, NEW w0, Good(w0, t), NEW F, NEW p \in Plates,
         NEW acc \in BOOLEAN, NEW start \in Nat,
         NEW v \in CreateOutcomes(w0, t, p, acc, start, F)
  PROVE  Good(v, t) /\ KeepsResolved(w0, v)
<1> DEFINE w == Sweep(w0, t, F)
<1>1. Good(w, t) /\ KeepsResolved(w0, w)
  BY SweepGood
<1>2. CASE v = w
  BY <1>1, <1>2
<1>3. CASE v # w
  <2>1. /\ Bookable(w, t, p, start)
        /\ \E s \in Candidates(w, acc) :
             w.nextId \in ResvIds /\ v = Place(w, p, s, acc, start, F)
    BY <1>3 DEF CreateOutcomes
  <2> HIDE DEF w
  <2>2. PICK s \in Candidates(w, acc) :
          w.nextId \in ResvIds /\ v = Place(w, p, s, acc, start, F)
    BY <2>1
  <2>3. \A r \in ResvIds : Open(w.resv[r]) => w.resv[r].plate # p
    BY <2>1 DEF Bookable
  <2>4. Good(v, t) /\ KeepsResolved(w, v)
    BY <1>1, <2>2, <2>3, PlaceGood
  <2>5. QED
    BY <1>1, <2>4, KeepsTransitive
<1>4. QED
  BY <1>2, <1>3

LEMMA EnterGood ==
  ASSUME NEW t \in Nat, NEW w0, Good(w0, t), NEW F, NEW p \in Plates,
         NEW v \in EnterOutcomes(w0, t, p, F)
  PROVE  Good(v, t) /\ KeepsResolved(w0, v)
<1> DEFINE x == Expire(w0, t, F)
           w == CheckInImpl(x, t, p, F).w
<1>1. Good(x, t) /\ KeepsResolved(w0, x)
  BY ExpireGood
<1>2. Good(w, t) /\ KeepsResolved(x, w)
  <2> HIDE DEF x
  <2>1. QED
    BY <1>1, CheckInGood
<1>3. v = w \/ \E s \in Spots : /\ w.spots[s].st # "Occupied"
                                /\ v = OccupyAndRecord(w, p, s, F)
  BY DEF EnterOutcomes, HeldBy
<1> HIDE DEF x, w
<1>4. Good(v, t) /\ (v = w \/ KeepsResolved(w, v))
  BY <1>2, <1>3, OccupyGood
<1>5. QED
  BY <1>1, <1>2, <1>4, KeepsTransitive

\* In memory, too, a spot is Occupied by the vehicle that has a record on it.
LEMMA MemoryOccupancy ==
  ASSUME NEW t \in Nat, NEW w, Good(w, t)
  PROVE  SpotsMatchRecords(w.spots, w.active)
<1>1. /\ w.active = w.dbActive
      /\ SpotsMatchRecords(w.dbSpots, w.dbActive)
      /\ w.dbActive \in [Plates -> Spots \cup {None}]
  BY DEF Good, DbSound, MemorySound, Mirrored, WorldType
<1>2. \A s \in Spots : \/ w.spots[s] = w.dbSpots[s]
                        \/ /\ w.spots[s].st # "Occupied"
                           /\ \A p \in Plates : w.dbSpots[s] # Parked(p)
  BY RowTypes DEF Good, MemorySound, Mirrored
<1>3. \A p \in Plates : w.dbActive[p] # None => w.dbActive[p] \in Spots
  BY <1>1
<1>4. QED
  BY <1>1, <1>2, <1>3 DEF SpotsMatchRecords

\* The car that is moved out leaves its own spot free.
LEMMA EvictedSpotFree ==
  ASSUME NEW t \in Nat, NEW w, Good(w, t), NEW F, NEW s \in Spots,
         w.spots[s].st = "Occupied", LeaveImpl(w, t, w.spots[s].by, F).ok
  PROVE  LeaveImpl(w, t, w.spots[s].by, F).w.spots[s] = Free
<1> DEFINE q == w.spots[s].by
           y == Expire(w, t, F)
           x == LeaveImpl(w, t, q, F).w
           R == ServedBy(y, q)
           z == [y EXCEPT !.spots[s] = Free,   !.active[q] = None,
                          !.dbSpots[s] = Free, !.dbActive[q] = None,
                          !.resv   = Marked(y.resv, R, "Completed"),
                          !.dbResv = Marked(y.dbResv, R, "Completed"),
                          !.ledger = Booked(y.ledger, R, "apply")]
<1>1. w \in WorldType /\ Good(y, t) /\ y \in WorldType
  BY ExpireGood DEF Good
<1>2. y.spots[s] = w.spots[s]
  <2>1. y.spots = FreeAt(w.spots, Lapsed(w, t, F))
    BY <1>1 DEF Expire, WorldType
  <2>2. s \notin Lapsed(w, t, F)
    BY DEF Lapsed
  <2> HIDE DEF y
  <2>3. QED
    BY <2>1, <2>2 DEF FreeAt
<1>3. y.active[q] = s
  <2> HIDE DEF y
  <2>1. SpotsMatchRecords(y.spots, y.active)
    BY <1>1, MemoryOccupancy
  <2>2. QED
    BY <2>1, <1>2 DEF SpotsMatchRecords
<1>4. x = z
  BY <1>3 DEF LeaveImpl, Completed
<1>5. z.spots[s] = Free
  <2> HIDE DEF y, R, q
  <2>1. z.spots = [y.spots EXCEPT ![s] = Free]
    BY <1>1 DEF WorldType
  <2>2. QED
    BY <1>1, <2>1 DEF WorldType
<1> HIDE DEF z
<1>6. x.spots[s] = Free
  BY <1>4, <1>5
<1>7. QED
  BY <1>6 DEF x, q

LEMMA EmergencyGood ==
  ASSUME NEW t \in Nat, NEW w0, Good(w0, t), NEW F, NEW p \in Plates, NEW evict,
         NEW v \in EmergencyOutcomes(w0, t, p, evict, F)
  PROVE  Good(v, t) /\ KeepsResolved(w0, v)
<1> DEFINE w == Expire(w0, t, F)
           exit(s) == LeaveImpl(w, t, w.spots[s].by, F)
<1>1. Good(w, t) /\ KeepsResolved(w0, w)
  BY ExpireGood
<1>2. \/ v = w
      \/ \E s \in Spots : /\ w.spots[s].st # "Occupied"
                          /\ v = OccupyAndRecord(w, p, s, F)
      \/ \E s \in Spots : /\ w.spots[s].st = "Occupied"
                          /\ \/ v = exit(s).w
                             \/ exit(s).ok /\ v = OccupyAndRecord(exit(s).w, p, s, F)
  BY DEF EmergencyOutcomes, HeldBy
<1> HIDE DEF w
<1>3. CASE \E s \in Spots : /\ w.spots[s].st # "Occupied"
                            /\ v = OccupyAndRecord(w, p, s, F)
  BY <1>1, <1>3, OccupyGood, KeepsTransitive
<1>4. CASE \E s \in Spots : /\ w.spots[s].st = "Occupied"
                            /\ \/ v = exit(s).w
                               \/ exit(s).ok /\ v = OccupyAndRecord(exit(s).w, p, s, F)
  <2>1. PICK s \in Spots : /\ w.spots[s].st = "Occupied"
                           /\ \/ v = exit(s).w
                              \/ exit(s).ok /\ v = OccupyAndRecord(exit(s).w, p, s, F)
    BY <1>4
  <2> DEFINE q == w.spots[s].by
             x == exit(s).w
  <2>2. q \in Plates
    BY <1>1, <2>1, SpotFacts DEF Good, WorldType
  <2>3. Good(x, t) /\ KeepsResolved(w, x)
    <3>1. x = LeaveImpl(w, t, q, F).w
      OBVIOUS
    <3> HIDE DEF q, x
    <3>2. QED
      BY <1>1, <2>2, <3>1, LeaveGood
  <2>4. ASSUME exit(s).ok
        PROVE  x.spots[s].st # "Occupied"
    BY <1>1, <2>1, <2>4, EvictedSpotFree, RowTypes
  <2>5. \/ v = x
        \/ v = OccupyAndRecord(x, p, s, F) /\ x.spots[s].st # "Occupied"
    BY <2>1, <2>4
  <2> HIDE DEF x
  <2>6. Good(v, t) /\ (v = x \/ KeepsResolved(x, v))
    BY <2>3, <2>5, OccupyGood
  <2>7. QED
    BY <1>1, <2>3, <2>6, KeepsTransitive
<1>5. QED
  BY <1>1, <1>2, <1>3, <1>4

LEMMA LoadedGood ==
  ASSUME NEW t \in Nat, NEW w \in WorldType, DbSound(w),
         NoResolvedHolds(w.dbSpots, w.dbResv)
  PROVE  Good(Loaded(w), t) /\ KeepsResolved(w, Loaded(w))
<1> DEFINE v == Loaded(w)
<1>1. /\ v.spots = w.dbSpots /\ v.resv = w.dbResv /\ v.active = w.dbActive
      /\ v.dbSpots = w.dbSpots /\ v.dbResv = w.dbResv /\ v.dbActive = w.dbActive
      /\ v.ledger = w.ledger /\ v.nextId = w.nextId /\ v \in WorldType
  BY DEF Loaded, WorldType
<1> HIDE DEF v
<1>2. DbSound(v)
  BY <1>1 DEF DbSound, RowsSound, OneOpen, CheckedInSound, HoldsExplained, LedgerSound
<1>3. Mirrored(v)
  BY <1>1 DEF Mirrored
<1>4. \A s \in Spots : w.dbSpots[s].st = "Reserved" =>
        \E r \in ResvIds : /\ w.dbResv[r].st = "Confirmed"
                           /\ w.dbResv[r].spot = s
                           /\ w.dbSpots[s] = Held(w.dbResv[r].plate, w.dbResv[r].deadline)
  <2> SUFFICES ASSUME NEW s \in Spots, w.dbSpots[s].st = "Reserved"
               PROVE  \E r \in ResvIds :
                        /\ w.dbResv[r].st = "Confirmed"
                        /\ w.dbResv[r].spot = s
                        /\ w.dbSpots[s] = Held(w.dbResv[r].plate, w.dbResv[r].deadline)
    OBVIOUS
  <2>1. PICK r \in ResvIds : /\ w.dbResv[r].st # "Absent"
                             /\ w.dbResv[r].spot = s
                             /\ w.dbResv[r].plate = w.dbSpots[s].by
                             /\ w.dbResv[r].deadline = w.dbSpots[s].until
    BY DEF DbSound, HoldsExplained
  <2>2. w.dbResv[r].st \notin {"Completed", "Cancelled", "NoShow"}
    BY <2>1 DEF NoResolvedHolds, HeldBy
  <2>3. w.dbResv[r].st # "CheckedIn"
    <3>1. ASSUME w.dbResv[r].st = "CheckedIn"
          PROVE  w.dbSpots[s].st = "Occupied"
      <4>1. w.dbResv[r].plate \in Plates /\ w.dbActive[w.dbResv[r].plate] = s
        BY <2>1, <3>1 DEF DbSound, RowsSound, CheckedInSound
      <4>2. w.dbSpots[s] = Parked(w.dbResv[r].plate)
        BY <4>1, NoneAssumption DEF DbSound, SpotsMatchRecords
      <4>3. QED
        BY <4>2, RowTypes
    <3>2. QED
      BY <3>1
  <2>4. w.dbResv[r] \in ResvType /\ w.dbSpots[s] \in SpotType
    BY DEF WorldType
  <2>5. w.dbResv[r].st = "Confirmed"
    BY <2>1, <2>2, <2>3, <2>4 DEF ResvType
  <2>6. w.dbSpots[s] = Held(w.dbResv[r].plate, w.dbResv[r].deadline)
    BY <2>1, <2>4, SpotFacts
  <2>7. QED
    BY <2>1, <2>5, <2>6
<1>5. LocksSound(v)
  <2> SUFFICES ASSUME NEW q \in ResvIds, w.dbResv[q].st = "Confirmed",
                      w.dbSpots[w.dbResv[q].spot].st = "Reserved"
               PROVE  w.dbSpots[w.dbResv[q].spot]
                        = Held(w.dbResv[q].plate, w.dbResv[q].deadline)
    BY <1>1 DEF LocksSound
  <2>1. w.dbResv[q].spot \in Spots
    BY DEF DbSound, RowsSound
  <2>2. PICK r \in ResvIds :
          /\ w.dbResv[r].st = "Confirmed"
          /\ w.dbResv[r].spot = w.dbResv[q].spot
          /\ w.dbSpots[w.dbResv[q].spot] = Held(w.dbResv[r].plate, w.dbResv[r].deadline)
    BY <1>4, <2>1
  <2>3. r = q
    BY <2>2 DEF DbSound, OneOpen, Open
  <2>4. QED
    BY <2>2, <2>3
<1>6. HoldsBacked(v, t)
  BY <1>1, <1>4, RowTypes DEF HoldsBacked
<1>7. Good(v, t) /\ KeepsResolved(w, v)
  BY <1>1, <1>2, <1>3, <1>5, <1>6 DEF Good, MemorySound, KeepsResolved
<1>8. QED
  BY <1>7 DEF v

\* The reservations start-up repairs do not hold their spots.
LEMMA RepairGood ==
  ASSUME NEW t \in Nat, NEW u, Good(u, t), NEW R \in SUBSET Conflicting(u), NEW asked
  PROVE  Good(Repair(u, R, asked), t) /\ KeepsResolved(u, Repair(u, R, asked))
<1> DEFINE C == Charged(u, R)
           D == Charged(u, asked)
           f == Marked(u.resv, R, "Cancelled")
           g == Marked(u.dbResv, R, "Cancelled")
           l == Booked(u.ledger, C, "refund")
           m == Booked(u.gateway, D, "refund")
           v == [u EXCEPT !.resv = f, !.dbResv = g, !.ledger = l, !.gateway = m]
           st == "Cancelled"
           kind == "refund"
<1>0. u \in WorldType /\ u.resv = u.dbResv /\ "refund" \in PaymentKinds
  BY DEF Good, MemorySound, Mirrored, PaymentKinds
<1>1. Repair(u, R, asked) = v
  BY DEF Repair
<1>2. \A r \in R : /\ r \in ResvIds
                   /\ u.dbResv[r].st = "Confirmed"
                   /\ ~HeldBy(u.spots[u.dbResv[r].spot], u.dbResv[r].plate)
  <2>1. TAKE r \in R
  <2> DEFINE s == u.resv[r].spot
  <2>2. r \in ResvIds /\ u.resv[r].st = "Confirmed" /\ r \notin Kept(u, s)
    BY DEF Conflicting
  <2>3. u.spots[s].st # "Available" => u.resv[r].plate # u.spots[s].by
    BY <2>2 DEF Kept
  <2> HIDE DEF s
  <2>4. QED
    BY <1>0, <2>2, <2>3 DEF HeldBy, s
<1>3. /\ f \in [ResvIds -> ResvType] /\ g \in [ResvIds -> ResvType]
      /\ l \in [ResvIds -> [PaymentKinds -> Nat]]
      /\ m \in [ResvIds -> [PaymentKinds -> Nat]]
  <2> HIDE DEF C, D
  <2>1. QED
    BY <1>0, MarkedType, BookedType DEF WorldType
<1>4. f = g
  BY <1>0
<1>5. g = Marked(u.dbResv, R, st) /\ l = Booked(u.ledger, C, kind)
  OBVIOUS
<1>6. st = "Cancelled" /\ kind = "refund" /\ C = Charged(u, R)
  OBVIOUS
<1> HIDE DEF C, D, f, g, l, m
<1>7. /\ v \in WorldType
      /\ v.resv = f /\ v.dbResv = g /\ v.ledger = l
      /\ v.spots = u.spots /\ v.dbSpots = u.dbSpots /\ v.active = u.active
      /\ v.dbActive = u.dbActive /\ v.nextId = u.nextId
  BY <1>0, <1>3 DEF WorldType
<1> HIDE DEF v, st, kind
<1>8. R \in SUBSET ResvIds
  BY <1>2
<1>9. v.resv = v.dbResv /\ v.dbResv = Marked(u.dbResv, R, st)
      /\ v.ledger = Booked(u.ledger, C, kind)
  BY <1>4, <1>5, <1>7
<1>10. \/ st = "Cancelled" /\ kind = "refund"
       \/ st = "NoShow" /\ kind = "forfeit"
  BY <1>6
<1>11. \A r \in R : /\ u.dbResv[r].st = "Confirmed"
                    /\ HeldBy(u.spots[u.dbResv[r].spot], u.dbResv[r].plate)
                         => u.dbResv[r].deadline < t
  BY <1>2
<1>12. Good(v, t) /\ KeepsResolved(u, v)
  BY <1>6, <1>7, <1>8, <1>9, <1>10, <1>11, Resolving
<1>13. QED
  BY <1>1, <1>12

\* A process that stops leaves the database as it was.
LEMMA NoMemoryFacts ==
  ASSUME NEW w \in WorldType
  PROVE  /\ NoMemory(w) \in WorldType
         /\ NoMemory(NoMemory(w)) = NoMemory(w)
         /\ DbSound(w) => DbSound(NoMemory(w))
         /\ KeepsResolved(w, NoMemory(w))
<1> DEFINE v == NoMemory(w)
           a == [s \in Spots |-> Free]
           b == [r \in ResvIds |-> Absent]
           c == [p \in Plates |-> None]
<1>1. /\ a \in [Spots -> SpotType] /\ b \in [ResvIds -> ResvType]
      /\ c \in [Plates -> Spots \cup {None}]
  BY DEF SpotType, ResvType, Absent
<1>2. v = [w EXCEPT !.spots = a, !.resv = b, !.active = c]
  BY DEF NoMemory
<1>3. NoMemory(v) = [v EXCEPT !.spots = a, !.resv = b, !.active = c]
  BY DEF NoMemory
<1> HIDE DEF a, b, c, v
<1>4. /\ v \in WorldType
      /\ v.dbSpots = w.dbSpots /\ v.dbResv = w.dbResv /\ v.dbActive = w.dbActive
      /\ v.ledger = w.ledger /\ v.nextId = w.nextId
      /\ v.spots = a /\ v.resv = b /\ v.active = c
  BY <1>1, <1>2 DEF WorldType
<1>5. NoMemory(v) = v
  BY <1>3, <1>4 DEF WorldType
<1>6. DbSound(w) => DbSound(v)
  BY <1>4 DEF DbSound, RowsSound, OneOpen, CheckedInSound, HoldsExplained, LedgerSound
<1>7. KeepsResolved(w, v)
  BY <1>4 DEF KeepsResolved
<1>8. QED
  BY <1>4, <1>5, <1>6, <1>7 DEF v

\* As time goes by a hold stays backed or lapsed.
LEMMA LaterGood ==
  ASSUME NEW t \in Nat, NEW w, Good(w, t)
  PROVE  Good(w, t + 1)
<1>1. \A s \in Spots : w.spots[s] \in SpotType
  BY DEF Good, WorldType
<1>2. \A s \in Spots : w.spots[s].st = "Reserved" => w.spots[s].until \in Nat
  BY <1>1, SpotFacts
<1>3. QED
  BY <1>2 DEF Good, MemorySound, HoldsBacked

-----------------------------------------------------------------------------
(***************************************************************************)
(* Every step.                                                             *)
(***************************************************************************)

LEMMA UpGood ==
  ASSUME IInv, up
  PROVE  Good(world, now) /\ now \in Nat
BY BoundAssumption DEF IInv, TypeOK, Good

LEMMA FaultCounted ==
  ASSUME TypeOK, NEW F, Fault(F)
  PROVE  faults' \in 0 .. MaxFaults
BY BoundAssumption DEF TypeOK, Fault

\* A call leaves the invariant true when the world it ends in is good.
LEMMA CallKeepsIInv ==
  ASSUME IInv, up, NEW F, Fault(F), NEW w, Good(w, now), Become(w)
  PROVE  IInv'
<1>1. world' = w /\ now' = now /\ up' = up
  BY DEF Become
<1>2. TypeOK'
  BY <1>1, FaultCounted DEF IInv, TypeOK, Good
<1>3. DbSound(world)' /\ MemorySound(world, now)'
  BY <1>1 DEF Good
<1>4. QED
  BY <1>1, <1>2, <1>3 DEF IInv

LEMMA InitGood ==
  ASSUME Init
  PROVE  IInv
<1>1. /\ world.spots = [s \in Spots |-> Free] /\ world.dbSpots = [s \in Spots |-> Free]
      /\ world.resv = [r \in ResvIds |-> Absent]
      /\ world.dbResv = [r \in ResvIds |-> Absent]
      /\ world.active = [p \in Plates |-> None] /\ world.dbActive = [p \in Plates |-> None]
      /\ world.ledger = NoPayments /\ world.gateway = NoPayments /\ world.nextId = 1
  BY DEF Init
<1>2. /\ [s \in Spots |-> Free] \in [Spots -> SpotType]
      /\ [r \in ResvIds |-> Absent] \in [ResvIds -> ResvType]
      /\ [p \in Plates |-> None] \in [Plates -> Spots \cup {None}]
      /\ NoPayments \in [ResvIds -> [PaymentKinds -> Nat]]
  BY DEF SpotType, ResvType, Absent, NoPayments
<1>3. world \in WorldType
  BY <1>2 DEF Init, WorldType
<1>4. /\ \A s \in Spots : world.spots[s].st = "Available" /\ world.dbSpots[s] = world.spots[s]
      /\ \A r \in ResvIds : world.resv[r].st = "Absent" /\ world.dbResv[r].st = "Absent"
      /\ \A p \in Plates : world.dbActive[p] = None
      /\ \A r \in ResvIds : \A k \in PaymentKinds : world.ledger[r][k] = 0
  BY <1>1 DEF Free, Absent, NoPayments
<1>5. RowsSound(world)
  BY <1>1, <1>4, BoundAssumption DEF RowsSound
<1>6. OneOpen(world.dbResv) /\ CheckedInSound(world) /\ HoldsExplained(world)
      /\ SpotsMatchRecords(world.dbSpots, world.dbActive)
  BY <1>4 DEF OneOpen, Open, CheckedInSound, HoldsExplained, SpotsMatchRecords
<1>7. LedgerSound(world)
  BY <1>4 DEF LedgerSound, Once, PaymentKinds
<1>8. MemorySound(world, now)
  BY <1>1, <1>4 DEF MemorySound, Mirrored, LocksSound, HoldsBacked
<1>9. TypeOK
  BY <1>3, BoundAssumption DEF Init, TypeOK
<1>10. QED
  BY <1>5, <1>6, <1>7, <1>8, <1>9 DEF Init, IInv, DbSound

LEMMA StepGood ==
  ASSUME IInv, [Next]_vars
  PROVE  IInv' /\ KeepsResolved(world, world')
<1>1. CASE Tick
  <2>1. /\ now' = now + 1 /\ now < MaxTime
        /\ up' = up /\ world' = world /\ faults' = faults
    BY <1>1 DEF Tick
  <2>2. TypeOK'
    BY <2>1, BoundAssumption DEF IInv, TypeOK
  <2>3. ASSUME up PROVE MemorySound(world, now)'
    BY <2>1, <2>3, UpGood, LaterGood DEF Good
  <2>4. QED
    BY <2>1, <2>2, <2>3 DEF IInv, KeepsResolved
<1>2. ASSUME NEW p \in Plates, NEW acc \in BOOLEAN, NEW start \in Starts,
             Create(p, acc, start)
      PROVE  IInv' /\ KeepsResolved(world, world')
  <2>1. PICK F : /\ up /\ Fault(F)
                 /\ \E w \in CreateOutcomes(world, now, p, acc, start, F) : Become(w)
    BY <1>2 DEF Create
  <2>2. PICK w \in CreateOutcomes(world, now, p, acc, start, F) : Become(w)
    BY <2>1
  <2>3. start \in Nat
    BY StartAssumption
  <2>4. Good(w, now) /\ KeepsResolved(world, w)
    BY <2>1, <2>3, UpGood, CreateGood
  <2>5. QED
    BY <2>1, <2>2, <2>4, CallKeepsIInv DEF Become
<1>3. ASSUME NEW p \in Plates, Cancel(p)
      PROVE  IInv' /\ KeepsResolved(world, world')
  <2>1. PICK F : up /\ Fault(F) /\ Become(CancelImpl(world, now, p, F))
    BY <1>3 DEF Cancel
  <2>2. Good(CancelImpl(world, now, p, F), now)
        /\ KeepsResolved(world, CancelImpl(world, now, p, F))
    BY <2>1, UpGood, CancelGood
  <2>3. QED
    BY <2>1, <2>2, CallKeepsIInv DEF Become
<1>4. ASSUME NEW p \in Plates, CheckIn(p)
      PROVE  IInv' /\ KeepsResolved(world, world')
  <2>1. PICK F : up /\ Fault(F) /\ Become(CheckInImpl(world, now, p, F).w)
    BY <1>4 DEF CheckIn
  <2>2. Good(CheckInImpl(world, now, p, F).w, now)
        /\ KeepsResolved(world, CheckInImpl(world, now, p, F).w)
    BY <2>1, UpGood, CheckInGood
  <2>3. QED
    BY <2>1, <2>2, CallKeepsIInv DEF Become
<1>5. ASSUME NEW p \in Plates, Enter(p)
      PROVE  IInv' /\ KeepsResolved(world, world')
  <2>1. PICK F : /\ up /\ Fault(F)
                 /\ \E w \in EnterOutcomes(world, now, p, F) : Become(w)
    BY <1>5 DEF Enter
  <2>2. PICK w \in EnterOutcomes(world, now, p, F) : Become(w)
    BY <2>1
  <2>3. Good(w, now) /\ KeepsResolved(world, w)
    BY <2>1, UpGood, EnterGood
  <2>4. QED
    BY <2>1, <2>2, <2>3, CallKeepsIInv DEF Become
<1>6. ASSUME NEW p \in Plates, Leave(p)
      PROVE  IInv' /\ KeepsResolved(world, world')
  <2>1. PICK F : up /\ Fault(F) /\ Become(LeaveImpl(world, now, p, F).w)
    BY <1>6 DEF Leave
  <2>2. Good(LeaveImpl(world, now, p, F).w, now)
        /\ KeepsResolved(world, LeaveImpl(world, now, p, F).w)
    BY <2>1, UpGood, LeaveGood
  <2>3. QED
    BY <2>1, <2>2, CallKeepsIInv DEF Become
<1>7. ASSUME NEW p \in Plates, NEW evict \in BOOLEAN, EmergencyEnter(p, evict)
      PROVE  IInv' /\ KeepsResolved(world, world')
  <2>1. PICK F : /\ up /\ Fault(F)
                 /\ \E w \in EmergencyOutcomes(world, now, p, evict, F) : Become(w)
    BY <1>7 DEF EmergencyEnter
  <2>2. PICK w \in EmergencyOutcomes(world, now, p, evict, F) : Become(w)
    BY <2>1
  <2>3. Good(w, now) /\ KeepsResolved(world, w)
    BY <2>1, UpGood, EmergencyGood
  <2>4. QED
    BY <2>1, <2>2, <2>3, CallKeepsIInv DEF Become
<1>8. CASE Crash
  <2>1. /\ up' = FALSE /\ now' = now /\ faults' = faults + 1 /\ faults < MaxFaults
        /\ world' = NoMemory(world)
    BY <1>8 DEF Crash
  <2>2. world \in WorldType /\ DbSound(world)
    BY DEF IInv, TypeOK
  <2>3. /\ world' \in WorldType /\ DbSound(world') /\ world' = NoMemory(world')
        /\ KeepsResolved(world, world')
    BY <2>1, <2>2, NoMemoryFacts
  <2>4. TypeOK'
    <3>1. now' \in 0 .. MaxTime /\ up' \in BOOLEAN
      BY <2>1 DEF IInv, TypeOK
    <3>2. faults' \in 0 .. MaxFaults
      BY <2>1, BoundAssumption DEF IInv, TypeOK
    <3>3. QED
      BY <2>3, <3>1, <3>2 DEF TypeOK
  <2>5. QED
    BY <2>1, <2>3, <2>4 DEF IInv
<1>9. CASE Restart
  <2> DEFINE v == Loaded(world)
  <2>1. /\ up' = TRUE /\ now' = now /\ faults' = faults
        /\ world' = Repair(v, Conflicting(v), Conflicting(v))
        /\ NoResolvedHolds(world.dbSpots, world.dbResv)
    BY <1>9 DEF Restart, RestoreAccepts
  <2>2. world \in WorldType /\ DbSound(world) /\ now \in Nat
    BY BoundAssumption DEF IInv, TypeOK
  <2>3. Good(v, now) /\ KeepsResolved(world, v)
    BY <2>1, <2>2, LoadedGood
  <2> HIDE DEF v
  <2>4. Good(world', now) /\ KeepsResolved(v, world')
    BY <2>1, <2>2, <2>3, RepairGood
  <2>5. TypeOK'
    BY <2>1, <2>4 DEF IInv, TypeOK, Good
  <2>6. IInv'
    BY <2>1, <2>4, <2>5 DEF IInv, Good
  <2>7. QED
    BY <2>3, <2>4, <2>6, KeepsTransitive
<1>10. CASE RestartFails
  <2> DEFINE v == Loaded(world)
  <2>1. /\ up' = up /\ now' = now /\ ~up
        /\ NoResolvedHolds(world.dbSpots, world.dbResv)
        /\ \E F, r, R : /\ Fault(F)
                        /\ R \in SUBSET Conflicting(v)
                        /\ world' = NoMemory(Repair(v, R, R \cup {r}))
    BY <1>10 DEF RestartFails, RestoreAccepts
  <2>2. world \in WorldType /\ DbSound(world) /\ now \in Nat
    BY BoundAssumption DEF IInv, TypeOK
  <2>3. Good(v, now) /\ KeepsResolved(world, v)
    BY <2>1, <2>2, LoadedGood
  <2> HIDE DEF v
  <2>4. PICK F, r, R : /\ Fault(F)
                       /\ R \in SUBSET Conflicting(v)
                       /\ world' = NoMemory(Repair(v, R, R \cup {r}))
    BY <2>1
  <2> DEFINE x == Repair(v, R, R \cup {r})
  <2>5. Good(x, now) /\ KeepsResolved(v, x)
    BY <2>2, <2>3, <2>4, RepairGood
  <2>6. world' = NoMemory(x)
    BY <2>4
  <2> HIDE DEF x
  <2>7. /\ world' \in WorldType /\ DbSound(world') /\ world' = NoMemory(world')
        /\ KeepsResolved(x, world')
    BY <2>5, <2>6, NoMemoryFacts DEF Good
  <2>8. TypeOK'
    BY <2>1, <2>4, <2>7, FaultCounted DEF IInv, TypeOK
  <2>9. IInv'
    BY <2>1, <2>7, <2>8 DEF IInv
  <2>10. QED
    BY <2>3, <2>5, <2>7, <2>9, KeepsTransitive
<1>11. CASE Housekeep
  <2> DEFINE tidy(F) == Expire(world, now, F)
  <2>1. PICK F : up /\ Fault(F) /\ Become(Sweep(tidy(F), now, F))
    BY <1>11 DEF Housekeep
  <2>2. now \in Nat /\ Good(world, now)
    BY <2>1, UpGood
  <2>3. Good(tidy(F), now) /\ KeepsResolved(world, tidy(F))
    BY <2>2, ExpireGood
  <2>4. Good(Sweep(tidy(F), now, F), now) /\ KeepsResolved(tidy(F), Sweep(tidy(F), now, F))
    BY <2>2, <2>3, SweepGood
  <2>5. KeepsResolved(world, Sweep(tidy(F), now, F))
    BY <2>3, <2>4, KeepsTransitive
  <2>6. QED
    BY <2>1, <2>4, <2>5, CallKeepsIInv DEF Become
<1>12. CASE UNCHANGED vars
  BY <1>12 DEF vars, IInv, TypeOK, KeepsResolved
<1>13. QED
  BY <1>1, <1>2, <1>3, <1>4, <1>5, <1>6, <1>7, <1>8, <1>9, <1>10, <1>11, <1>12 DEF Next, Calls

-----------------------------------------------------------------------------
(***************************************************************************)
(* Locks.  Most parts of a call leave a lock in force as it is; the last   *)
(* part may take it for the vehicle it was made for, or give it up.        *)
(***************************************************************************)

\* r holds its spot and is not late.
Locked(w, r, t) ==
    /\ w.resv[r].st = "Confirmed"
    /\ HeldBy(w.spots[w.resv[r].spot], w.resv[r].plate)
    /\ t <= w.resv[r].deadline

KeepsLocks(w, v, t) ==
    \A r \in ResvIds : Locked(w, r, t) =>
        v.resv[r] = w.resv[r] /\ v.spots[w.resv[r].spot] = w.spots[w.resv[r].spot]

HandsOverNone(w, v, t) ==
    \A r \in ResvIds : Locked(w, r, t) =>
        v.spots[w.resv[r].spot].by \in {w.resv[r].plate, None}

LEMMA LocksTransitive ==
  ASSUME NEW u, NEW v, NEW t, KeepsLocks(u, v, t)
  PROVE  /\ HandsOverNone(u, v, t)
         /\ \A w : KeepsLocks(v, w, t) => KeepsLocks(u, w, t)
         /\ \A w : HandsOverNone(v, w, t) => HandsOverNone(u, w, t)
<1>1. \A r \in ResvIds : Locked(u, r, t) => /\ Locked(v, r, t)
                                             /\ v.resv[r] = u.resv[r]
                                             /\ v.spots[u.resv[r].spot] = u.spots[u.resv[r].spot]
  BY DEF KeepsLocks, Locked
<1>2. HandsOverNone(u, v, t)
  BY DEF KeepsLocks, HandsOverNone, Locked, HeldBy
<1>3. ASSUME NEW w, KeepsLocks(v, w, t)
      PROVE  KeepsLocks(u, w, t)
  BY <1>1, <1>3 DEF KeepsLocks
<1>4. ASSUME NEW w, HandsOverNone(v, w, t)
      PROVE  HandsOverNone(u, w, t)
  BY <1>1, <1>4 DEF HandsOverNone
<1>5. QED
  BY <1>2, <1>3, <1>4

LEMMA NothingTaken ==
  ASSUME NEW w, NEW t
  PROVE  KeepsLocks(w, w, t)
BY DEF KeepsLocks

LEMMA ConfirmedFacts ==
  ASSUME NEW t \in Nat, NEW w, Good(w, t)
  PROVE  /\ w \in WorldType
         /\ w.spots \in [Spots -> SpotType] /\ w.resv \in [ResvIds -> ResvType]
         /\ \A r \in ResvIds : w.resv[r].st = "Confirmed" =>
              w.resv[r].spot \in Spots /\ w.resv[r].plate \in Plates
         /\ \A q, r \in ResvIds :
              w.resv[q].st = "Confirmed" /\ w.resv[r].st = "Confirmed" /\ q # r =>
                w.resv[q].spot # w.resv[r].spot
<1>1. w \in WorldType /\ w.resv = w.dbResv /\ RowsSound(w) /\ OneOpen(w.dbResv)
  BY DEF Good, MemorySound, Mirrored, DbSound
<1>2. QED
  BY <1>1 DEF WorldType, RowsSound, OneOpen, Open

\* A spot that is held for nobody but p may be given to p, or up.
LEMMA GivingSpot ==
  ASSUME NEW t \in Nat, NEW w, Good(w, t), NEW v, NEW s \in Spots, NEW p, NEW x,
         w.spots[s].st = "Reserved" => w.spots[s].by = p,
         x.by \in {p, None}, v.spots = [w.spots EXCEPT ![s] = x]
  PROVE  HandsOverNone(w, v, t)
<1> SUFFICES ASSUME NEW r \in ResvIds, Locked(w, r, t)
             PROVE  v.spots[w.resv[r].spot].by \in {w.resv[r].plate, None}
  BY DEF HandsOverNone
<1>1. w.resv[r].spot \in Spots /\ w.spots \in [Spots -> SpotType]
  BY ConfirmedFacts DEF Locked
<1>2. HeldBy(w.spots[w.resv[r].spot], w.resv[r].plate)
  BY DEF Locked
<1>3. CASE w.resv[r].spot = s
  BY <1>1, <1>2, <1>3 DEF HeldBy
<1>4. CASE w.resv[r].spot # s
  BY <1>1, <1>2, <1>4 DEF HeldBy
<1>5. QED
  BY <1>3, <1>4

LEMMA SameSpots ==
  ASSUME NEW w, NEW v, NEW t, v.spots = w.spots
  PROVE  HandsOverNone(w, v, t)
BY DEF HandsOverNone, Locked, HeldBy

LEMMA ExpireKeepsLocks ==
  ASSUME NEW t \in Nat, NEW w, Good(w, t), NEW F
  PROVE  KeepsLocks(w, Expire(w, t, F), t)
<1> DEFINE v == Expire(w, t, F)
           S == Lapsed(w, t, F)
<1>1. v.spots = FreeAt(w.spots, S) /\ v.resv = w.resv
  BY ConfirmedFacts DEF Expire, WorldType
<1>2. \A s \in Spots : s \notin S => FreeAt(w.spots, S)[s] = w.spots[s]
  BY DEF FreeAt
<1>3. \A r \in ResvIds : w.resv[r].st = "Confirmed" => w.resv[r].spot \notin S
  BY DEF Lapsed
<1> HIDE DEF v, S
<1>4. KeepsLocks(w, v, t)
  BY <1>1, <1>2, <1>3, ConfirmedFacts DEF KeepsLocks, Locked
<1>5. QED
  BY <1>4 DEF v

\* A late reservation is not on the spot of one that is not.
LEMMA SettleKeepsLocks ==
  ASSUME NEW t \in Nat, NEW w, Good(w, t), NEW F
  PROVE  KeepsLocks(w, SettleNoShows(w, t, F), t)
<1> DEFINE v == SettleNoShows(w, t, F)
           S == Unlocked(w, t, F)
           R == Settled(w, t, F)
<1>1. v.spots = FreeAt(w.spots, S) /\ v.resv = Marked(w.resv, R, "NoShow")
  BY ConfirmedFacts DEF SettleNoShows, WorldType
<1>2. /\ \A s \in Spots : s \notin S => FreeAt(w.spots, S)[s] = w.spots[s]
      /\ \A r \in ResvIds : r \notin R => Marked(w.resv, R, "NoShow")[r] = w.resv[r]
  BY DEF FreeAt, Marked
<1>3. ASSUME NEW r \in ResvIds, Locked(w, r, t)
      PROVE  w.resv[r].spot \in Spots /\ w.resv[r].spot \notin S /\ r \notin R
  <2>1. w.resv[r].st = "Confirmed" /\ w.resv[r].deadline \in Nat /\ t <= w.resv[r].deadline
    BY <1>3, ConfirmedFacts DEF Locked, ResvType
  <2>2. r \notin Late(w, t)
    BY <2>1 DEF Late
  <2>3. \A q \in Late(w, t) : q \in ResvIds /\ q # r /\ w.resv[q].st = "Confirmed"
    BY <2>2 DEF Late
  <2>4. w.resv[r].spot \notin S
    BY <2>1, <2>3, ConfirmedFacts DEF Unlocked
  <2>5. QED
    BY <2>1, <2>2, <2>4, ConfirmedFacts DEF Settled
<1> HIDE DEF v, S, R
<1>4. KeepsLocks(w, v, t)
  BY <1>1, <1>2, <1>3 DEF KeepsLocks
<1>5. QED
  BY <1>4 DEF v

LEMMA RelockKeepsLocks ==
  ASSUME NEW t \in Nat, NEW w, Good(w, t), NEW F
  PROVE  KeepsLocks(w, Relock(w, t, F), t)
<1> DEFINE v == Relock(w, t, F)
           f == Relocked(w.spots, w, t, F)
<1>1. v.spots = f /\ v.resv = w.resv
  BY ConfirmedFacts DEF Relock, WorldType
<1>2. \A s \in Spots : w.spots[s].st # "Available" => f[s] = w.spots[s]
  BY DEF Relocked
<1> HIDE DEF v, f
<1>3. KeepsLocks(w, v, t)
  BY <1>1, <1>2, ConfirmedFacts DEF KeepsLocks, Locked, HeldBy
<1>4. QED
  BY <1>3 DEF v

LEMMA SweepKeepsLocks ==
  ASSUME NEW t \in Nat, NEW w, Good(w, t), NEW F
  PROVE  KeepsLocks(w, Sweep(w, t, F), t)
<1> DEFINE u == SettleNoShows(w, t, F)
<1>1. Good(u, t) /\ KeepsLocks(w, u, t)
  BY SettleGood, SettleKeepsLocks
<1>2. Sweep(w, t, F) = Relock(u, t, F)
  BY DEF Sweep
<1> HIDE DEF u
<1>3. QED
  BY <1>1, <1>2, RelockKeepsLocks, LocksTransitive

LEMMA LockForCheckIn ==
  ASSUME NEW t \in Nat, NEW w, Good(w, t), NEW F, NEW r \in ResvIds
  PROVE  KeepsLocks(w, CheckInLock(w, r, F), t)
<1> DEFINE s == w.resv[r].spot
           h == Held(w.resv[r].plate, w.resv[r].deadline)
           a == [w.spots EXCEPT ![s] = h]
           b == [w.dbSpots EXCEPT ![s] = h]
           v == [w EXCEPT !.spots = a, !.dbSpots = b]
<1>1. CheckInLock(w, r, F) =
        IF w.spots[s].st = "Available" /\ <<"checkinLock", r>> \notin F THEN v ELSE w
  BY DEF CheckInLock
<1>2. \A x \in Spots : x # s => a[x] = w.spots[x]
  BY ConfirmedFacts
<1> HIDE DEF a, b
<1>3. v.spots = a /\ v.resv = w.resv
  BY ConfirmedFacts DEF WorldType
<1> HIDE DEF v
<1>4. ASSUME w.spots[s].st = "Available"
      PROVE  KeepsLocks(w, v, t)
  <2> SUFFICES ASSUME NEW q \in ResvIds, Locked(w, q, t)
               PROVE  v.resv[q] = w.resv[q] /\ v.spots[w.resv[q].spot] = w.spots[w.resv[q].spot]
    BY DEF KeepsLocks
  <2>1. w.resv[q].spot \in Spots /\ w.resv[q].spot # s
    BY <1>4, ConfirmedFacts DEF Locked, HeldBy
  <2>2. QED
    BY <1>2, <1>3, <2>1
<1>5. QED
  BY <1>1, <1>4, NothingTaken

\* A check-in that is refused leaves its own lock as well; one that succeeds gives the
\* spot to the vehicle it was locked for.
LEMMA CheckInTakesOwnSpot ==
  ASSUME NEW t \in Nat, NEW w, Good(w, t), NEW F, NEW r \in ResvIds,
         w.resv[r].st = "Confirmed"
  PROVE  /\ HandsOverNone(w, CheckInSpot(w, r, F).w, t)
         /\ ~CheckInSpot(w, r, F).ok => KeepsLocks(w, CheckInSpot(w, r, F).w, t)
<1> DEFINE s == w.resv[r].spot
           p == w.resv[r].plate
           h == Held(p, w.resv[r].deadline)
           a == [w.spots EXCEPT ![s] = h]
           b == [w.spots EXCEPT ![s] = Parked(p)]
           c == [w.dbSpots EXCEPT ![s] = Parked(p)]
           d == [w.active EXCEPT ![p] = s]
           e == [w.dbActive EXCEPT ![p] = s]
           f == Marked(w.resv, {r}, "CheckedIn")
           g == Marked(w.dbResv, {r}, "CheckedIn")
           undone == [w EXCEPT !.spots = a]
           v == [w EXCEPT !.spots = b, !.active = d, !.dbSpots = c, !.dbActive = e,
                          !.resv = f, !.dbResv = g]
           o == CheckInSpot(w, r, F)
<1>1. \/ o = [ok |-> FALSE, w |-> w]
      \/ HeldBy(w.spots[s], p) /\ o = [ok |-> FALSE, w |-> undone]
      \/ HeldBy(w.spots[s], p) /\ o = [ok |-> TRUE, w |-> v]
  BY DEF CheckInSpot
<1>2. s \in Spots /\ p \in Plates /\ w \in WorldType
  BY ConfirmedFacts
<1>3. ASSUME HeldBy(w.spots[s], p)
      PROVE  undone = w
  <2>1. w.spots[s] = h
    BY <1>3 DEF HeldBy, Good, MemorySound, LocksSound
  <2>2. a = w.spots
    <3> HIDE DEF h, s
    <3>1. QED
      BY <2>1, <1>2 DEF WorldType
  <2> HIDE DEF a
  <2>3. QED
    BY <2>2, <1>2 DEF WorldType
<1>4. ASSUME HeldBy(w.spots[s], p)
      PROVE  HandsOverNone(w, v, t)
  <2>1. v.spots = b
    <3> HIDE DEF b, c, d, e, f, g
    <3>1. QED
      BY <1>2 DEF WorldType
  <2>2. Parked(p).by \in {p, None} /\ w.spots[s].by = p
    BY <1>2, <1>4, RowTypes DEF HeldBy
  <2> HIDE DEF v, s, p
  <2>3. QED
    BY <1>2, <2>1, <2>2, GivingSpot
<1>5. KeepsLocks(w, w, t)
  BY NothingTaken
<1>6. HandsOverNone(w, w, t)
  BY <1>5, LocksTransitive
<1> HIDE DEF undone, v, s, p, o
<1>7. /\ HandsOverNone(w, o.w, t)
      /\ ~o.ok => KeepsLocks(w, o.w, t)
  BY <1>1, <1>3, <1>4, <1>5, <1>6
<1>8. QED
  BY <1>7 DEF o

LEMMA CheckInHandsOverNone ==
  ASSUME NEW t \in Nat, NEW w, Good(w, t), NEW F, NEW p
  PROVE  /\ HandsOverNone(w, CheckInImpl(w, t, p, F).w, t)
         /\ ~CheckInImpl(w, t, p, F).ok => KeepsLocks(w, CheckInImpl(w, t, p, F).w, t)
<1> DEFINE u == Sweep(w, t, F)
           due == Due(u, t, p)
           r == CHOOSE q \in due : TRUE
           v == CheckInLock(u, r, F)
           o == CheckInImpl(w, t, p, F)
           x == CheckInSpot(v, r, F)
<1>1. Good(u, t) /\ KeepsLocks(w, u, t)
  BY SweepGood, SweepKeepsLocks
<1>2. o = IF due = {} THEN [ok |-> FALSE, w |-> u] ELSE x
  BY DEF CheckInImpl
<1>3. ASSUME due # {}
      PROVE  /\ HandsOverNone(u, x.w, t)
             /\ ~x.ok => KeepsLocks(u, x.w, t)
  <2>1. r \in ResvIds /\ u.resv[r].st = "Confirmed"
    <3>1. r \in due
      BY <1>3
    <3>2. QED
      BY <3>1 DEF Due
  <2> HIDE DEF u, r
  <2>2. Good(v, t) /\ KeepsLocks(u, v, t) /\ v.resv = u.resv
    BY <1>1, <2>1, CheckInLockGood, LockForCheckIn
  <2> HIDE DEF v
  <2>3. HandsOverNone(v, x.w, t) /\ (~x.ok => KeepsLocks(v, x.w, t))
    BY <2>1, <2>2, CheckInTakesOwnSpot
  <2> HIDE DEF x
  <2>4. QED
    BY <2>2, <2>3, LocksTransitive
<1> HIDE DEF u, due, x, o
<1>4. ASSUME due = {}
      PROVE  HandsOverNone(w, o.w, t) /\ KeepsLocks(w, o.w, t)
  <2>1. o.w = u
    BY <1>2, <1>4
  <2>2. QED
    BY <1>1, <2>1, LocksTransitive
<1>5. ASSUME due # {}
      PROVE  HandsOverNone(w, o.w, t) /\ (~o.ok => KeepsLocks(w, o.w, t))
  <2>1. o = x
    BY <1>2, <1>5
  <2>2. HandsOverNone(w, x.w, t)
    BY <1>1, <1>3, <1>5, LocksTransitive
  <2>3. ASSUME ~x.ok PROVE KeepsLocks(w, x.w, t)
    BY <1>1, <1>3, <1>5, <2>3, LocksTransitive
  <2>4. QED
    BY <2>1, <2>2, <2>3
<1>6. /\ HandsOverNone(w, o.w, t)
      /\ ~o.ok => KeepsLocks(w, o.w, t)
  BY <1>4, <1>5
<1>7. QED
  BY <1>6 DEF o

\* The spot that is left is one a car was on.
LEMMA LeaveKeepsLocks ==
  ASSUME NEW t \in Nat, NEW w0, Good(w0, t), NEW F, NEW p
  PROVE  KeepsLocks(w0, LeaveImpl(w0, t, p, F).w, t)
<1> DEFINE w == Expire(w0, t, F)
           s == w.active[p]
           R == ServedBy(w, p)
           a == [w.spots EXCEPT ![s] = Free]
           b == [w.dbSpots EXCEPT ![s] = Free]
           c == [w.active EXCEPT ![p] = None]
           d == [w.dbActive EXCEPT ![p] = None]
           f == Marked(w.resv, R, "Completed")
           g == Marked(w.dbResv, R, "Completed")
           l == Booked(w.ledger, R, "apply")
           v == [w EXCEPT !.spots = a, !.active = c, !.dbSpots = b, !.dbActive = d,
                          !.resv = f, !.dbResv = g, !.ledger = l]
<1>1. Good(w, t) /\ KeepsLocks(w0, w, t)
  BY ExpireGood, ExpireKeepsLocks
<1>2. \/ LeaveImpl(w0, t, p, F).w = w
      \/ w.spots[s].st = "Occupied" /\ LeaveImpl(w0, t, p, F).w = v
  BY DEF LeaveImpl, Completed
<1> HIDE DEF w
<1>3. ASSUME w.spots[s].st = "Occupied"
      PROVE  KeepsLocks(w, v, t)
  <2>1. v.spots = a /\ v.resv = f
    <3> HIDE DEF a, b, c, d, f, g, l
    <3>1. QED
      BY <1>1, ConfirmedFacts DEF WorldType
  <2> HIDE DEF v
  <2> SUFFICES ASSUME NEW q \in ResvIds, Locked(w, q, t)
               PROVE  v.resv[q] = w.resv[q] /\ v.spots[w.resv[q].spot] = w.spots[w.resv[q].spot]
    BY DEF KeepsLocks
  <2>2. w.resv[q].spot \in Spots /\ w.resv[q].spot # s /\ q \notin R
    BY <1>1, <1>3, ConfirmedFacts DEF Locked, HeldBy, ServedBy
  <2> HIDE DEF s, R
  <2>3. a[w.resv[q].spot] = w.spots[w.resv[q].spot] /\ f[q] = w.resv[q]
    BY <1>1, <2>2, ConfirmedFacts DEF Marked
  <2>4. QED
    BY <2>1, <2>3
<1> HIDE DEF v, s
<1>4. QED
  BY <1>1, <1>2, <1>3, LocksTransitive

LEMMA OccupyTakesOwnSpot ==
  ASSUME NEW t \in Nat, NEW w, Good(w, t), NEW F, NEW p \in Plates, NEW s \in Spots,
         w.spots[s].st = "Reserved" => w.spots[s].by = p
  PROVE  HandsOverNone(w, OccupyAndRecord(w, p, s, F), t)
<1> DEFINE a == [w.spots EXCEPT ![s] = Free]
           b == [w.spots EXCEPT ![s] = Parked(p)]
           c == [w.dbSpots EXCEPT ![s] = Parked(p)]
           d == [w.active EXCEPT ![p] = s]
           e == [w.dbActive EXCEPT ![p] = s]
           v == OccupyAndRecord(w, p, s, F)
<1>1. \/ v = [w EXCEPT !.spots = a]
      \/ v = [w EXCEPT !.spots = b, !.active = d, !.dbSpots = c, !.dbActive = e]
  BY DEF OccupyAndRecord
<1> HIDE DEF v
<1>2. v.spots = a \/ v.spots = b
  <2> HIDE DEF a, b, c, d, e
  <2>1. w \in WorldType
    BY ConfirmedFacts
  <2>2. /\ [w EXCEPT !.spots = a].spots = a
        /\ [w EXCEPT !.spots = b, !.active = d, !.dbSpots = c, !.dbActive = e].spots = b
    BY <2>1 DEF WorldType
  <2>3. QED
    BY <1>1, <2>2
<1>3. Free.by \in {p, None} /\ Parked(p).by \in {p, None}
  BY DEF Free, Parked
<1>4. HandsOverNone(w, v, t)
  BY <1>2, <1>3, GivingSpot
<1>5. QED
  BY <1>4 DEF v

\* A new reservation is put on an available spot.
LEMMA PlaceHandsOverNone ==
  ASSUME NEW t \in Nat, NEW w, Good(w, t), NEW F, NEW p \in Plates, NEW acc, NEW start,
         NEW s \in Candidates(w, acc)
  PROVE  HandsOverNone(w, Place(w, p, s, acc, start, F), t)
<1> DEFINE id == w.nextId
           deadline == start + (IF acc THEN 2 * Grace ELSE Grace)
           order == [st |-> "Confirmed", plate |-> p, spot |-> s, start |-> start,
                     deadline |-> deadline, charged |-> ~acc]
           paid == IF acc THEN {} ELSE {id}
           drawn == [w EXCEPT !.nextId = @ + 1]
           charged == [drawn EXCEPT !.gateway = Booked(@, paid, "charge")]
           placed == [charged EXCEPT !.resv[id] = order, !.dbResv[id] = order,
                                     !.ledger = Booked(@, paid, "charge")]
           h == Held(p, deadline)
           locked == [placed EXCEPT !.spots[s] = h, !.dbSpots[s] = h]
           v == Place(w, p, s, acc, start, F)
<1>1. v \in {drawn, charged, placed, locked}
  BY DEF Place
<1>2. /\ s \in Spots /\ w.spots[s].st = "Available" /\ w \in WorldType
      /\ h.by = p
  BY ConfirmedFacts DEF Candidates, Held
<1> HIDE DEF order, paid, h, id, v
<1>3. drawn.spots = w.spots /\ DOMAIN drawn = DOMAIN w
  BY <1>2 DEF WorldType
<1>4. charged.spots = w.spots /\ DOMAIN charged = DOMAIN w
  <2> HIDE DEF drawn
  <2>1. QED
    BY <1>2, <1>3 DEF WorldType
<1>5. placed.spots = w.spots /\ DOMAIN placed = DOMAIN w
  <2> HIDE DEF charged
  <2>1. QED
    BY <1>2, <1>4 DEF WorldType
<1>6. locked.spots = [w.spots EXCEPT ![s] = h]
  <2> HIDE DEF placed
  <2>1. QED
    BY <1>2, <1>5 DEF WorldType
<1> HIDE DEF drawn, charged, placed, locked
<1>7. CASE v.spots = w.spots
  BY <1>7, SameSpots DEF v
<1>8. CASE v.spots = [w.spots EXCEPT ![s] = h]
  <2>1. HandsOverNone(w, v, t)
    BY <1>2, <1>8, GivingSpot
  <2>2. QED
    BY <2>1 DEF v
<1>9. QED
  BY <1>1, <1>3, <1>4, <1>5, <1>6, <1>7, <1>8

LEMMA CreateHandsOverNone ==
  ASSUME NEW t \in Nat, NEW w0, Good(w0, t), NEW F, NEW p \in Plates,
         NEW acc, NEW start, NEW v \in CreateOutcomes(w0, t, p, acc, start, F)
  PROVE  HandsOverNone(w0, v, t)
<1> DEFINE w == Sweep(w0, t, F)
<1>1. Good(w, t) /\ KeepsLocks(w0, w, t)
  BY SweepGood, SweepKeepsLocks
<1>2. v = w \/ \E s \in Candidates(w, acc) : v = Place(w, p, s, acc, start, F)
  BY DEF CreateOutcomes
<1> HIDE DEF w
<1>3. v = w \/ HandsOverNone(w, v, t)
  BY <1>1, <1>2, PlaceHandsOverNone
<1>4. QED
  BY <1>1, <1>3, LocksTransitive

\* Only the spot of the reservation that is cancelled is given up.
LEMMA CancelHandsOverNone ==
  ASSUME NEW t \in Nat, NEW w0, Good(w0, t), NEW F, NEW p
  PROVE  HandsOverNone(w0, CancelImpl(w0, t, p, F), t)
<1> DEFINE w == Sweep(w0, t, F)
           mine == {r \in ResvIds : /\ w.resv[r].st = "Confirmed" /\ w.resv[r].plate = p
                                    /\ t < w.resv[r].start}
           r == CHOOSE q \in mine : TRUE
           s == w.resv[r].spot
           holds == HeldBy(w.spots[s], p)
           freed == [w EXCEPT !.spots[s] = Free, !.dbSpots[s] = Free]
           x == IF holds THEN freed ELSE w
           C == Charged(w, {r})
           y == Booked(x.gateway, C, "refund")
           refunded == [x EXCEPT !.gateway = y]
           f == Marked(refunded.resv, {r}, "Cancelled")
           g == Marked(refunded.dbResv, {r}, "Cancelled")
           l == Booked(refunded.ledger, C, "refund")
           cancelled == [refunded EXCEPT !.resv = f, !.dbResv = g, !.ledger = l]
           v == CancelImpl(w0, t, p, F)
<1>1. Good(w, t) /\ KeepsLocks(w0, w, t)
  BY SweepGood, SweepKeepsLocks
<1>2. v = w \/ (mine # {} /\ v \in {refunded, cancelled})
  BY DEF CancelImpl
<1> HIDE DEF w, v
<1>3. ASSUME mine # {}
      PROVE  r \in ResvIds /\ w.resv[r].st = "Confirmed" /\ w.resv[r].plate = p
  <2>1. r \in mine
    BY <1>3
  <2> HIDE DEF r
  <2>2. QED
    BY <2>1
<1> HIDE DEF r, mine
<1>4. ASSUME mine # {}, v \in {refunded, cancelled}
      PROVE  HandsOverNone(w, v, t)
  <2>1. s \in Spots /\ w \in WorldType
    BY <1>1, <1>3, <1>4, ConfirmedFacts
  <2> HIDE DEF s
  <2>2. freed.spots = [w.spots EXCEPT ![s] = Free] /\ DOMAIN freed = DOMAIN w
    BY <2>1 DEF WorldType
  <2> HIDE DEF freed, holds
  <2>3. /\ DOMAIN x = DOMAIN w
        /\ IF holds THEN x.spots = [w.spots EXCEPT ![s] = Free] ELSE x.spots = w.spots
    BY <2>2
  <2> HIDE DEF x, y
  <2>4. refunded.spots = x.spots /\ DOMAIN refunded = DOMAIN w
    BY <2>1, <2>3 DEF WorldType
  <2> HIDE DEF refunded, f, g, l
  <2>5. cancelled.spots = x.spots
    BY <2>1, <2>4 DEF WorldType
  <2> HIDE DEF cancelled
  <2>6. v.spots = x.spots
    BY <1>4, <2>4, <2>5
  <2>7. CASE holds
    <3>1. w.spots[s].by = p /\ Free.by \in {p, None}
      BY <2>7 DEF holds, HeldBy, Free
    <3>2. QED
      BY <1>1, <2>1, <2>3, <2>6, <2>7, <3>1, GivingSpot
  <2>8. CASE ~holds
    BY <2>3, <2>6, <2>8, SameSpots
  <2>9. QED
    BY <2>7, <2>8
<1>5. HandsOverNone(w0, v, t)
  BY <1>1, <1>2, <1>4, LocksTransitive
<1>6. QED
  BY <1>5 DEF v

\* A car without a reservation gets a spot that is held for its plate or for nobody.
LEMMA EnterHandsOverNone ==
  ASSUME NEW t \in Nat, NEW w0, Good(w0, t), NEW F, NEW p \in Plates,
         NEW v \in EnterOutcomes(w0, t, p, F)
  PROVE  HandsOverNone(w0, v, t)
<1> DEFINE x == Expire(w0, t, F)
           o == CheckInImpl(x, t, p, F)
           w == o.w
<1>1. Good(x, t) /\ KeepsLocks(w0, x, t)
  BY ExpireGood, ExpireKeepsLocks
<1>2. \/ v = w
      \/ ~o.ok /\ \E s \in Spots : /\ w.spots[s].st = "Available" \/ HeldBy(w.spots[s], p)
                                   /\ v = OccupyAndRecord(w, p, s, F)
  BY DEF EnterOutcomes
<1> HIDE DEF x
<1>3. Good(w, t) /\ HandsOverNone(x, w, t) /\ (~o.ok => KeepsLocks(x, w, t))
  BY <1>1, CheckInGood, CheckInHandsOverNone
<1> HIDE DEF o, w
<1>4. ASSUME ~o.ok, NEW s \in Spots, v = OccupyAndRecord(w, p, s, F),
             w.spots[s].st = "Available" \/ HeldBy(w.spots[s], p)
      PROVE  HandsOverNone(x, v, t)
  <2>1. w.spots[s].st = "Reserved" => w.spots[s].by = p
    BY <1>4 DEF HeldBy
  <2>2. HandsOverNone(w, v, t)
    BY <1>3, <1>4, <2>1, OccupyTakesOwnSpot
  <2>3. KeepsLocks(x, w, t)
    BY <1>3, <1>4
  <2>4. QED
    BY <2>2, <2>3, LocksTransitive
<1>5. HandsOverNone(x, v, t)
  BY <1>2, <1>3, <1>4
<1>6. QED
  BY <1>1, <1>5, LocksTransitive

\* So does a car that enters in an emergency; the one moved out leaves no lock behind.
LEMMA EmergencyHandsOverNone ==
  ASSUME NEW t \in Nat, NEW w0, Good(w0, t), NEW F, NEW p \in Plates, NEW evict,
         NEW v \in EmergencyOutcomes(w0, t, p, evict, F)
  PROVE  HandsOverNone(w0, v, t)
<1> DEFINE w == Expire(w0, t, F)
           exit(s) == LeaveImpl(w, t, w.spots[s].by, F)
<1>1. Good(w, t) /\ KeepsLocks(w0, w, t)
  BY ExpireGood, ExpireKeepsLocks
<1>2. \/ v = w
      \/ \E s \in Spots : /\ w.spots[s].st = "Available" \/ HeldBy(w.spots[s], p)
                          /\ v = OccupyAndRecord(w, p, s, F)
      \/ \E s \in Spots : /\ w.spots[s].st = "Occupied"
                          /\ \/ v = exit(s).w
                             \/ exit(s).ok /\ v = OccupyAndRecord(exit(s).w, p, s, F)
  BY DEF EmergencyOutcomes
<1> HIDE DEF w
<1>3. ASSUME NEW s \in Spots, w.spots[s].st = "Available" \/ HeldBy(w.spots[s], p),
             v = OccupyAndRecord(w, p, s, F)
      PROVE  HandsOverNone(w, v, t)
  <2>1. w.spots[s].st = "Reserved" => w.spots[s].by = p
    BY <1>3 DEF HeldBy
  <2>2. QED
    BY <1>1, <1>3, <2>1, OccupyTakesOwnSpot
<1>4. ASSUME NEW s \in Spots, w.spots[s].st = "Occupied",
             v = exit(s).w \/ (exit(s).ok /\ v = OccupyAndRecord(exit(s).w, p, s, F))
      PROVE  HandsOverNone(w, v, t)
  <2> DEFINE q == w.spots[s].by
             o == LeaveImpl(w, t, q, F)
             x == o.w
  <2>1. q \in Plates
    BY <1>1, <1>4, SpotFacts DEF Good, WorldType
  <2>2. Good(x, t) /\ KeepsLocks(w, x, t)
    <3> HIDE DEF q
    <3>1. QED
      BY <1>1, <2>1, LeaveGood, LeaveKeepsLocks
  <2>3. v = x \/ (o.ok /\ v = OccupyAndRecord(x, p, s, F))
    BY <1>4
  <2>4. ASSUME o.ok PROVE x.spots[s].st # "Reserved"
    <3>1. x.spots[s] = Free
      BY <1>1, <1>4, <2>4, EvictedSpotFree
    <3> HIDE DEF x
    <3>2. QED
      BY <3>1, RowTypes
  <2> HIDE DEF o, x
  <2>5. CASE v = x
    BY <2>2, <2>5, LocksTransitive
  <2>6. CASE o.ok /\ v = OccupyAndRecord(x, p, s, F)
    <3>1. HandsOverNone(x, v, t)
      BY <2>2, <2>4, <2>6, OccupyTakesOwnSpot
    <3>2. QED
      BY <2>2, <3>1, LocksTransitive
  <2>7. QED
    BY <2>3, <2>5, <2>6
<1>5. v = w \/ HandsOverNone(w, v, t)
  BY <1>2, <1>3, <1>4
<1>6. QED
  BY <1>1, <1>5, LocksTransitive

LEMMA StepHandsOverNone ==
  ASSUME IInv, [Next]_vars, up
  PROVE  HandsOverNone(world, world', now)
<1>0. Good(world, now) /\ now \in Nat
  BY UpGood
<1>1. \A w : Become(w) => world' = w
  BY DEF Become
<1>2. ASSUME world' = world
      PROVE  HandsOverNone(world, world', now)
  BY <1>2, NothingTaken, LocksTransitive
<1>3. ASSUME NEW p \in Plates, NEW acc \in BOOLEAN, NEW start \in Starts,
             Create(p, acc, start)
      PROVE  HandsOverNone(world, world', now)
  <2>1. PICK F : \E w \in CreateOutcomes(world, now, p, acc, start, F) : Become(w)
    BY <1>3 DEF Create
  <2>2. world' \in CreateOutcomes(world, now, p, acc, start, F)
    BY <1>1, <2>1
  <2>3. QED
    BY <1>0, <2>2, CreateHandsOverNone
<1>4. ASSUME NEW p \in Plates, Cancel(p)
      PROVE  HandsOverNone(world, world', now)
  BY <1>0, <1>1, <1>4, CancelHandsOverNone DEF Cancel
<1>5. ASSUME NEW p \in Plates, CheckIn(p)
      PROVE  HandsOverNone(world, world', now)
  BY <1>0, <1>1, <1>5, CheckInHandsOverNone DEF CheckIn
<1>6. ASSUME NEW p \in Plates, Enter(p)
      PROVE  HandsOverNone(world, world', now)
  <2>1. PICK F : \E w \in EnterOutcomes(world, now, p, F) : Become(w)
    BY <1>6 DEF Enter
  <2>2. world' \in EnterOutcomes(world, now, p, F)
    BY <1>1, <2>1
  <2>3. QED
    BY <1>0, <2>2, EnterHandsOverNone
<1>7. ASSUME NEW p \in Plates, Leave(p)
      PROVE  HandsOverNone(world, world', now)
  BY <1>0, <1>1, <1>7, LeaveKeepsLocks, LocksTransitive DEF Leave
<1>8. ASSUME NEW p \in Plates, NEW evict \in BOOLEAN, EmergencyEnter(p, evict)
      PROVE  HandsOverNone(world, world', now)
  <2>1. PICK F : \E w \in EmergencyOutcomes(world, now, p, evict, F) : Become(w)
    BY <1>8 DEF EmergencyEnter
  <2>2. world' \in EmergencyOutcomes(world, now, p, evict, F)
    BY <1>1, <2>1
  <2>3. QED
    BY <1>0, <2>2, EmergencyHandsOverNone
<1>9. CASE Housekeep
  <2>1. PICK F : Become(Sweep(Expire(world, now, F), now, F))
    BY <1>9 DEF Housekeep
  <2> DEFINE w == Expire(world, now, F)
  <2>2. Good(w, now) /\ KeepsLocks(world, w, now)
    BY <1>0, ExpireGood, ExpireKeepsLocks
  <2>3. world' = Sweep(w, now, F)
    BY <1>1, <2>1
  <2> HIDE DEF w
  <2>4. QED
    BY <1>0, <2>2, <2>3, SweepKeepsLocks, LocksTransitive
<1>10. CASE Crash
  <2>1. world' = NoMemory(world)
    BY <1>10 DEF Crash
  <2>2. world'.spots = [s \in Spots |-> Free]
    BY <1>0, <2>1 DEF Good, WorldType, NoMemory
  <2>3. \A s \in Spots : world'.spots[s].by = None
    BY <2>2 DEF Free
  <2>4. QED
    BY <1>0, <2>3, ConfirmedFacts DEF HandsOverNone, Locked
<1>11. QED
  BY <1>2, <1>3, <1>4, <1>5, <1>6, <1>7, <1>8, <1>9, <1>10
     DEF Next, Calls, vars, Tick, Restart, RestartFails

-----------------------------------------------------------------------------
(***************************************************************************)
(* The theorems.                                                           *)
(***************************************************************************)

\* The inductive invariant holds of every state the service, its database and its
\* start-up can reach, however many plates, spots and reservations there are.
THEOREM Inductive == Spec => []IInv
<1>1. Init => IInv
  BY InitGood
<1>2. IInv /\ [Next]_vars => IInv'
  BY StepGood
<1>3. QED
  BY <1>1, <1>2, PTL DEF Spec

\* Every variable keeps its type.
THEOREM TypeCorrect == Spec => []TypeOK
<1>1. IInv => TypeOK
  BY DEF IInv
<1>2. QED
  BY <1>1, Inductive, PTL

\* A plate never has two open reservations and a spot never backs two, in memory
\* or in the database (ReservationService::create, checkInImpl, restore).
THEOREM NoDoubleReservation == Spec => []OneOpenReservation
<1>1. IInv => OneOpenReservation
  <2>1. ASSUME IInv, up PROVE OneOpenReservation
    BY <2>1 DEF IInv, DbSound, MemorySound, Mirrored, OneOpenReservation
  <2>2. ASSUME IInv, ~up PROVE OneOpenReservation
    <3>1. world.resv = [r \in ResvIds |-> Absent]
      BY <2>2 DEF IInv, TypeOK, WorldType, NoMemory
    <3>2. \A r \in ResvIds : ~Open(world.resv[r])
      BY <3>1 DEF Open, Absent
    <3>3. QED
      BY <2>2, <3>2 DEF IInv, DbSound, OneOpen, OneOpenReservation
  <2>3. QED
    BY <2>1, <2>2
<1>2. QED
  BY <1>1, Inductive, PTL

\* Occupied spots and open records match, in memory and in the database, after
\* every call, failed write and restart (enterImpl, emergencyEnter, leave, restore).
THEOREM OccupancySound == Spec => []OccupancyMatchesRecords
<1>1. IInv => OccupancyMatchesRecords
  <2>1. ASSUME IInv, up PROVE OccupancyMatchesRecords
    BY <2>1, UpGood, MemoryOccupancy DEF IInv, DbSound, OccupancyMatchesRecords
  <2>2. ASSUME IInv, ~up PROVE OccupancyMatchesRecords
    <3>1. /\ world.spots = [s \in Spots |-> Free]
          /\ world.active = [p \in Plates |-> None]
      BY <2>2 DEF IInv, TypeOK, WorldType, NoMemory
    <3>2. SpotsMatchRecords(world.spots, world.active)
      BY <3>1, RowTypes DEF SpotsMatchRecords
    <3>3. QED
      BY <2>2, <3>2 DEF IInv, DbSound, OccupancyMatchesRecords
  <2>3. QED
    BY <2>1, <2>2
<1>2. QED
  BY <1>1, Inductive, PTL

\* Memory and database agree after every call, but for holds memory gave up.
THEOREM MemoryInStep == Spec => []MemoryMatchesDatabase
<1>1. IInv => MemoryMatchesDatabase
  BY DEF IInv, MemorySound, MemoryMatchesDatabase
<1>2. QED
  BY <1>1, Inductive, PTL

\* The deposit ledger holds for every reservation the receipts its status calls
\* for, each exactly once.
THEOREM LedgerCorrect == Spec => []DepositSettledOnce
<1>1. IInv => DepositSettledOnce
  BY DEF IInv, DbSound, DepositSettledOnce
<1>2. QED
  BY <1>1, Inductive, PTL

\* A spot in memory is Reserved only for a Confirmed reservation or for a hold
\* that has lapsed.
THEOREM LocksBacked == Spec => []NoOrphanLock
<1>1. IInv => NoOrphanLock
  BY DEF IInv, MemorySound, NoOrphanLock
<1>2. QED
  BY <1>1, Inductive, PTL

\* The car of a checked-in reservation is parked on the reserved spot.
THEOREM ArrivalRecorded == Spec => []CheckedInIsParked
<1>1. IInv => CheckedInIsParked
  BY DEF IInv, DbSound, CheckedInIsParked
<1>2. QED
  BY <1>1, Inductive, PTL

\* No step, of a call, a retry, a crash or a restart, changes a reservation that
\* was cancelled, completed or missed, nor its receipts.
THEOREM SettlementIsFinal == Spec => SettlementFinal
<1>1. IInv /\ [Next]_vars =>
        [\A r \in ResvIds :
           world.dbResv[r].st \in {"Completed", "Cancelled", "NoShow"} =>
              /\ world'.dbResv[r] = world.dbResv[r]
              /\ world'.ledger[r] = world.ledger[r]]_vars
  BY StepGood DEF KeepsResolved, Resolved
<1>2. QED
  BY <1>1, Inductive, PTL DEF Spec, SettlementFinal

\* No call gives a spot that is locked for a reservation that is not late to another
\* vehicle, whatever fails in it (sweep, create, checkInImpl, enterImpl, emergencyEnter).
THEOREM LocksRespected == Spec => LockNotHandedOver
<1>1. ASSUME IInv, [Next]_vars,
             NEW s \in Spots, NEW r \in ResvIds, up,
             world.resv[r].st = "Confirmed", world.resv[r].spot = s,
             HeldBy(world.spots[s], world.resv[r].plate), now <= world.resv[r].deadline
      PROVE  world'.spots[s].by \in {world.resv[r].plate, None}
  BY <1>1, StepHandsOverNone DEF HandsOverNone, Locked
<1>2. IInv /\ [Next]_vars =>
        [\A s \in Spots, r \in ResvIds :
           /\ up
           /\ world.resv[r].st = "Confirmed" /\ world.resv[r].spot = s
           /\ HeldBy(world.spots[s], world.resv[r].plate)
           /\ now <= world.resv[r].deadline
           => world'.spots[s].by \in {world.resv[r].plate, None}]_vars
  BY <1>1
<1>3. QED
  BY <1>2, Inductive, PTL DEF Spec, LockNotHandedOver

-----------------------------------------------------------------------------
(***************************************************************************)
(* Part 2.  The planner.                                                   *)
(***************************************************************************)

-----------------------------------------------------------------------------
(***************************************************************************)
(* The queue as the set of the requests in it.                             *)
(***************************************************************************)

\* Appending adds one element.
LEMMA AppendSet ==
  ASSUME NEW S, NEW s \in Seq(S), NEW e \in S
  PROVE  /\ Append(s, e) \in Seq(S)
         /\ Len(Append(s, e)) = Len(s) + 1
         /\ ToSet(Append(s, e)) = ToSet(s) \union {e}
         /\ IsInjective(s) /\ e \notin ToSet(s) => IsInjective(Append(s, e))
         /\ \A i \in DOMAIN s : i \in DOMAIN Append(s, e) /\ Append(s, e)[i] = s[i]
         /\ \A i \in DOMAIN Append(s, e) :
               i \in DOMAIN s \/ (i = Len(s) + 1 /\ Append(s, e)[i] = e)
<1> DEFINE t == Append(s, e)
<1>1. /\ t \in Seq(S) /\ Len(t) = Len(s) + 1
      /\ \A i \in 1 .. Len(s) : t[i] = s[i]
      /\ t[Len(s) + 1] = e
  BY AppendProperties
<1>2. /\ Len(s) \in Nat /\ DOMAIN s = 1 .. Len(s) /\ DOMAIN t = 1 .. Len(s) + 1
  BY <1>1, LenProperties
<1> HIDE DEF t
<1>3. ToSet(t) = ToSet(s) \union {e}
  <2>1. \A i \in DOMAIN s : i \in DOMAIN t /\ t[i] = s[i]
    BY <1>1, <1>2
  <2>2. \A i \in DOMAIN t : i \in DOMAIN s \/ i = Len(s) + 1
    BY <1>2
  <2>3. Len(s) + 1 \in DOMAIN t
    BY <1>2
  <2>4. QED
    BY <1>1, <2>1, <2>2, <2>3 DEF ToSet
<1>4. IsInjective(s) /\ e \notin ToSet(s) => IsInjective(t)
  BY <1>1, <1>2 DEF IsInjective, ToSet
<1>5. /\ \A i \in DOMAIN s : i \in DOMAIN t /\ t[i] = s[i]
      /\ \A i \in DOMAIN t : i \in DOMAIN s \/ (i = Len(s) + 1 /\ t[i] = e)
  BY <1>1, <1>2
<1>6. QED
  BY <1>1, <1>3, <1>4, <1>5 DEF t

\* The head of a queue without repetitions is not in its tail.
LEMMA TailSet ==
  ASSUME NEW S, NEW s \in Seq(S), s # <<>>, IsInjective(s)
  PROVE  /\ Head(s) \in ToSet(s)
         /\ Tail(s) \in Seq(S)
         /\ Len(Tail(s)) = Len(s) - 1
         /\ ToSet(Tail(s)) = ToSet(s) \ {Head(s)}
         /\ IsInjective(Tail(s))
<1> DEFINE t == Tail(s)
<1>1. /\ t \in Seq(S) /\ Len(t) = Len(s) - 1
      /\ \A i \in 1 .. Len(t) : t[i] = s[i + 1]
  BY HeadTailProperties
<1>2. /\ Len(s) \in Nat \ {0} /\ DOMAIN s = 1 .. Len(s) /\ DOMAIN t = 1 .. Len(s) - 1
  BY <1>1, LenProperties, EmptySeq
<1>3. Head(s) = s[1]
  BY <1>2
<1> HIDE DEF t
<1>4. Head(s) \in ToSet(s)
  BY <1>2, <1>3 DEF ToSet
<1>5. ToSet(t) = ToSet(s) \ {Head(s)}
  <2>1. \A i \in DOMAIN t : i + 1 \in DOMAIN s /\ t[i] = s[i + 1] /\ i + 1 # 1
    BY <1>1, <1>2
  <2>2. \A i \in DOMAIN s : i = 1 \/ (i - 1 \in DOMAIN t /\ t[i - 1] = s[i])
    BY <1>1, <1>2
  <2>3. 1 \in DOMAIN s
    BY <1>2
  <2>4. QED
    BY <1>3, <2>1, <2>2, <2>3 DEF ToSet, IsInjective
<1>6. IsInjective(t)
  BY <1>1, <1>2 DEF IsInjective
<1>7. QED
  BY <1>1, <1>4, <1>5, <1>6 DEF t

-----------------------------------------------------------------------------

Queue ==
    /\ requests \in Seq(Numbers) /\ Len(requests) <= QueueLimit
    /\ IsInjective(requests)
    /\ ToSet(requests) = {i \in Numbers : request[i] # NoRequest}

\* A number that is taken belongs to a car.
Asked ==
    /\ request \in [Numbers -> RequestType]
    /\ \A i \in Numbers : request[i] # NoRequest => request[i].plate \in Plates

Told == turned \in 0 .. MaxTurned /\ reply \in Answers

\* There is a request while one is searched for, and whoever made it is there within the
\* slot that answers it.
Slots ==
    /\ stage \in Stages /\ plan \in PlanType
    /\ requests # <<>> => stage # "idle"
    /\ stage \in {"searching", "again", "checked"} => requests # <<>>
    /\ Busy => Wanted
    /\ stage # "idle" => up

PInv == IInv /\ Queue /\ Asked /\ Told /\ Slots

-----------------------------------------------------------------------------
(***************************************************************************)
(* The worlds a commit may end in.                                         *)
(***************************************************************************)

\* An attempt c to let p in on s: the world stays sound, and p is on s afterwards or no
\* car has moved.
Attempt(c, w, t, p, s) ==
    /\ Good(c.w, t) /\ KeepsResolved(w, c.w)
    /\ c.ok \in BOOLEAN
    /\ c.ok => /\ s \in Spots /\ w.active[p] = None
               /\ c.w.active = [w.active EXCEPT ![p] = s]
    /\ ~c.ok => c.w.active = w.active

\* An attempt may fail without moving a car.
LEMMA NoAttempt ==
  ASSUME NEW t, NEW w, NEW v, NEW p, NEW s,
         Good(v, t), KeepsResolved(w, v), v.active = w.active
  PROVE  Attempt([ok |-> FALSE, w |-> v], w, t, p, s)
BY DEF Attempt

\* Or let the car in.
LEMMA MadeAttempt ==
  ASSUME NEW t, NEW w, NEW v, NEW p, NEW s \in Spots,
         Good(v, t), KeepsResolved(w, v), w.active[p] = None,
         v.active = [w.active EXCEPT ![p] = s]
  PROVE  Attempt([ok |-> TRUE, w |-> v], w, t, p, s)
BY DEF Attempt

\* No car comes or goes in the housekeeping.
LEMMA TidyKeepsCars ==
  ASSUME NEW t \in Nat, NEW w, Good(w, t), NEW F
  PROVE  /\ Expire(w, t, F).active = w.active
         /\ Sweep(w, t, F).active = w.active
<1>1. ASSUME NEW v \in WorldType
      PROVE  /\ Expire(v, t, F).active = v.active
             /\ SettleNoShows(v, t, F).active = v.active
             /\ Relock(v, t, F).active = v.active
  BY <1>1 DEF Expire, SettleNoShows, Relock, WorldType
<1>2. w \in WorldType /\ SettleNoShows(w, t, F) \in WorldType
  BY SettleGood DEF Good
<1>3. QED
  BY <1>1, <1>2 DEF Sweep

\* The part of the check-in that writes: the car gets the reserved spot, or nothing
\* happens to the cars.
LEMMA CheckInSpotAttempt ==
  ASSUME NEW t \in Nat, NEW w, Good(w, t), NEW F, NEW r \in ResvIds,
         w.resv[r].st = "Confirmed"
  PROVE  /\ w.resv[r].plate \in Plates /\ w.resv[r].spot \in Spots
         /\ Attempt(CheckInSpot(w, r, F), w, t, w.resv[r].plate, w.resv[r].spot)
<1> DEFINE s == w.resv[r].spot
           p == w.resv[r].plate
           a == [w EXCEPT !.spots[s] = Held(p, w.resv[r].deadline)]
           b == [w EXCEPT !.spots[s] = Parked(p),   !.active[p] = s,
                          !.dbSpots[s] = Parked(p), !.dbActive[p] = s,
                          !.resv   = Marked(@, {r}, "CheckedIn"),
                          !.dbResv = Marked(@, {r}, "CheckedIn")]
<1>1. w \in WorldType /\ w.resv = w.dbResv /\ w.active = w.dbActive /\ RowsSound(w)
  BY DEF Good, MemorySound, Mirrored, DbSound
<1>2. p \in Plates /\ s \in Spots
  BY <1>1 DEF RowsSound
<1>3. a.active = w.active /\ b.active = [w.active EXCEPT ![p] = s]
  BY <1>1 DEF WorldType
<1>4. \/ CheckInSpot(w, r, F) = [ok |-> FALSE, w |-> w]
      \/ CheckInSpot(w, r, F) = [ok |-> FALSE, w |-> a]
      \/ w.dbActive[p] = None /\ CheckInSpot(w, r, F) = [ok |-> TRUE, w |-> b]
  BY DEF CheckInSpot
<1> DEFINE c == CheckInSpot(w, r, F)
<1>5. Good(c.w, t) /\ KeepsResolved(w, c.w)
  BY CheckInSpotGood
<1> HIDE DEF a, b, c, s, p
<1>6. \/ c = [ok |-> FALSE, w |-> w]
      \/ c = [ok |-> FALSE, w |-> a]
      \/ w.dbActive[p] = None /\ c = [ok |-> TRUE, w |-> b]
  BY <1>4 DEF c
<1>7. Attempt(c, w, t, p, s)
  <2>1. CASE c = [ok |-> FALSE, w |-> w]
    BY <1>5, <2>1 DEF Attempt
  <2>2. CASE c = [ok |-> FALSE, w |-> a]
    BY <1>3, <1>5, <2>2 DEF Attempt
  <2>3. CASE w.dbActive[p] = None /\ c = [ok |-> TRUE, w |-> b]
    BY <1>1, <1>2, <1>3, <1>5, <2>3 DEF Attempt
  <2>4. QED
    BY <1>6, <2>1, <2>2, <2>3
<1>8. QED
  BY <1>2, <1>7 DEF c, s, p

LEMMA PreparedCheckIn ==
  ASSUME NEW t \in Nat, NEW w0, Good(w0, t), NEW F, NEW p \in Plates, NEW s
  PROVE  Attempt(CheckInPrepared(w0, t, p, s, F), w0, t, p, s)
<1> DEFINE w == Sweep(w0, t, F)
           due == Due(w, t, p)
           r == CHOOSE q \in due : TRUE
           v == CheckInLock(w, r, F)
           c == CheckInPrepared(w0, t, p, s, F)
<1>1. Good(w, t) /\ KeepsResolved(w0, w) /\ w.active = w0.active
  BY SweepGood, TidyKeepsCars
<1>2. CASE due = {}
  <2>1. c = [ok |-> FALSE, w |-> w]
    BY <1>2 DEF CheckInPrepared
  <2> HIDE DEF w, c
  <2>2. QED
    BY <1>1, <2>1 DEF Attempt, c
<1>3. CASE due # {}
  <2>1. r \in due
    BY <1>3
  <2> HIDE DEF r
  <2>2. r \in ResvIds /\ w.resv[r].st = "Confirmed" /\ w.resv[r].plate = p
    BY <2>1 DEF Due
  <2>3. c = IF s # w.resv[r].spot THEN [ok |-> FALSE, w |-> v] ELSE CheckInSpot(v, r, F)
    BY <1>3 DEF CheckInPrepared, r
  <2> HIDE DEF w, due, c
  <2>4. Good(v, t) /\ KeepsResolved(w, v) /\ v.resv = w.resv /\ v.active = w.active
    BY <1>1, <2>2, CheckInLockGood
  <2> HIDE DEF v
  <2>5. KeepsResolved(w0, v)
    BY <1>1, <2>4, KeepsTransitive
  <2>6. CASE s # w.resv[r].spot
    <3>1. c = [ok |-> FALSE, w |-> v]
      BY <2>3, <2>6
    <3>2. QED
      BY <1>1, <2>4, <2>5, <3>1 DEF Attempt, c
  <2>7. CASE s = w.resv[r].spot
    <3>1. c = CheckInSpot(v, r, F)
      BY <2>3, <2>7
    <3>2. Attempt(c, v, t, p, s)
      BY <2>2, <2>4, <2>7, <3>1, CheckInSpotAttempt
    <3>3. KeepsResolved(w0, c.w)
      BY <2>5, <3>2, KeepsTransitive DEF Attempt
    <3>4. QED
      BY <1>1, <2>4, <3>2, <3>3 DEF Attempt, c
  <2>8. QED
    BY <2>6, <2>7
<1>4. QED
  BY <1>2, <1>3

\* An entry with a prepared spot lets this car in on this spot or no car at all.
LEMMA PreparedEntry ==
  ASSUME NEW t \in Nat, NEW w0, Good(w0, t), NEW F, NEW p \in Plates, NEW s
  PROVE  Attempt(EnterPrepared(w0, t, p, s, F), w0, t, p, s)
<1> DEFINE x == Expire(w0, t, F)
           c == CheckInPrepared(x, t, p, s, F)
           w == c.w
           own == {y \in Spots : HeldBy(w.spots[y], p)}
           n == OccupyAndRecord(w, p, s, F)
           e == EnterPrepared(w0, t, p, s, F)
<1>1. Good(x, t) /\ KeepsResolved(w0, x) /\ x.active = w0.active
  BY ExpireGood, TidyKeepsCars
<1>2. e = IF c.ok THEN c
          ELSE IF w.active[p] # None \/ s \notin Proposals(w.spots, own, p)
          THEN [ok |-> FALSE, w |-> w]
          ELSE [ok |-> n.active[p] = s, w |-> n]
  BY DEF EnterPrepared
<1>3. Attempt(c, x, t, p, s)
  <2> HIDE DEF x
  <2>1. QED
    BY <1>1, PreparedCheckIn
<1> HIDE DEF x, e
<1>4. Good(w, t) /\ KeepsResolved(w0, w)
  BY <1>1, <1>3, KeepsTransitive DEF Attempt
<1>5. CASE c.ok
  <2>1. e = c
    BY <1>2, <1>5
  <2>2. QED
    BY <1>1, <1>3, <1>4, <1>5, <2>1 DEF Attempt, e
<1>6. CASE ~c.ok /\ (w.active[p] # None \/ s \notin Proposals(w.spots, own, p))
  <2> HIDE DEF c, own
  <2>1. e = [ok |-> FALSE, w |-> w]
    BY <1>2, <1>6
  <2>2. w.active = w0.active
    BY <1>1, <1>3, <1>6 DEF Attempt
  <2> HIDE DEF w
  <2>3. Attempt([ok |-> FALSE, w |-> w], w0, t, p, s)
    BY <1>4, <2>2, NoAttempt
  <2>4. Attempt(e, w0, t, p, s)
    BY <2>1, <2>3
  <2>5. QED
    BY <2>4 DEF e
<1>7. CASE ~c.ok /\ w.active[p] = None /\ s \in Proposals(w.spots, own, p)
  <2>1. e = [ok |-> n.active[p] = s, w |-> n]
    BY <1>2, <1>7
  <2>2. s \in Spots /\ w.spots[s].st # "Occupied"
    BY <1>7 DEF Proposals, HeldBy
  <2> HIDE DEF c
  <2>3. Good(n, t) /\ KeepsResolved(w, n)
    BY <1>4, <2>2, OccupyGood
  <2>4. KeepsResolved(w0, n)
    BY <1>4, <2>3, KeepsTransitive
  <2>5. n.active = w.active \/ n.active = [w.active EXCEPT ![p] = s]
    <3>1. w \in WorldType
      BY <1>4 DEF Good
    <3> HIDE DEF w
    <3>2. QED
      BY <3>1 DEF OccupyAndRecord, WorldType
  <2>6. w.active = w0.active /\ w.active \in [Plates -> Spots \cup {None}]
    BY <1>1, <1>3, <1>4, <1>7 DEF Attempt, Good, WorldType
  <2>7. s # None
    BY <2>2, NoneAssumption
  <2> HIDE DEF w, n
  <2>8. /\ n.active[p] = s => n.active = [w0.active EXCEPT ![p] = s]
        /\ n.active[p] # s => n.active = w0.active
    BY <1>7, <2>5, <2>6, <2>7
  <2>9. w0.active[p] = None
    BY <1>7, <2>6
  <2> HIDE DEF own
  <2>10. CASE n.active[p] = s
    <3>1. e = [ok |-> TRUE, w |-> n]
      BY <2>1, <2>10
    <3>2. Attempt([ok |-> TRUE, w |-> n], w0, t, p, s)
      BY <2>2, <2>3, <2>4, <2>8, <2>9, <2>10, MadeAttempt
    <3>3. Attempt(e, w0, t, p, s)
      BY <3>1, <3>2
    <3>4. QED
      BY <3>3 DEF e
  <2>11. CASE n.active[p] # s
    <3>1. e = [ok |-> FALSE, w |-> n]
      BY <2>1, <2>11
    <3>2. Attempt([ok |-> FALSE, w |-> n], w0, t, p, s)
      BY <2>3, <2>4, <2>8, <2>11, NoAttempt
    <3>3. Attempt(e, w0, t, p, s)
      BY <3>1, <3>2
    <3>4. QED
      BY <3>3 DEF e
  <2>12. QED
    BY <2>10, <2>11
<1>8. QED
  BY <1>5, <1>6, <1>7
-----------------------------------------------------------------------------
(***************************************************************************)
(* Requests and plans.                                                     *)
(***************************************************************************)

\* The rows the actions write are rows.
LEMMA RequestRows ==
  /\ NoRequest \in RequestType /\ NoRequest.plate = None /\ ~NoRequest.alive
  /\ \A p \in Plates : LET new == [plate |-> p, alive |-> TRUE, retries |-> 0]
                      IN  new \in RequestType /\ new.plate = p
  /\ \A r \in RequestType : /\ [r EXCEPT !.alive = FALSE] \in RequestType
                            /\ [r EXCEPT !.alive = FALSE].plate = r.plate
<1>1. 0 \in 0 .. MaxRetries
  BY PlannerAssumption
<1>2. NoRequest \in RequestType /\ NoRequest.plate = None
  BY <1>1 DEF NoRequest, RequestType
<1>3. ~NoRequest.alive
  BY Zenon DEF NoRequest
<1>4. ASSUME NEW p \in Plates
      PROVE  LET new == [plate |-> p, alive |-> TRUE, retries |-> 0]
             IN  new \in RequestType /\ new.plate = p
  BY <1>1 DEF RequestType
<1>5. ASSUME NEW r \in RequestType
      PROVE  /\ [r EXCEPT !.alive = FALSE] \in RequestType
             /\ [r EXCEPT !.alive = FALSE].plate = r.plate
  BY DEF RequestType
<1>6. QED
  BY <1>2, <1>3, <1>4, <1>5

\* A search counted is within its bound and leaves the rest of the request alone.
LEMMA RetriedRow ==
  ASSUME NEW r \in RequestType, r.retries < MaxRetries
  PROVE  /\ Retried(r) \in RequestType
         /\ Retried(r).plate = r.plate
         /\ Retried(r).alive = r.alive
<1>1. r.retries + 1 \in 0 .. MaxRetries
  BY PlannerAssumption DEF RequestType
<1>2. QED
  BY <1>1 DEF Retried, RequestType

LEMMA PlanRows ==
  /\ NoPlan \in PlanType
  /\ \A f \in [Spots -> SpotType], R \in SUBSET Spots :
        [NoPlan EXCEPT !.spots = f, !.required = R] \in PlanType
  /\ \A c \in PlanType : [c EXCEPT !.stale = TRUE] \in PlanType
  /\ \A c \in PlanType, s \in Spots \cup {None} : [c EXCEPT !.proposal = s] \in PlanType
<1>1. [s \in Spots |-> Free] \in [Spots -> SpotType]
  BY RowTypes
<1>2. NoPlan \in PlanType
  BY <1>1 DEF NoPlan, PlanType
<1>3. ASSUME NEW f \in [Spots -> SpotType], NEW R \in SUBSET Spots
      PROVE  [NoPlan EXCEPT !.spots = f, !.required = R] \in PlanType
  BY <1>2 DEF PlanType
<1>4. ASSUME NEW c \in PlanType
      PROVE  [c EXCEPT !.stale = TRUE] \in PlanType
  BY DEF PlanType
<1>5. ASSUME NEW c \in PlanType, NEW s \in Spots \cup {None}
      PROVE  [c EXCEPT !.proposal = s] \in PlanType
  BY DEF PlanType
<1>6. QED
  BY <1>2, <1>3, <1>4, <1>5

\* The request at the head of the queue is one of a car.
LEMMA FirstAsked ==
  ASSUME Queue, Asked, requests # <<>>
  PROVE  /\ Head(requests) \in Numbers /\ request[Head(requests)] # NoRequest
         /\ First \in RequestType /\ First.plate \in Plates
<1>1. Head(requests) \in ToSet(requests)
  BY TailSet DEF Queue
<1>2. QED
  BY <1>1 DEF Queue, Asked, First

\* The planner's own state stays sound when the first request is answered.
LEMMA FinishSound ==
  ASSUME Queue, Asked, Told, Slots, requests # <<>>, up', NEW answer \in Answers,
         Finish(answer)
  PROVE  /\ (Queue /\ Asked /\ Told /\ Slots)'
         /\ reply' = IF Wanted THEN answer ELSE "none"
<1> DEFINE h == Head(requests)
<1>1. /\ requests' = Tail(requests) /\ stage' = "timer" /\ plan' = NoPlan
      /\ request' = [request EXCEPT ![h] = NoRequest]
      /\ reply' = IF Wanted THEN answer ELSE "none"
      /\ turned' = turned
  BY DEF Finish
<1>2. h \in Numbers
  BY FirstAsked
<1>3. request' \in [Numbers -> RequestType] /\ request'[h] = NoRequest
      /\ \A i \in Numbers \ {h} : request'[i] = request[i]
  BY <1>1, <1>2, RequestRows DEF Asked
<1>4. /\ Tail(requests) \in Seq(Numbers) /\ Len(Tail(requests)) = Len(requests) - 1
      /\ ToSet(Tail(requests)) = ToSet(requests) \ {h} /\ IsInjective(Tail(requests))
  BY TailSet DEF Queue
<1>5. Len(requests) \in Nat /\ Len(requests) - 1 <= QueueLimit
  BY LenProperties, PlannerAssumption DEF Queue
<1>6. ToSet(requests') = {i \in Numbers : request'[i] # NoRequest}
  BY <1>1, <1>2, <1>3, <1>4 DEF Queue
<1>7. Queue'
  BY <1>1, <1>4, <1>5, <1>6 DEF Queue
<1>8. Asked'
  BY <1>3 DEF Asked
<1>9. Told'
  BY <1>1 DEF Told, Answers
<1>10. Slots'
  BY <1>1, PlanRows DEF Slots, Stages, Busy
<1>11. QED
  BY <1>1, <1>7, <1>8, <1>9, <1>10

\* So it does when a step neither touches the queue nor answers anybody.
LEMMA QueueKept ==
  ASSUME Queue, Asked, Told, UNCHANGED <<requests, request, turned>>, reply' \in Answers
  PROVE  (Queue /\ Asked /\ Told)'
BY DEF Queue, Asked, Told

\* The spots a request has to get are spots.
LEMMA RequiredSpots ==
  ASSUME NEW t \in Nat, NEW w, Good(w, t), NEW p
  PROVE  Required(w, t, p) \subseteq Spots /\ w.spots \in [Spots -> SpotType]
<1>1. \A r \in ResvIds : w.resv[r].st = "Confirmed" => w.resv[r].spot \in Spots
  BY DEF Good, DbSound, RowsSound, MemorySound, Mirrored
<1>2. QED
  BY <1>1 DEF Required, Due, Good, WorldType

\* The housekeeping moves no car.
LEMMA HousekeepQuiet ==
  ASSUME IInv, Housekeep
  PROVE  /\ IInv' /\ KeepsResolved(world, world')
         /\ up /\ up' /\ now' = now
         /\ world'.active = world.active
<1>1. IInv' /\ KeepsResolved(world, world')
  BY StepGood DEF Next
<1>2. PICK F : /\ up /\ now' = now /\ up' = up
               /\ world' = Sweep(Expire(world, now, F), now, F)
  BY DEF Housekeep, Become
<1> DEFINE x == Expire(world, now, F)
<1>3. now \in Nat /\ Good(world, now)
  BY <1>2, UpGood
<1>4. Good(x, now) /\ x.active = world.active
  BY <1>3, ExpireGood, TidyKeepsCars
<1> HIDE DEF x
<1>5. Sweep(x, now, F).active = x.active
  BY <1>3, <1>4, TidyKeepsCars
<1>6. QED
  BY <1>1, <1>2, <1>4, <1>5 DEF x

\* A commit is an attempt to let the first car in, where it was to go.
LEMMA CommitSound ==
  ASSUME PInv, Commit
  PROVE  /\ IInv' /\ KeepsResolved(world, world')
         /\ requests # <<>> /\ Wanted /\ up' /\ First.plate \in Plates
         /\ \/ /\ Finish("refused")
               /\ world'.active = world.active
            \/ /\ Finish("entered")
               /\ plan.proposal \in Spots /\ world.active[First.plate] = None
               /\ world'.active = [world.active EXCEPT ![First.plate] = plan.proposal]
<1>1. PICK F : LET entry == EnterPrepared(world, now, First.plate, plan.proposal, F)
               IN  /\ Fault(F) /\ Become(entry.w)
                   /\ Finish(IF entry.ok THEN "entered" ELSE "refused")
  BY DEF Commit
<1>2. stage = "checked" /\ requests # <<>> /\ Wanted /\ up
  BY DEF Commit, PInv, Slots, Busy
<1>3. First.plate \in Plates
  BY <1>2, FirstAsked DEF PInv
<1>4. now \in Nat /\ Good(world, now)
  BY <1>2, UpGood DEF PInv
<1> DEFINE e == EnterPrepared(world, now, First.plate, plan.proposal, F)
<1>5. Attempt(e, world, now, First.plate, plan.proposal)
  BY <1>3, <1>4, PreparedEntry
<1>6. Fault(F) /\ Become(e.w) /\ Finish(IF e.ok THEN "entered" ELSE "refused")
  BY <1>1
<1> HIDE DEF e
<1>7. Good(e.w, now) /\ KeepsResolved(world, e.w) /\ e.ok \in BOOLEAN
  BY <1>5 DEF Attempt
<1>8. IInv' /\ world' = e.w /\ up'
  BY <1>2, <1>6, <1>7, CallKeepsIInv DEF PInv, Become
<1>9. CASE e.ok
  BY <1>2, <1>3, <1>5, <1>6, <1>7, <1>8, <1>9 DEF Attempt
<1>10. CASE ~e.ok
  BY <1>2, <1>3, <1>5, <1>6, <1>7, <1>8, <1>10 DEF Attempt
<1>11. QED
  BY <1>7, <1>9, <1>10
-----------------------------------------------------------------------------
(***************************************************************************)
(* Every step.                                                             *)
(***************************************************************************)

\* A request that joins the queue.
LEMMA SubmitSound ==
  ASSUME PInv, NEW p \in Plates, Submit(p)
  PROVE  PInv' /\ KeepsResolved(world, world')
<1>1. PICK i \in Numbers :
        /\ request[i] = NoRequest
        /\ request' = [request EXCEPT ![i] = [plate |-> p, alive |-> TRUE, retries |-> 0]]
        /\ requests' = Append(requests, i)
  BY DEF Submit, Enqueue
<1>2. /\ up /\ ~Busy /\ Len(requests) < QueueLimit /\ stage' = Woken
      /\ reply' = "none" /\ turned' = turned /\ plan' = plan /\ UNCHANGED vars
  BY DEF Submit, Silent
<1> DEFINE new == [plate |-> p, alive |-> TRUE, retries |-> 0]
<1>3. new \in RequestType /\ new.plate = p /\ NoRequest.plate = None
  BY RequestRows
<1>4. request' = [request EXCEPT ![i] = new]
  BY <1>1
<1> HIDE DEF new
<1>5. /\ request' \in [Numbers -> RequestType] /\ request'[i] = new
      /\ \A j \in Numbers \ {i} : request'[j] = request[j]
  BY <1>3, <1>4 DEF PInv, Asked
<1>6. new # NoRequest
  BY <1>3, NoneAssumption
<1>7. i \notin ToSet(requests)
  BY <1>1 DEF PInv, Queue
<1>8. /\ requests' \in Seq(Numbers) /\ Len(requests') = Len(requests) + 1
      /\ ToSet(requests') = ToSet(requests) \cup {i} /\ IsInjective(requests')
  BY <1>1, <1>7, AppendSet DEF PInv, Queue
<1>9. Len(requests) \in Nat /\ Len(requests') <= QueueLimit
  BY <1>2, <1>8, LenProperties, PlannerAssumption DEF PInv, Queue
<1>10. ToSet(requests') = {j \in Numbers : request'[j] # NoRequest}
  BY <1>5, <1>6, <1>8 DEF PInv, Queue
<1>11. Queue'
  BY <1>8, <1>9, <1>10 DEF Queue
<1>12. Asked'
  BY <1>3, <1>5 DEF PInv, Asked
<1>13. Told'
  BY <1>2 DEF PInv, Told, Answers
<1>14. requests' # <<>>
  BY <1>8, <1>9, LenProperties, EmptySeq
<1>15. Slots'
  <2>1. stage' \in Stages /\ stage' \notin {"again", "checked"} /\ stage' # "idle"
    BY <1>2 DEF PInv, Slots, Stages, Woken, Busy
  <2>2. up' = up
    BY <1>2 DEF vars
  <2>3. QED
    BY <1>2, <1>14, <2>1, <2>2 DEF PInv, Slots, Busy
<1>16. IInv' /\ KeepsResolved(world, world')
  BY <1>2, StepGood DEF PInv
<1>17. QED
  BY <1>11, <1>12, <1>13, <1>15, <1>16 DEF PInv

\* A search that starts: the copy is taken after the housekeeping.
LEMMA SearchSound ==
  ASSUME PInv, requests # <<>>, Wanted, Search
  PROVE  /\ PInv' /\ KeepsResolved(world, world')
         /\ world'.active = world.active /\ reply' # "entered"
<1>1. IInv' /\ KeepsResolved(world, world') /\ up' /\ now' = now /\ world'.active = world.active
  BY HousekeepQuiet DEF PInv, Search
<1>2. CASE world'.active[First.plate] # None
  <2>1. Finish("refused")
    BY <1>2 DEF Search
  <2>2. (Queue /\ Asked /\ Told /\ Slots)' /\ reply' = IF Wanted THEN "refused" ELSE "none"
    BY <1>1, <2>1, FinishSound DEF PInv, Answers
  <2>3. QED
    BY <1>1, <2>2 DEF PInv
<1>3. CASE world'.active[First.plate] = None
  <2> DEFINE R == Required(world', now, First.plate)
  <2>1. /\ stage' = "searching"
        /\ plan' = [NoPlan EXCEPT !.spots = world'.spots, !.required = R]
        /\ reply' = "none" /\ UNCHANGED <<requests, request, turned>>
    BY <1>3 DEF Search, Silent
  <2>2. Good(world', now) /\ now \in Nat
    BY <1>1, BoundAssumption DEF IInv, TypeOK, Good
  <2>3. R \in SUBSET Spots /\ world'.spots \in [Spots -> SpotType]
    BY <2>2, RequiredSpots
  <2> HIDE DEF R
  <2>4. plan' \in PlanType
    BY <2>1, <2>3, PlanRows
  <2>5. (Queue /\ Asked /\ Told)'
    BY <2>1, QueueKept DEF PInv, Answers
  <2>6. Slots'
    BY <1>1, <2>1, <2>4 DEF Slots, Stages, Busy
  <2>7. QED
    BY <1>1, <2>1, <2>5, <2>6 DEF PInv
<1>4. QED
  BY <1>2, <1>3

\* A result: stale, to be searched for anew, or to be committed.
LEMMA FinishedSound ==
  ASSUME PInv, Finished
  PROVE  PInv' /\ KeepsResolved(world, world') /\ reply' # "entered"
<1>1. IInv' /\ KeepsResolved(world, world') /\ up'
  BY HousekeepQuiet DEF PInv, Finished
<1>2. requests # <<>> /\ stage = "searching" /\ Wanted
  BY DEF PInv, Slots, Finished
<1>3. /\ Head(requests) \in Numbers /\ request[Head(requests)] # NoRequest
      /\ First \in RequestType /\ First.plate \in Plates
  BY <1>2, FirstAsked DEF PInv
<1>4. CASE Finish("unstable")
  <2>1. /\ (Queue /\ Asked /\ Told /\ Slots)'
        /\ reply' = IF Wanted THEN "unstable" ELSE "none"
    BY <1>1, <1>2, <1>4, FinishSound DEF PInv, Answers
  <2>2. QED
    BY <1>1, <2>1 DEF PInv
<1>5. CASE /\ MayRetry
           /\ request' = [request EXCEPT ![Head(requests)] = Retried(@)]
           /\ stage' = "again" /\ plan' = NoPlan /\ Silent /\ UNCHANGED requests
  <2> DEFINE h == Head(requests)
             r == Retried(First)
  <2>1. r \in RequestType /\ r.plate = First.plate /\ r.alive = First.alive
    BY <1>3, <1>5, RetriedRow DEF MayRetry
  <2>2. /\ request' \in [Numbers -> RequestType] /\ request'[h] = r
        /\ \A i \in Numbers \ {h} : request'[i] = request[i]
    BY <1>3, <1>5, <2>1 DEF PInv, Asked, First
  <2> HIDE DEF r
  <2>3. r # NoRequest
    BY <1>3, <2>1, RequestRows, NoneAssumption
  <2>4. Queue'
    BY <1>3, <1>5, <2>2, <2>3 DEF PInv, Queue
  <2>5. Asked'
    BY <1>3, <2>1, <2>2 DEF PInv, Asked
  <2>6. Told'
    BY <1>5 DEF PInv, Told, Silent, Answers
  <2>7. Wanted'
    <3>1. First' = r
      BY <1>5, <2>2 DEF First
    <3>2. QED
      BY <1>2, <2>1, <3>1 DEF Wanted
  <2>8. Slots'
    BY <1>1, <1>2, <1>5, <2>7, PlanRows DEF Slots, Stages
  <2>9. QED
    BY <1>1, <1>5, <2>4, <2>5, <2>6, <2>8 DEF PInv, Silent
<1>6. CASE LET found == Proposals(plan.spots, plan.required, First.plate)
           IN  /\ stage' = "checked"
               /\ \E s \in IF found = {} THEN {None} ELSE found :
                     plan' = [plan EXCEPT !.proposal = s]
               /\ Silent /\ UNCHANGED <<requests, request>>
  <2>1. PICK s \in Spots \cup {None} : plan' = [plan EXCEPT !.proposal = s]
    BY <1>6 DEF Proposals
  <2>2. plan' \in PlanType
    BY <2>1, PlanRows DEF PInv, Slots
  <2>3. stage' = "checked" /\ Silent /\ UNCHANGED <<requests, request>>
    BY <1>6
  <2>4. (Queue /\ Asked /\ Told)'
    BY <2>3, QueueKept DEF PInv, Silent, Answers
  <2>5. Wanted'
    BY <1>2, <2>3 DEF Wanted, First
  <2>6. Slots'
    BY <1>1, <1>2, <2>2, <2>3, <2>5 DEF Slots, Stages
  <2>7. QED
    BY <1>1, <2>3, <2>4, <2>6 DEF PInv, Silent
<1>7. QED
  BY <1>4, <1>5, <1>6 DEF Finished

\* Answers that need no entry.
LEMMA AnswerSound ==
  ASSUME PInv, Skip \/ SearchFails
  PROVE  PInv' /\ KeepsResolved(world, world') /\ reply' # "entered"
<1>1. PICK answer \in {"none", "failed"} : Finish(answer)
  BY DEF Skip, SearchFails
<1>2. requests # <<>> /\ up /\ UNCHANGED vars
  BY DEF PInv, Slots, Skip, SearchFails
<1>3. up' /\ answer \in Answers
  BY <1>2 DEF vars, Answers
<1>4. (Queue /\ Asked /\ Told /\ Slots)' /\ reply' = IF Wanted THEN answer ELSE "none"
  BY <1>1, <1>2, <1>3, FinishSound DEF PInv
<1>5. IInv' /\ KeepsResolved(world, world')
  BY <1>2, StepGood DEF PInv
<1>6. QED
  BY <1>4, <1>5 DEF PInv

\* What callers and timers do to the planner's own state.
LEMMA AsideSound ==
  ASSUME PInv,
         \/ TurnAway \/ Configure \/ Rest
         \/ \E alive \in BOOLEAN : TellBusy(alive)
         \/ \E i \in Numbers : DropContext(i)
  PROVE  PInv' /\ KeepsResolved(world, world') /\ reply' # "entered"
<1>1. UNCHANGED vars
  BY DEF TurnAway, Configure, Rest, TellBusy, DropContext
<1>2. IInv' /\ KeepsResolved(world, world') /\ up' = up
  BY <1>1, StepGood DEF PInv, vars
<1>3. CASE TurnAway
  <2>1. turned' \in 0 .. MaxTurned
    BY <1>3, PlannerAssumption DEF TurnAway, PInv, Told
  <2>2. QED
    BY <1>2, <1>3, <2>1 DEF TurnAway, PInv, Queue, Asked, Told, Slots, Answers, Busy, Wanted, First
<1>4. CASE Configure
  <2>1. plan' \in PlanType
    BY <1>4, PlanRows DEF Configure, PInv, Slots
  <2>2. QED
    BY <1>2, <1>4, <2>1
       DEF Configure, Silent, PInv, Queue, Asked, Told, Slots, Answers, Busy, Wanted, First
<1>5. CASE Rest
  BY <1>2, <1>5
     DEF Rest, Silent, PInv, Queue, Asked, Told, Slots, Stages, Answers, Busy, Wanted, First
<1>6. CASE \E alive \in BOOLEAN : TellBusy(alive)
  <2>1. /\ turned > 0 /\ turned' = turned - 1 /\ reply' \in {"busy", "none"}
        /\ UNCHANGED <<requests, request, stage, plan>>
    BY <1>6 DEF TellBusy
  <2>2. turned' \in 0 .. MaxTurned
    BY <2>1, PlannerAssumption DEF PInv, Told
  <2>3. QED
    BY <1>2, <2>1, <2>2 DEF PInv, Queue, Asked, Told, Slots, Answers, Busy, Wanted, First
<1>7. CASE \E i \in Numbers : DropContext(i)
  <2>1. PICK i \in Numbers : DropContext(i)
    BY <1>7
  <2>2. /\ ~Busy /\ request[i].alive
        /\ request' = [request EXCEPT ![i] = [request[i] EXCEPT !.alive = FALSE]]
        /\ reply' = "none" /\ UNCHANGED <<turned, requests, stage, plan>>
    BY <2>1 DEF DropContext, Silent
  <2> DEFINE r == [request[i] EXCEPT !.alive = FALSE]
  <2>3. r \in RequestType /\ r.plate = request[i].plate /\ request[i] # NoRequest
    BY <2>2, RequestRows DEF PInv, Asked
  <2>4. /\ request' \in [Numbers -> RequestType] /\ request'[i] = r
        /\ \A j \in Numbers \ {i} : request'[j] = request[j]
    BY <2>2, <2>3 DEF PInv, Asked
  <2> HIDE DEF r
  <2>5. r.plate \in Plates /\ r # NoRequest
    BY <2>3, RequestRows, NoneAssumption DEF PInv, Asked
  <2>6. Queue'
    BY <2>2, <2>3, <2>4, <2>5 DEF PInv, Queue
  <2>7. Asked'
    BY <2>4, <2>5 DEF PInv, Asked
  <2>8. Told'
    BY <2>2 DEF PInv, Told, Answers
  <2>9. Slots'
    BY <1>2, <2>2 DEF PInv, Slots, Busy
  <2>10. QED
    BY <1>2, <2>2, <2>6, <2>7, <2>8, <2>9 DEF PInv
<1>8. QED
  BY <1>3, <1>4, <1>5, <1>6, <1>7

\* The end of the process, and what is not the planner's.
LEMMA OtherSound ==
  ASSUME PInv, Stop \/ Elsewhere
  PROVE  PInv' /\ KeepsResolved(world, world') /\ reply' # "entered"
<1>1. CASE Stop
  <2>1. IInv' /\ KeepsResolved(world, world')
    BY <1>1, StepGood DEF PInv, Stop, Next
  <2>2. /\ requests' = <<>> /\ request' = [i \in Numbers |-> NoRequest]
        /\ turned' = 0 /\ reply' = "none" /\ stage' = "idle" /\ plan' = NoPlan
    BY <1>1 DEF Stop
  <2>3. <<>> \in Seq(Numbers) /\ Len(<<>>) = 0 /\ ToSet(<<>>) = {} /\ IsInjective(<<>>)
    BY DEF ToSet, IsInjective
  <2>4. Queue'
    BY <2>2, <2>3, PlannerAssumption DEF Queue
  <2>5. Asked'
    BY <2>2, RequestRows DEF Asked
  <2>6. Told'
    BY <2>2, PlannerAssumption DEF Told, Answers
  <2>7. Slots'
    BY <2>2, PlanRows DEF Slots, Stages, Busy
  <2>8. QED
    BY <2>1, <2>2, <2>4, <2>5, <2>6, <2>7 DEF PInv
<1>2. CASE Elsewhere
  <2>1. IInv' /\ KeepsResolved(world, world')
    BY <1>2, StepGood DEF PInv, Elsewhere, Next
  <2>2. ~Busy /\ reply' = "none" /\ UNCHANGED <<turned, requests, request, stage, plan>>
    BY <1>2 DEF Elsewhere, Silent
  <2>3. up => up'
    BY <1>2 DEF Elsewhere, Calls, Tick, Create, Cancel, CheckIn, Enter, Leave, EmergencyEnter,
                Become, Restart, RestartFails
  <2>4. (Queue /\ Asked /\ Told)'
    BY <2>2, QueueKept DEF PInv, Answers
  <2>5. Slots'
    BY <2>2, <2>3 DEF PInv, Slots, Busy
  <2>6. QED
    BY <2>1, <2>2, <2>4, <2>5 DEF PInv
<1>3. QED
  BY <1>1, <1>2
LEMMA PlannerInitSound ==
  ASSUME PlannerInit
  PROVE  PInv
<1>1. IInv
  BY InitGood DEF PlannerInit
<1>2. <<>> \in Seq(Numbers) /\ Len(<<>>) = 0 /\ ToSet(<<>>) = {} /\ IsInjective(<<>>)
  BY DEF ToSet, IsInjective
<1>3. Queue
  BY <1>2, PlannerAssumption DEF PlannerInit, Queue
<1>4. Asked
  BY RequestRows DEF PlannerInit, Asked
<1>5. Told
  BY PlannerAssumption DEF PlannerInit, Told, Answers
<1>6. Slots
  BY PlanRows DEF PlannerInit, Slots, Stages, Busy
<1>7. QED
  BY <1>1, <1>3, <1>4, <1>5, <1>6 DEF PInv

\* Within the slot of a result no car moves but by a commit.
LEMMA PlannerStep ==
  ASSUME PInv, [PlannerNext]_allVars
  PROVE  /\ PInv' /\ KeepsResolved(world, world')
         /\ \/ Commit
            \/ UNCHANGED allVars
            \/ reply' # "entered" /\ (Busy /\ up' => world'.active = world.active)
<1>1. CASE \E p \in Plates : Submit(p)
  BY <1>1, SubmitSound DEF Submit, Silent
<1>2. CASE \/ TurnAway \/ Configure \/ Rest
           \/ \E alive \in BOOLEAN : TellBusy(alive)
           \/ \E i \in Numbers : DropContext(i)
  BY <1>2, AsideSound DEF TurnAway, Configure, Rest, TellBusy, DropContext, vars
<1>3. CASE Skip \/ SearchFails
  BY <1>3, AnswerSound DEF Skip, SearchFails, vars
<1>4. CASE StartNext \/ SearchAgain
  <2>1. requests # <<>> /\ Wanted /\ Search
    BY <1>4 DEF StartNext, SearchAgain, PInv, Slots, Busy
  <2>2. QED
    BY <2>1, SearchSound
<1>5. CASE Finished
  BY <1>5, FinishedSound DEF Finished, Busy
<1>6. CASE Commit
  <2>1. /\ IInv' /\ KeepsResolved(world, world')
        /\ requests # <<>> /\ up' /\ \E answer \in {"refused", "entered"} : Finish(answer)
    BY <1>6, CommitSound
  <2>2. PICK answer \in {"refused", "entered"} : Finish(answer)
    BY <2>1
  <2>3. answer \in Answers
    BY DEF Answers
  <2>4. (Queue /\ Asked /\ Told /\ Slots)'
    BY <2>1, <2>2, <2>3, FinishSound DEF PInv
  <2>5. QED
    BY <1>6, <2>1, <2>4 DEF PInv
<1>7. CASE Stop \/ Elsewhere
  BY <1>7, OtherSound DEF Stop, Crash, Elsewhere
<1>8. CASE UNCHANGED allVars
  <2>1. UNCHANGED vars /\ UNCHANGED plannerVars
    BY <1>8 DEF allVars
  <2>2. IInv' /\ KeepsResolved(world, world') /\ up' = up
    BY <2>1, StepGood DEF PInv, vars
  <2>3. QED
    BY <1>8, <2>1, <2>2
       DEF plannerVars, PInv, Queue, Asked, Told, Slots, Busy, Wanted, First
<1>9. QED
  BY <1>1, <1>2, <1>3, <1>4, <1>5, <1>6, <1>7, <1>8 DEF PlannerNext

-----------------------------------------------------------------------------
(***************************************************************************)
(* Locks.                                                                  *)
(***************************************************************************)

\* A check-in on a prepared spot takes its own lock only, and none when it is refused.
LEMMA PreparedCheckInLocks ==
  ASSUME NEW t \in Nat, NEW w, Good(w, t), NEW F, NEW p, NEW s
  PROVE  /\ HandsOverNone(w, CheckInPrepared(w, t, p, s, F).w, t)
         /\ ~CheckInPrepared(w, t, p, s, F).ok =>
              KeepsLocks(w, CheckInPrepared(w, t, p, s, F).w, t)
<1> DEFINE u == Sweep(w, t, F)
           due == Due(u, t, p)
           r == CHOOSE q \in due : TRUE
           v == CheckInLock(u, r, F)
           o == CheckInPrepared(w, t, p, s, F)
           x == CheckInSpot(v, r, F)
<1>1. Good(u, t) /\ KeepsLocks(w, u, t)
  BY SweepGood, SweepKeepsLocks
<1>2. \/ due = {} /\ o = [ok |-> FALSE, w |-> u]
      \/ due # {} /\ o = [ok |-> FALSE, w |-> v]
      \/ due # {} /\ o = x
  BY DEF CheckInPrepared
<1>3. ASSUME due # {}
      PROVE  /\ KeepsLocks(u, v, t)
             /\ HandsOverNone(u, x.w, t)
             /\ ~x.ok => KeepsLocks(u, x.w, t)
  <2>1. r \in ResvIds /\ u.resv[r].st = "Confirmed"
    <3>1. r \in due
      BY <1>3
    <3>2. QED
      BY <3>1 DEF Due
  <2> HIDE DEF u, r
  <2>2. Good(v, t) /\ KeepsLocks(u, v, t) /\ v.resv = u.resv
    BY <1>1, <2>1, CheckInLockGood, LockForCheckIn
  <2> HIDE DEF v
  <2>3. HandsOverNone(v, x.w, t) /\ (~x.ok => KeepsLocks(v, x.w, t))
    BY <2>1, <2>2, CheckInTakesOwnSpot
  <2> HIDE DEF x
  <2>4. QED
    BY <2>2, <2>3, LocksTransitive
<1> HIDE DEF u, due, v, x, o
<1>4. /\ HandsOverNone(w, u, t)
      /\ due # {} => HandsOverNone(w, v, t) /\ KeepsLocks(w, v, t) /\ HandsOverNone(w, x.w, t)
      /\ due # {} /\ ~x.ok => KeepsLocks(w, x.w, t)
  BY <1>1, <1>3, LocksTransitive
<1>5. /\ HandsOverNone(w, o.w, t)
      /\ ~o.ok => KeepsLocks(w, o.w, t)
  BY <1>1, <1>2, <1>4
<1>6. QED
  BY <1>5 DEF o

\* The spot that was prepared is looked at again before a car is put on it.
LEMMA PreparedEntryLocks ==
  ASSUME NEW t \in Nat, NEW w0, Good(w0, t), NEW F, NEW p \in Plates, NEW s
  PROVE  HandsOverNone(w0, EnterPrepared(w0, t, p, s, F).w, t)
<1> DEFINE x == Expire(w0, t, F)
           o == CheckInPrepared(x, t, p, s, F)
           w == o.w
           v == EnterPrepared(w0, t, p, s, F).w
<1>1. Good(x, t) /\ KeepsLocks(w0, x, t)
  BY ExpireGood, ExpireKeepsLocks
<1>2. \/ v = w
      \/ ~o.ok /\ s \in Spots /\ (w.spots[s].st = "Available" \/ HeldBy(w.spots[s], p))
               /\ v = OccupyAndRecord(w, p, s, F)
  BY DEF EnterPrepared, Proposals
<1> HIDE DEF x
<1>3. Good(w, t) /\ HandsOverNone(x, w, t) /\ (~o.ok => KeepsLocks(x, w, t))
  BY <1>1, PreparedCheckIn, PreparedCheckInLocks DEF Attempt
<1> HIDE DEF o, w, v
<1>4. ASSUME ~o.ok, s \in Spots, w.spots[s].st = "Available" \/ HeldBy(w.spots[s], p),
             v = OccupyAndRecord(w, p, s, F)
      PROVE  HandsOverNone(x, v, t)
  <2>1. w.spots[s].st = "Reserved" => w.spots[s].by = p
    BY <1>4 DEF HeldBy
  <2>2. HandsOverNone(w, v, t)
    BY <1>3, <1>4, <2>1, OccupyTakesOwnSpot
  <2>3. QED
    BY <1>3, <1>4, <2>2, LocksTransitive
<1>5. HandsOverNone(x, v, t)
  BY <1>2, <1>3, <1>4
<1>6. HandsOverNone(w0, v, t)
  BY <1>1, <1>5, LocksTransitive
<1>7. QED
  BY <1>6 DEF v

LEMMA PlannerHandsOverNone ==
  ASSUME PInv, [PlannerNext]_allVars, up
  PROVE  HandsOverNone(world, world', now)
<1>1. CASE Commit
  <2>1. PICK F : world' = EnterPrepared(world, now, First.plate, plan.proposal, F).w
    BY <1>1 DEF Commit, Become
  <2>2. First.plate \in Plates /\ Good(world, now) /\ now \in Nat
    BY <1>1, CommitSound, UpGood DEF PInv
  <2>3. QED
    BY <2>1, <2>2, PreparedEntryLocks
<1>2. CASE [Next]_vars
  BY <1>2, StepHandsOverNone DEF PInv
<1>3. Commit \/ [Next]_vars
  BY DEF PlannerNext, Submit, TurnAway, TellBusy, DropContext, Configure, Rest, Skip, StartNext,
         SearchAgain, Search, SearchFails, Finished, Stop, Elsewhere, Next, allVars
<1>4. QED
  BY <1>1, <1>2, <1>3

-----------------------------------------------------------------------------
(***************************************************************************)
(* What the housekeeping leaves.                                           *)
(***************************************************************************)

Own(spots, p) == {s \in Spots : HeldBy(spots[s], p)}

\* Holds and reservations belong together and none of them is late.
Tidy(w, t) ==
    /\ \A s \in Spots : w.spots[s].st = "Reserved" =>
         \E r \in ResvIds : /\ w.resv[r].st = "Confirmed" /\ w.resv[r].spot = s
                            /\ w.resv[r].plate = w.spots[s].by
    /\ \A r \in ResvIds : w.resv[r].st = "Confirmed" =>
         t <= w.resv[r].deadline /\ w.spots[w.resv[r].spot].st # "Available"

\* Expire and Sweep look only at the writes they make.
LEMMA WritesSeen ==
  ASSUME NEW w, NEW t, NEW F, NEW G,
         \A x : x[1] \in SweepWrites \cup {"expire"} => (x \in F <=> x \in G)
  PROVE  Sweep(Expire(w, t, F), t, F) = Sweep(Expire(w, t, G), t, G)
<1>1. /\ \A s : <<"expire", s>> \in F <=> <<"expire", s>> \in G
      /\ \A r : <<"unlock", r>> \in F <=> <<"unlock", r>> \in G
      /\ \A r : <<"settle", r>> \in F <=> <<"settle", r>> \in G
      /\ \A r : <<"relock", r>> \in F <=> <<"relock", r>> \in G
  BY DEF SweepWrites
<1>2. ASSUME NEW v
      PROVE  /\ Lapsed(v, t, F) = Lapsed(v, t, G)
             /\ Unlocked(v, t, F) = Unlocked(v, t, G)
             /\ Settled(v, t, F) = Settled(v, t, G)
             /\ \A s : Takers(v, t, s, F) = Takers(v, t, s, G)
  BY <1>1 DEF Lapsed, Unlocked, Settled, Takers
<1>3. ASSUME NEW v
      PROVE  /\ Expire(v, t, F) = Expire(v, t, G)
             /\ SettleNoShows(v, t, F) = SettleNoShows(v, t, G)
             /\ Relock(v, t, F) = Relock(v, t, G)
  <2>1. Expire(v, t, F) = Expire(v, t, G)
    BY <1>2 DEF Expire
  <2>2. SettleNoShows(v, t, F) = SettleNoShows(v, t, G)
    BY <1>2 DEF SettleNoShows
  <2>3. ASSUME NEW f
        PROVE  Relocked(f, v, t, F) = Relocked(f, v, t, G)
    <3> DEFINE hold(T) == LET r == CHOOSE r \in T : TRUE
                          IN  Held(v.resv[r].plate, v.resv[r].deadline)
               row(s, T) == IF v.spots[s].st = "Available" /\ T # {} THEN hold(T) ELSE f[s]
    <3>1. /\ Relocked(f, v, t, F) = [s \in Spots |-> row(s, Takers(v, t, s, F))]
          /\ Relocked(f, v, t, G) = [s \in Spots |-> row(s, Takers(v, t, s, G))]
      BY DEF Relocked
    <3> HIDE DEF row
    <3>2. \A s \in Spots : row(s, Takers(v, t, s, F)) = row(s, Takers(v, t, s, G))
      BY <1>2
    <3>3. QED
      BY <3>1, <3>2
  <2>4. Relock(v, t, F) = Relock(v, t, G)
    <3>1. Relocked(v.spots, v, t, F) = Relocked(v.spots, v, t, G)
      BY <2>3
    <3>2. Relocked(v.dbSpots, v, t, F) = Relocked(v.dbSpots, v, t, G)
      BY <2>3
    <3>3. QED
      BY <3>1, <3>2, Zenon DEF Relock
  <2>5. QED
    BY <2>1, <2>2, <2>4
<1>4. QED
  BY <1>3 DEF Sweep

\* What the housekeeping does to spots and reservations.
LEMMA ExpiredFields ==
  ASSUME NEW t \in Nat, NEW w, Good(w, t), NEW F
  PROVE  /\ Expire(w, t, F).spots = FreeAt(w.spots, Lapsed(w, t, F))
         /\ Expire(w, t, F).resv = w.resv
BY ConfirmedFacts DEF Expire, WorldType

LEMMA SettledFields ==
  ASSUME NEW t \in Nat, NEW w, Good(w, t), NEW F
  PROVE  /\ SettleNoShows(w, t, F).spots = FreeAt(w.spots, Unlocked(w, t, F))
         /\ SettleNoShows(w, t, F).resv = Marked(w.resv, Settled(w, t, F), "NoShow")
BY ConfirmedFacts DEF SettleNoShows, WorldType

LEMMA RelockedFields ==
  ASSUME NEW t \in Nat, NEW w, Good(w, t), NEW F
  PROVE  /\ Relock(w, t, F).spots = Relocked(w.spots, w, t, F)
         /\ Relock(w, t, F).resv = w.resv
BY ConfirmedFacts DEF Relock, WorldType

\* Parked cars and the reservations that are due are left as they are.
Spares(w, u, t, p) ==
    /\ u.active = w.active
    /\ Due(u, t, p) = Due(w, t, p)
    /\ \A r \in Due(w, t, p) : u.resv[r] = w.resv[r]
    /\ \A s \in Spots : w.spots[s].st = "Occupied" => u.spots[s] = w.spots[s]

LEMMA LeftAlone ==
  ASSUME NEW t \in Nat, NEW w, Good(w, t), NEW F, NEW p
  PROVE  /\ Good(Sweep(Expire(w, t, F), t, F), t)
         /\ Spares(w, Sweep(Expire(w, t, F), t, F), t, p)
<1> DEFINE x == Expire(w, t, F)
           y == SettleNoShows(x, t, F)
           u == Relock(y, t, F)
           S == Lapsed(w, t, F)
           U == Unlocked(x, t, F)
           R == Settled(x, t, F)
<1>1. Sweep(x, t, F) = u
  BY DEF Sweep
<1>2. Good(x, t) /\ x.active = w.active /\ x.spots = FreeAt(w.spots, S) /\ x.resv = w.resv
  BY ExpireGood, TidyKeepsCars, ExpiredFields
<1> HIDE DEF x, S
<1>3. Good(y, t) /\ y.spots = FreeAt(x.spots, U) /\ y.resv = Marked(x.resv, R, "NoShow")
  BY <1>2, SettleGood, SettledFields
<1>4. Good(u, t) /\ u.active = x.active
  BY <1>1, <1>2, SweepGood, TidyKeepsCars
<1>5. \A s \in S : w.spots[s].st = "Reserved"
  BY DEF S, Lapsed
<1>6. \A s \in U : x.spots[s].st = "Reserved"
  BY DEF Unlocked, HeldBy
<1>7. \A r \in R : x.resv[r].st = "Confirmed" /\ t > x.resv[r].deadline
  BY DEF Settled, Late
<1> HIDE DEF y, U, R
<1>8. u.spots = Relocked(y.spots, y, t, F) /\ u.resv = y.resv
  BY <1>3, RelockedFields
<1> HIDE DEF u
<1>9. ASSUME NEW s \in Spots, w.spots[s].st = "Occupied"
      PROVE  u.spots[s] = w.spots[s]
  <2>1. x.spots[s] = w.spots[s]
    BY <1>2, <1>5, <1>9 DEF FreeAt
  <2>2. y.spots[s] = w.spots[s]
    BY <1>3, <1>6, <1>9, <2>1 DEF FreeAt
  <2>3. QED
    BY <1>8, <1>9, <2>2 DEF Relocked
<1>10. w.resv \in [ResvIds -> ResvType]
  BY ConfirmedFacts
<1>11. ASSUME NEW r \in ResvIds
       PROVE  /\ r \in R => u.resv[r].st = "NoShow"
              /\ r \notin R => u.resv[r] = w.resv[r]
  BY <1>2, <1>3, <1>8, <1>10, MarkedType
<1>12. \A r \in ResvIds : w.resv[r].deadline \in Nat
  BY <1>10 DEF ResvType
<1>13. \A r \in Due(w, t, p) : r \in ResvIds /\ r \notin R
  BY <1>2, <1>7, <1>12 DEF Due
<1>14. Due(u, t, p) = Due(w, t, p) /\ \A r \in Due(w, t, p) : u.resv[r] = w.resv[r]
  BY <1>11, <1>13 DEF Due
<1>15. Good(u, t) /\ Spares(w, u, t, p)
  BY <1>2, <1>4, <1>9, <1>14 DEF Spares
<1>16. QED
  BY <1>1, <1>15 DEF x

\* While no write fails, the housekeeping tidies up.
LEMMA TidyAfter ==
  ASSUME NEW t \in Nat, NEW w, Good(w, t)
  PROVE  Tidy(Sweep(Expire(w, t, {}), t, {}), t)
<1> DEFINE x == Expire(w, t, {})
           y == SettleNoShows(x, t, {})
           u == Relock(y, t, {})
           S == Lapsed(w, t, {})
           U == Unlocked(x, t, {})
           R == Settled(x, t, {})
<1>1. Sweep(x, t, {}) = u
  BY DEF Sweep
<1>2. Good(x, t) /\ x.spots = FreeAt(w.spots, S) /\ x.resv = w.resv
  BY ExpireGood, ExpiredFields
<1> HIDE DEF x
<1>3. ASSUME NEW s \in Spots, x.spots[s].st = "Reserved"
      PROVE  \E r \in ResvIds : /\ x.resv[r].st = "Confirmed" /\ x.resv[r].spot = s
                                /\ x.resv[r].plate = x.spots[s].by
  <2>1. s \notin S /\ x.spots[s] = w.spots[s]
    BY <1>2, <1>3 DEF FreeAt, Free
  <2>2. w.spots[s].until \in Nat
    BY <1>3, <2>1, ConfirmedFacts, SpotFacts
  <2>3. ~(w.spots[s].until <= t)
        \/ \E r \in ResvIds : w.resv[r].st = "Confirmed" /\ w.resv[r].spot = s
    BY <1>3, <2>1 DEF Lapsed
  <2>4. \E r \in ResvIds : w.resv[r].st = "Confirmed" /\ w.resv[r].spot = s
    BY <1>3, <2>1, <2>2, <2>3 DEF Good, MemorySound, HoldsBacked
  <2>5. PICK r \in ResvIds : w.resv[r].st = "Confirmed" /\ w.resv[r].spot = s
    BY <2>4
  <2>6. w.spots[s] = Held(w.resv[r].plate, w.resv[r].deadline)
    BY <1>3, <2>1, <2>5 DEF Good, MemorySound, LocksSound
  <2>7. w.spots[s].by = w.resv[r].plate
    BY <2>6, RowTypes
  <2>8. QED
    BY <1>2, <2>1, <2>5, <2>7
<1>4. Good(y, t) /\ y.spots = FreeAt(x.spots, U) /\ y.resv = Marked(x.resv, R, "NoShow")
  BY <1>2, SettleGood, SettledFields
<1>5. R = {r \in ResvIds : x.resv[r].st = "Confirmed" /\ t > x.resv[r].deadline}
  BY DEF Settled, Late
<1>6. U = {s \in Spots : \E r \in R : x.resv[r].spot = s /\ HeldBy(x.spots[s], x.resv[r].plate)}
  BY DEF Unlocked, Settled
<1> HIDE DEF y, S, U, R
<1>7. ASSUME NEW r \in ResvIds
      PROVE  /\ r \in R => y.resv[r].st = "NoShow"
             /\ r \notin R => y.resv[r] = x.resv[r]
  BY <1>2, <1>4, ConfirmedFacts, MarkedType
<1>8. ASSUME NEW s \in Spots, y.spots[s].st = "Reserved"
      PROVE  \E r \in ResvIds : /\ y.resv[r].st = "Confirmed" /\ y.resv[r].spot = s
                                /\ y.resv[r].plate = y.spots[s].by
  <2>1. s \notin U /\ y.spots[s] = x.spots[s]
    BY <1>4, <1>8 DEF FreeAt, Free
  <2>2. PICK r \in ResvIds : /\ x.resv[r].st = "Confirmed" /\ x.resv[r].spot = s
                             /\ x.resv[r].plate = x.spots[s].by
    BY <1>3, <1>8, <2>1
  <2>3. r \notin R
    BY <1>6, <1>8, <2>1, <2>2 DEF HeldBy
  <2>4. QED
    BY <1>7, <2>1, <2>2, <2>3
<1>9. ASSUME NEW r \in ResvIds, y.resv[r].st = "Confirmed"
      PROVE  t <= y.resv[r].deadline /\ y.resv[r].spot \in Spots
  <2>1. r \notin R /\ y.resv[r] = x.resv[r] /\ x.resv[r].deadline \in Nat
    BY <1>2, <1>7, <1>9, ConfirmedFacts DEF ResvType
  <2>2. QED
    BY <1>4, <1>5, <1>9, <2>1, ConfirmedFacts
<1>10. u.spots = Relocked(y.spots, y, t, {}) /\ u.resv = y.resv
  BY <1>4, RelockedFields
<1> HIDE DEF u
<1>11. ASSUME NEW s \in Spots, u.spots[s].st = "Reserved"
       PROVE  \E r \in ResvIds : /\ u.resv[r].st = "Confirmed" /\ u.resv[r].spot = s
                                 /\ u.resv[r].plate = u.spots[s].by
  <2>1. CASE u.spots[s] = y.spots[s]
    BY <1>8, <1>10, <1>11, <2>1
  <2>2. CASE \E r \in Takers(y, t, s, {}) :
               u.spots[s] = Held(y.resv[r].plate, y.resv[r].deadline)
    BY <1>10, <2>2, RowTypes DEF Takers
  <2>3. QED
    BY <1>10, <2>1, <2>2 DEF Relocked
<1>12. ASSUME NEW r \in ResvIds, u.resv[r].st = "Confirmed"
       PROVE  t <= u.resv[r].deadline /\ u.spots[u.resv[r].spot].st # "Available"
  <2> DEFINE s == y.resv[r].spot
  <2>1. t <= y.resv[r].deadline /\ s \in Spots
    BY <1>9, <1>10, <1>12
  <2>2. r \in Takers(y, t, s, {})
    BY <1>10, <1>12, <2>1 DEF Takers
  <2>3. y.spots[s].st = "Available" => u.spots[s].st = "Reserved"
    <3> HIDE DEF s
    <3>1. QED
      BY <1>10, <2>1, <2>2, RowTypes DEF Relocked
  <2>4. y.spots[s].st # "Available" => u.spots[s] = y.spots[s]
    BY <1>10, <2>1 DEF Relocked
  <2>5. QED
    BY <1>10, <2>1, <2>3, <2>4
<1>13. Tidy(u, t)
  BY <1>11, <1>12 DEF Tidy
<1>14. QED
  BY <1>1, <1>13 DEF x

\* And finds nothing to do where it is tidy.
LEMMA TidyStill ==
  ASSUME NEW t \in Nat, NEW w, Good(w, t), Tidy(w, t), NEW F
  PROVE  Expire(w, t, F) = w /\ Sweep(w, t, F) = w
<1>0. w \in WorldType
  BY DEF Good
<1>1. /\ \A f \in [Spots -> SpotType] : FreeAt(f, {}) = f
      /\ \A f \in [ResvIds -> ResvType] : Marked(f, {}, "NoShow") = f
      /\ \A l \in [ResvIds -> [PaymentKinds -> Nat]] : Booked(l, {}, "forfeit") = l
  BY DEF FreeAt, Marked, Booked
<1>2. Lapsed(w, t, F) = {}
  BY DEF Lapsed, Tidy
<1>3. Late(w, t) = {}
  <2>1. \A r \in ResvIds : w.resv[r].deadline \in Nat
    BY <1>0 DEF WorldType, ResvType
  <2>2. QED
    BY <2>1 DEF Late, Tidy
<1>4. Unlocked(w, t, F) = {} /\ Settled(w, t, F) = {} /\ Charged(w, {}) = {}
  BY <1>3 DEF Unlocked, Settled, Charged
<1>5. ASSUME NEW s \in Spots, w.spots[s].st = "Available"
      PROVE  Takers(w, t, s, F) = {}
  BY <1>5 DEF Takers, Tidy
<1>6. \A f \in [Spots -> SpotType] : Relocked(f, w, t, F) = f
  BY <1>5 DEF Relocked
<1>7. Expire(w, t, F) = w
  BY <1>0, <1>1, <1>2 DEF Expire, WorldType
<1>8. SettleNoShows(w, t, F) = w
  BY <1>0, <1>1, <1>3, <1>4 DEF SettleNoShows, WorldType
<1>9. Relock(w, t, F) = w
  BY <1>0, <1>6 DEF Relock, WorldType
<1>10. QED
  BY <1>7, <1>8, <1>9 DEF Sweep

\* In a tidy world a plate has the lock of its reservation that is due, or none.
LEMMA TidyOwn ==
  ASSUME NEW t \in Nat, NEW w, Good(w, t), Tidy(w, t), NEW p
  PROVE  /\ Own(w.spots, p) \in {{}, Required(w, t, p)}
         /\ \A r \in Due(w, t, p) : Own(w.spots, p) \subseteq {w.resv[r].spot}
<1>1. w.resv = w.dbResv /\ OneOpen(w.dbResv)
  BY DEF Good, MemorySound, Mirrored, DbSound
<1>2. ASSUME NEW q \in ResvIds, NEW r \in ResvIds,
             w.resv[q].st = "Confirmed", w.resv[r].st = "Confirmed",
             w.resv[q].plate = p, w.resv[r].plate = p
      PROVE  q = r
  BY <1>1, <1>2 DEF OneOpen, Open
<1>3. ASSUME NEW s \in Own(w.spots, p)
      PROVE  \E r \in Due(w, t, p) : w.resv[r].spot = s
  BY <1>3 DEF Own, HeldBy, Tidy, Due
<1>4. \A q, r \in Due(w, t, p) : q = r
  BY <1>2 DEF Due
<1>5. \A r \in Due(w, t, p) : Own(w.spots, p) \subseteq {w.resv[r].spot}
  BY <1>3, <1>4
<1>6. ASSUME Own(w.spots, p) # {}
      PROVE  Own(w.spots, p) = Required(w, t, p)
  <2>1. PICK s \in Own(w.spots, p), r \in Due(w, t, p) : w.resv[r].spot = s
    BY <1>3, <1>6
  <2>2. Due(w, t, p) = {r}
    BY <1>4, <2>1
  <2>3. Required(w, t, p) = {s}
    BY <2>1, <2>2 DEF Required
  <2>4. QED
    BY <1>5, <2>1, <2>3
<1>7. QED
  BY <1>5, <1>6

-----------------------------------------------------------------------------
(***************************************************************************)
(* A commit and enter.                                                     *)
(***************************************************************************)

\* A car that enter would put on s: it was not checked in, is not inside, and s is what it
\* may get.
MayPark(o, p, s) ==
    ~o.ok /\ o.w.active[p] = None /\ s \in Proposals(o.w.spots, Own(o.w.spots, p), p)

\* What comes of a check-in o, with a prepared spot as without.
LEMMA AfterCheckIn ==
  ASSUME NEW t, NEW w0, NEW F, NEW p, NEW s
  PROVE  LET x == Expire(w0, t, F)
             o == CheckInPrepared(x, t, p, s, F)
             n == OccupyAndRecord(o.w, p, s, F)
         IN  EnterPrepared(w0, t, p, s, F) =
               IF o.ok THEN o
               ELSE IF MayPark(o, p, s) THEN [ok |-> n.active[p] = s, w |-> n]
               ELSE [ok |-> FALSE, w |-> o.w]
BY DEF EnterPrepared, MayPark, Own

LEMMA SameAsEnter ==
  ASSUME NEW t, NEW w0, NEW F, NEW p, NEW s
  PROVE  LET o == CheckInImpl(Expire(w0, t, F), t, p, F)
         IN  /\ o.ok \/ o.w.active[p] # None => o.w \in EnterOutcomes(w0, t, p, F)
             /\ MayPark(o, p, s) =>
                  OccupyAndRecord(o.w, p, s, F) \in EnterOutcomes(w0, t, p, F)
<1> DEFINE o == CheckInImpl(Expire(w0, t, F), t, p, F)
           w == o.w
           own == {x \in Spots : HeldBy(w.spots[x], p)}
           offered == IF own # {} THEN own ELSE {x \in Spots : w.spots[x].st = "Available"}
<1>1. EnterOutcomes(w0, t, p, F) =
        IF o.ok \/ w.active[p] # None \/ offered = {} THEN {w}
        ELSE {OccupyAndRecord(w, p, x, F) : x \in offered}
  BY DEF EnterOutcomes
<1>2. MayPark(o, p, s) => ~o.ok /\ w.active[p] = None /\ s \in offered
  BY DEF MayPark, Proposals, Own
<1> HIDE DEF o, offered
<1>3. /\ o.ok \/ w.active[p] # None => w \in EnterOutcomes(w0, t, p, F)
      /\ MayPark(o, p, s) => OccupyAndRecord(w, p, s, F) \in EnterOutcomes(w0, t, p, F)
  BY <1>1, <1>2
<1>4. QED
  BY <1>3 DEF o

\* A check-in that is refused changes nothing, or the car has the lock.
LEMMA RefusedCheckIn ==
  ASSUME NEW t \in Nat, NEW w, Good(w, t), NEW F, NEW r \in ResvIds,
         w.resv[r].st = "Confirmed"
  PROVE  LET c == CheckInSpot(CheckInLock(w, r, F), r, F)
         IN  c.ok \/ c.w = w \/ HeldBy(c.w.spots[w.resv[r].spot], w.resv[r].plate)
<1> DEFINE s == w.resv[r].spot
           p == w.resv[r].plate
           h == Held(p, w.resv[r].deadline)
           v == CheckInLock(w, r, F)
           c == CheckInSpot(v, r, F)
           undone == [v EXCEPT !.spots[s] = h]
<1>1. Good(v, t) /\ v.resv = w.resv
  BY CheckInLockGood
<1>2. s \in Spots /\ v \in WorldType /\ w \in WorldType
  BY <1>1, ConfirmedFacts
<1>3. v = w \/ v.spots[s] = h
  <2> HIDE DEF s, h
  <2> DEFINE a == [w.spots EXCEPT ![s] = h]
             b == [w.dbSpots EXCEPT ![s] = h]
  <2>1. v = w \/ v = [w EXCEPT !.spots = a, !.dbSpots = b]
    BY DEF CheckInLock, s, h, p
  <2>2. a[s] = h
    BY <1>2 DEF WorldType
  <2> HIDE DEF v, a, b
  <2>3. v = w \/ v.spots = a
    BY <1>2, <2>1 DEF WorldType
  <2>4. QED
    BY <2>2, <2>3
<1>4. \/ c = [ok |-> FALSE, w |-> v] /\ ~HeldBy(v.spots[s], p)
      \/ c = [ok |-> FALSE, w |-> undone]
      \/ c.ok
  <2> HIDE DEF v
  <2>1. QED
    BY <1>1 DEF CheckInSpot
<1>5. HeldBy(h, p)
  BY RowTypes DEF HeldBy
<1> HIDE DEF v, s, h, p, c
<1>6. undone.spots[s] = h
  BY <1>2 DEF WorldType
<1> HIDE DEF undone
<1>7. c.ok \/ c.w = w \/ HeldBy(c.w.spots[s], p)
  BY <1>3, <1>4, <1>5, <1>6
<1>8. QED
  BY <1>7 DEF c, v, s, p

\* The reservation a check-in serves.
Served(w, t, p) == CHOOSE r \in Due(w, t, p) : TRUE

LEMMA ServedFacts ==
  ASSUME NEW w, NEW t, NEW p, Due(w, t, p) # {}
  PROVE  LET r == Served(w, t, p)
         IN  /\ r \in Due(w, t, p) /\ r \in ResvIds
             /\ w.resv[r].st = "Confirmed" /\ w.resv[r].plate = p
<1>1. Served(w, t, p) \in Due(w, t, p)
  BY DEF Served
<1>2. QED
  BY <1>1 DEF Due

LEMMA BothCheckIns ==
  ASSUME NEW w0, NEW t, NEW F, NEW p, NEW s
  PROVE  LET u == Sweep(w0, t, F)
             r == Served(u, t, p)
             v == CheckInLock(u, r, F)
         IN  /\ CheckInPrepared(w0, t, p, s, F) =
                  IF Due(u, t, p) = {} THEN [ok |-> FALSE, w |-> u]
                  ELSE IF s # u.resv[r].spot THEN [ok |-> FALSE, w |-> v]
                  ELSE CheckInSpot(v, r, F)
             /\ CheckInImpl(w0, t, p, F) =
                  IF Due(u, t, p) = {} THEN [ok |-> FALSE, w |-> u]
                  ELSE CheckInSpot(v, r, F)
BY DEF CheckInPrepared, CheckInImpl, Served

\* An entry with a prepared spot is one that enter may make, or leaves what the
\* housekeeping leaves, unless it misses the spot of a reservation that is due.
LEMMA EntersOrTidies ==
  ASSUME NEW t \in Nat, NEW w0, Good(w0, t), NEW F, NEW p, NEW s
  PROVE  LET u == Sweep(Expire(w0, t, F), t, F)
             e == EnterPrepared(w0, t, p, s, F)
         IN  \/ e.w \in EnterOutcomes(w0, t, p, F)
             \/ e.w = u
             \/ Due(u, t, p) # {} /\ s # u.resv[Served(u, t, p)].spot
<1> DEFINE x == Expire(w0, t, F)
           u == Sweep(x, t, F)
           r == Served(u, t, p)
           o == CheckInPrepared(x, t, p, s, F)
           a == CheckInImpl(x, t, p, F)
           e == EnterPrepared(w0, t, p, s, F)
           n == OccupyAndRecord(o.w, p, s, F)
           E == EnterOutcomes(w0, t, p, F)
           c == CheckInSpot(CheckInLock(u, r, F), r, F)
<1>1. SUFFICES ASSUME ~(Due(u, t, p) # {} /\ s # u.resv[r].spot)
               PROVE  e.w \in E \/ e.w = u
  OBVIOUS
<1>2. Good(u, t)
  BY LeftAlone
<1>3. e = IF o.ok THEN o
          ELSE IF MayPark(o, p, s) THEN [ok |-> n.active[p] = s, w |-> n]
          ELSE [ok |-> FALSE, w |-> o.w]
  BY AfterCheckIn
<1>4. /\ a.ok \/ a.w.active[p] # None => a.w \in E
      /\ MayPark(a, p, s) => OccupyAndRecord(a.w, p, s, F) \in E
  BY SameAsEnter
<1>5. o = IF Due(u, t, p) = {} THEN [ok |-> FALSE, w |-> u]
          ELSE IF s # u.resv[r].spot THEN [ok |-> FALSE, w |-> CheckInLock(u, r, F)]
          ELSE c
  BY BothCheckIns
<1>6. a = IF Due(u, t, p) = {} THEN [ok |-> FALSE, w |-> u] ELSE c
  BY BothCheckIns
<1> HIDE DEF u, r, e, E, a, c, o
<1>7. o = a
  BY <1>1, <1>5, <1>6
<1>8. CASE o.ok \/ MayPark(o, p, s) \/ o.w.active[p] # None
  BY <1>3, <1>4, <1>7, <1>8
<1>9. CASE ~o.ok /\ o.w.active[p] = None /\ ~MayPark(o, p, s)
  <2>1. e.w = o.w
    BY <1>3, <1>9
  <2>2. CASE Due(u, t, p) = {}
    BY <1>5, <2>1, <2>2
  <2>3. CASE Due(u, t, p) # {}
    <3>1. o = c /\ s = u.resv[r].spot
      BY <1>1, <1>5, <2>3
    <3>2. r \in ResvIds /\ u.resv[r].st = "Confirmed" /\ u.resv[r].plate = p
      BY <2>3, ServedFacts DEF r
    <3>3. s \in Spots
      BY <1>2, <3>1, <3>2, ConfirmedFacts
    <3>4. c.ok \/ c.w = u \/ HeldBy(c.w.spots[s], p)
      BY <1>2, <3>1, <3>2, RefusedCheckIn DEF c
    <3>5. HeldBy(o.w.spots[s], p) => MayPark(o, p, s)
      BY <1>9, <3>3 DEF MayPark, Proposals, Own
    <3>6. QED
      BY <1>9, <2>1, <3>1, <3>4, <3>5
  <2>4. QED
    BY <2>2, <2>3
<1>10. e.w \in E \/ e.w = u
  BY <1>8, <1>9
<1>11. QED
  BY <1>10

\* While no write fails, a prepared spot that is not the reserved one is taken only when
\* enter would take it too.
LEMMA MissedWhenTidy ==
  ASSUME NEW t \in Nat, NEW w0, Good(w0, t), NEW p, NEW s,
         LET u == Sweep(Expire(w0, t, {}), t, {})
         IN  Due(u, t, p) # {} /\ s # u.resv[Served(u, t, p)].spot
  PROVE  LET u == Sweep(Expire(w0, t, {}), t, {})
             e == EnterPrepared(w0, t, p, s, {})
         IN  e.w \in EnterOutcomes(w0, t, p, {}) \/ e.w = u
<1> DEFINE x == Expire(w0, t, {})
           u == Sweep(x, t, {})
           r == Served(u, t, p)
           v == CheckInLock(u, r, {})
           o == CheckInPrepared(x, t, p, s, {})
           a == CheckInImpl(x, t, p, {})
           e == EnterPrepared(w0, t, p, s, {})
           n == OccupyAndRecord(o.w, p, s, {})
           E == EnterOutcomes(w0, t, p, {})
<1>1. Good(u, t) /\ Tidy(u, t)
  BY LeftAlone, TidyAfter
<1>2. e = IF o.ok THEN o
          ELSE IF MayPark(o, p, s) THEN [ok |-> n.active[p] = s, w |-> n]
          ELSE [ok |-> FALSE, w |-> o.w]
  BY AfterCheckIn
<1>3. MayPark(a, p, s) => OccupyAndRecord(a.w, p, s, {}) \in E
  BY SameAsEnter
<1>4. Due(u, t, p) # {} /\ s # u.resv[r].spot
  OBVIOUS
<1>5. o = [ok |-> FALSE, w |-> v] /\ a = CheckInSpot(v, r, {})
  BY <1>4, BothCheckIns
<1> HIDE DEF x, u, E, e, o, a
<1>6. r \in Due(u, t, p) /\ r \in ResvIds /\ u.resv[r].st = "Confirmed"
      /\ u.resv[r].plate = p
  BY <1>4, ServedFacts
<1> HIDE DEF r
<1>7. v = u
  BY <1>1, <1>6 DEF CheckInLock, Tidy
<1>8. u.resv[r].spot \in Spots
  BY <1>1, <1>6, ConfirmedFacts
<1> HIDE DEF v
<1>9. ASSUME ~MayPark(o, p, s)
      PROVE  e.w = u
  BY <1>2, <1>5, <1>7, <1>9
<1>10. ASSUME MayPark(o, p, s)
       PROVE  e.w \in E
  <2>1. e.w = OccupyAndRecord(u, p, s, {})
    BY <1>2, <1>5, <1>7, <1>10
  <2>2. Own(u.spots, p) \subseteq {u.resv[r].spot}
    BY <1>1, <1>6, TidyOwn
  <2>3. Own(u.spots, p) # {} => s \in Own(u.spots, p)
    BY <1>5, <1>7, <1>10 DEF MayPark, Proposals
  <2>4. Own(u.spots, p) = {}
    BY <1>4, <2>2, <2>3
  <2>5. ~HeldBy(u.spots[u.resv[r].spot], p)
    BY <1>8, <2>4 DEF Own
  <2>6. a = [ok |-> FALSE, w |-> u]
    BY <1>5, <1>6, <1>7, <2>5 DEF CheckInSpot
  <2>7. a = o /\ a.w = u
    BY <1>5, <1>7, <2>6
  <2>8. OccupyAndRecord(a.w, p, s, {}) \in E
    BY <1>3, <1>10, <2>7
  <2>9. QED
    BY <2>1, <2>7, <2>8
<1>11. e.w \in E \/ e.w = u
  BY <1>9, <1>10
<1>12. QED
  BY <1>11 DEF E, e, u, x

\* No spot was found for a car whose reserved spot is taken.
LEMMA MissedWhenTaken ==
  ASSUME NEW t \in Nat, NEW w0, Good(w0, t), NEW F, NEW p, NEW s,
         Due(w0, t, p) # {},
         LET found == Proposals(w0.spots, Required(w0, t, p), p)
         IN  s \in IF found = {} THEN {None} ELSE found,
         LET u == Sweep(Expire(w0, t, F), t, F)
         IN  s # u.resv[Served(u, t, p)].spot
  PROVE  EnterPrepared(w0, t, p, s, F).w = Sweep(Expire(w0, t, F), t, F)
<1> DEFINE x == Expire(w0, t, F)
           u == Sweep(x, t, F)
           r == Served(u, t, p)
           z == w0.resv[r].spot
           v == CheckInLock(u, r, F)
           o == CheckInPrepared(x, t, p, s, F)
           e == EnterPrepared(w0, t, p, s, F)
           n == OccupyAndRecord(o.w, p, s, F)
           found == Proposals(w0.spots, Required(w0, t, p), p)
<1>1. /\ Due(u, t, p) = Due(w0, t, p)
      /\ \A q \in Due(w0, t, p) : u.resv[q] = w0.resv[q]
      /\ \A y \in Spots : w0.spots[y].st = "Occupied" => u.spots[y] = w0.spots[y]
  <2>1. Spares(w0, u, t, p)
    BY LeftAlone
  <2> HIDE DEF u
  <2>2. QED
    BY <2>1 DEF Spares
<1>2. e = IF o.ok THEN o
          ELSE IF MayPark(o, p, s) THEN [ok |-> n.active[p] = s, w |-> n]
          ELSE [ok |-> FALSE, w |-> o.w]
  BY AfterCheckIn
<1>3. s # u.resv[r].spot /\ s \in IF found = {} THEN {None} ELSE found
  OBVIOUS
<1>4. o = [ok |-> FALSE, w |-> v]
  BY <1>1, <1>3, BothCheckIns
<1> HIDE DEF x, u, e, o
<1>5. r \in Due(w0, t, p)
  BY <1>1, ServedFacts
<1> HIDE DEF r
<1>6. r \in ResvIds /\ w0.resv[r].st = "Confirmed" /\ w0.resv[r].plate = p
      /\ u.resv[r] = w0.resv[r]
  BY <1>1, <1>5 DEF Due
<1>7. z \in Spots /\ w0.spots[z] \in SpotType
  BY <1>6, ConfirmedFacts
<1>8. Due(w0, t, p) = {r}
  <2>1. w0.resv = w0.dbResv /\ OneOpen(w0.dbResv)
    BY DEF Good, MemorySound, Mirrored, DbSound
  <2>2. ASSUME NEW q \in Due(w0, t, p)
        PROVE  q = r
    BY <1>6, <2>1, <2>2 DEF Due, OneOpen, Open
  <2>3. QED
    BY <1>5, <2>2
<1>9. Required(w0, t, p) = {z}
  BY <1>8 DEF Required
<1>10. s = None /\ z \notin found
  <2>1. found \subseteq {z}
    BY <1>9 DEF Proposals
  <2> HIDE DEF found, z
  <2>2. s # z
    BY <1>3, <1>6 DEF z
  <2>3. QED
    BY <1>3, <2>1, <2>2
<1>11. w0.spots[z].st # "Available" /\ ~HeldBy(w0.spots[z], p)
  <2> HIDE DEF z
  <2>1. QED
    BY <1>7, <1>9, <1>10 DEF Proposals
<1>12. w0.spots[z].st # "Reserved"
  <2>1. w0.spots[z].st = "Reserved" => w0.spots[z] = Held(p, w0.resv[r].deadline)
    BY <1>6 DEF Good, MemorySound, LocksSound
  <2>2. QED
    BY <1>11, <2>1, RowTypes DEF HeldBy
<1>13. u.spots[z].st = "Occupied"
  BY <1>1, <1>7, <1>11, <1>12, SpotFacts
<1>14. v = u
  BY <1>6, <1>13 DEF CheckInLock
<1>15. ~MayPark(o, p, s)
  BY <1>10, NoneAssumption DEF MayPark, Proposals
<1> HIDE DEF v
<1>16. e.w = u
  BY <1>2, <1>4, <1>14, <1>15
<1>17. QED
  BY <1>16 DEF e, u, x

\* When nothing fails and the spots are those the search saw, a car that is refused is
\* inside already or there is no spot for it.
LEMMA RefusedWhenTidy ==
  ASSUME NEW t \in Nat, NEW w, Good(w, t), Tidy(w, t), NEW p \in Plates, NEW R, NEW s,
         LET found == Proposals(w.spots, R, p)
         IN  s \in IF found = {} THEN {None} ELSE found,
         Own(w.spots, p) \in {{}, R}, w.active[p] = None
  PROVE  LET e == EnterPrepared(w, t, p, s, {})
         IN  e.ok \/ (e.w = w /\ Proposals(w.spots, R, p) = {})
<1> DEFINE r == Served(w, t, p)
           v == CheckInLock(w, r, {})
           o == CheckInPrepared(w, t, p, s, {})
           n == OccupyAndRecord(o.w, p, s, {})
           e == EnterPrepared(w, t, p, s, {})
           found == Proposals(w.spots, R, p)
<1>1. Expire(w, t, {}) = w /\ Sweep(w, t, {}) = w
  BY TidyStill
<1>2. e = IF o.ok THEN o
          ELSE IF MayPark(o, p, s) THEN [ok |-> n.active[p] = s, w |-> n]
          ELSE [ok |-> FALSE, w |-> o.w]
  BY <1>1, AfterCheckIn
<1>3. o = IF Due(w, t, p) = {} THEN [ok |-> FALSE, w |-> w]
          ELSE IF s # w.resv[r].spot THEN [ok |-> FALSE, w |-> v]
          ELSE CheckInSpot(v, r, {})
  BY <1>1, BothCheckIns
<1>4. w.dbActive[p] = None /\ w \in WorldType
  BY DEF Good, MemorySound, Mirrored
<1> HIDE DEF o, e
<1>5. o.ok \/ o = [ok |-> FALSE, w |-> w]
  <2>1. CASE Due(w, t, p) = {}
    BY <1>3, <2>1
  <2>2. CASE Due(w, t, p) # {}
    <3>1. r \in ResvIds /\ w.resv[r].st = "Confirmed" /\ w.resv[r].plate = p
      BY <2>2, ServedFacts
    <3> HIDE DEF r
    <3>2. v = w
      BY <3>1 DEF CheckInLock, Tidy
    <3> HIDE DEF v
    <3>3. CheckInSpot(w, r, {}).ok \/ CheckInSpot(w, r, {}) = [ok |-> FALSE, w |-> w]
      BY <1>4, <3>1 DEF CheckInSpot
    <3>4. QED
      BY <1>3, <2>2, <3>2, <3>3
  <2>3. QED
    BY <2>1, <2>2
<1>6. CASE o.ok
  BY <1>2, <1>6 DEF e
<1>7. CASE o = [ok |-> FALSE, w |-> w] /\ MayPark(o, p, s)
  <2>1. s \in Spots
    BY <1>7 DEF MayPark, Proposals
  <2>2. OccupyAndRecord(w, p, s, {}).active[p] = s
    BY <1>4, <2>1 DEF OccupyAndRecord, WorldType
  <2>3. e.ok
    BY <1>2, <1>7, <2>2
  <2>4. QED
    BY <2>3 DEF e
<1>8. CASE o = [ok |-> FALSE, w |-> w] /\ ~MayPark(o, p, s)
  <2>1. e.w = w
    BY <1>2, <1>8
  <2>2. s \notin Proposals(w.spots, Own(w.spots, p), p)
    BY <1>8 DEF MayPark
  <2>3. found = {}
    <3>1. SUFFICES ASSUME found # {} PROVE FALSE
      OBVIOUS
    <3>2. s \in found
      BY <3>1
    <3>3. Own(w.spots, p) # {} => s \in Own(w.spots, p)
      BY <3>2 DEF Proposals
    <3>4. QED
      BY <2>2, <3>2, <3>3 DEF Proposals
  <2>4. QED
    BY <2>1, <2>3 DEF e
<1>9. QED
  BY <1>5, <1>6, <1>7, <1>8

-----------------------------------------------------------------------------
(***************************************************************************)
(* What the planner knows when it commits.                                 *)
(***************************************************************************)

\* The proposal is one for the spots as they are.
Chosen ==
    stage = "checked" =>
        LET found == Proposals(plan.spots, plan.required, First.plate)
        IN  plan.spots = world.spots /\ plan.proposal \in IF found = {} THEN {None} ELSE found

\* Locks the plate had when the search began were required of the search.
Foreseen ==
    stage \in {"searching", "checked"} /\ faults = 0 =>
        Own(plan.spots, First.plate) \in {{}, plan.required}

TidyAtCommit == stage = "checked" /\ faults = 0 => Tidy(world, now)

Known == Chosen /\ Foreseen /\ TidyAtCommit

\* Failures are counted.
LEMMA FaultsGrow ==
  ASSUME TypeOK, [Next]_vars, faults' = 0
  PROVE  faults = 0
<1>1. faults \in Nat
  BY BoundAssumption DEF TypeOK
<1>2. \A F : Fault(F) => faults = 0 /\ F = {}
  BY <1>1 DEF Fault
<1>3. QED
  BY <1>1, <1>2
     DEF Next, Calls, Tick, Create, Cancel, CheckIn, Enter, Leave, EmergencyEnter, Housekeep,
         Crash, Restart, RestartFails, vars

\* While nothing has failed, the housekeeping leaves a tidy world.
LEMMA HousekeepTidies ==
  ASSUME IInv, Housekeep, faults' = 0
  PROVE  Good(world', now) /\ now \in Nat /\ Tidy(world', now) /\ faults = 0
<1>1. PICK F : Fault(F) /\ world' = Sweep(Expire(world, now, F), now, F)
  BY DEF Housekeep, Become
<1>2. now \in Nat /\ Good(world, now) /\ faults \in Nat
  BY UpGood, BoundAssumption DEF Housekeep, IInv, TypeOK
<1>3. F = {} /\ faults = 0
  BY <1>1, <1>2 DEF Fault
<1>4. QED
  BY <1>1, <1>2, <1>3, TidyAfter, LeftAlone

\* Nothing is known, and nothing need be, outside a search.
LEMMA NothingKnown ==
  ASSUME stage' \notin {"searching", "checked"}
  PROVE  Known'
BY DEF Known, Chosen, Foreseen, TidyAtCommit

\* During a search it does not matter what else happens.
LEMMA StillKnown ==
  ASSUME Known, stage = "searching", stage' = stage, First'.plate = First.plate,
         plan'.spots = plan.spots, plan'.required = plan.required, faults' = 0 => faults = 0
  PROVE  Known'
BY DEF Known, Chosen, Foreseen, TidyAtCommit

LEMMA SearchKnown ==
  ASSUME PInv, requests # <<>>, Search
  PROVE  Known'
<1>1. CASE stage' = "timer"
  BY <1>1, NothingKnown
<1>2. CASE stage' # "timer"
  <2>1. /\ stage' = "searching" /\ Housekeep /\ UNCHANGED <<requests, request>>
        /\ plan' = [NoPlan EXCEPT !.spots = world'.spots,
                                  !.required = Required(world', now, First.plate)]
    BY <1>2 DEF Search, Finish
  <2>2. plan'.spots = world'.spots /\ plan'.required = Required(world', now, First.plate)
    BY <2>1 DEF NoPlan
  <2>3. First' = First
    BY <2>1 DEF First
  <2>4. ASSUME faults' = 0
        PROVE  Own(plan'.spots, First.plate) \in {{}, plan'.required}
    BY <2>1, <2>2, <2>4, HousekeepTidies, TidyOwn DEF PInv
  <2>5. QED
    BY <2>1, <2>3, <2>4 DEF Known, Chosen, Foreseen, TidyAtCommit
<1>3. QED
  BY <1>1, <1>2

LEMMA FinishedKnown ==
  ASSUME PInv, Known, Finished
  PROVE  Known'
<1>1. CASE stage' # "checked"
  <2>1. stage' \notin {"searching", "checked"}
    BY <1>1 DEF Finished, Finish
  <2>2. QED
    BY <2>1, NothingKnown
<1>2. CASE stage' = "checked"
  <2> DEFINE found == Proposals(plan.spots, plan.required, First.plate)
  <2>1. /\ Housekeep /\ UNCHANGED <<requests, request>> /\ ~Changed(plan, world'.spots)
        /\ \E s \in IF found = {} THEN {None} ELSE found : plan' = [plan EXCEPT !.proposal = s]
    BY <1>2 DEF Finished, Finish
  <2>2. PICK s \in IF found = {} THEN {None} ELSE found : plan' = [plan EXCEPT !.proposal = s]
    BY <2>1
  <2>3. /\ plan'.spots = plan.spots /\ plan'.required = plan.required /\ plan'.proposal = s
        /\ plan.spots = world'.spots
    BY <2>1, <2>2 DEF PInv, Slots, PlanType, Changed
  <2>4. First' = First
    BY <2>1 DEF First
  <2>5. now' = now
    BY <2>1 DEF Housekeep, Become
  <2>6. faults' = 0 => faults = 0 /\ Tidy(world', now)
    BY <2>1, HousekeepTidies DEF PInv
  <2>7. stage = "searching"
    BY DEF Finished
  <2>8. Chosen'
    BY <2>2, <2>3, <2>4 DEF Chosen
  <2>9. Foreseen'
    BY <2>3, <2>4, <2>6, <2>7 DEF Known, Foreseen
  <2>10. TidyAtCommit'
    BY <2>5, <2>6 DEF TidyAtCommit
  <2>11. QED
    BY <2>8, <2>9, <2>10 DEF Known
<1>3. QED
  BY <1>1, <1>2

\* Who is first, and what it asks for, does not change behind its back.
LEMMA StaysFirst ==
  ASSUME PInv, requests # <<>>,
         (\E p \in Plates : Submit(p)) \/ (\E i \in Numbers : DropContext(i))
  PROVE  First'.plate = First.plate
<1>1. Head(requests) \in Numbers /\ request[Head(requests)] # NoRequest
  BY FirstAsked DEF PInv
<1>2. request \in [Numbers -> RequestType] /\ requests \in Seq(Numbers)
  BY DEF PInv, Asked, Queue
<1>3. ASSUME NEW p \in Plates, Submit(p)
      PROVE  First' = First
  <2>1. PICK i \in Numbers :
          /\ request[i] = NoRequest
          /\ request' = [request EXCEPT ![i] = [plate |-> p, alive |-> TRUE, retries |-> 0]]
          /\ requests' = Append(requests, i)
    BY <1>3 DEF Submit, Enqueue
  <2>2. Head(requests') = Head(requests)
    BY <1>2, <2>1, HeadTailAppend
  <2>3. QED
    BY <1>1, <1>2, <2>1, <2>2 DEF First
<1>4. ASSUME NEW i \in Numbers, DropContext(i)
      PROVE  First'.plate = First.plate
  <2>1. request' = [request EXCEPT ![i] = [request[i] EXCEPT !.alive = FALSE]]
        /\ requests' = requests
    BY <1>4 DEF DropContext
  <2>2. request'[i].plate = request[i].plate
    BY <1>2, <2>1, RequestRows
  <2>3. QED
    BY <1>1, <1>2, <2>1, <2>2 DEF First
<1>5. QED
  BY <1>3, <1>4

LEMMA KnownStep ==
  ASSUME PInv, Known, [PlannerNext]_allVars
  PROVE  Known'
<1>0. stage = "searching" => requests # <<>>
  BY DEF PInv, Slots
<1>1. ASSUME NEW p \in Plates, Submit(p)
      PROVE  Known'
  <2>1. /\ UNCHANGED <<faults, plan>> /\ stage \notin {"again", "checked"}
        /\ stage' = stage \/ stage' = "timer"
    BY <1>1 DEF Submit, Woken, Busy, vars
  <2>2. QED
    BY <1>0, <1>1, <2>1, StaysFirst, StillKnown, NothingKnown DEF PInv, Slots, Stages
<1>2. CASE TurnAway \/ \E alive \in BOOLEAN : TellBusy(alive)
  <2>1. /\ UNCHANGED <<faults, plan, stage, requests, request>>
        /\ stage \notin {"again", "checked"}
    BY <1>2 DEF TurnAway, TellBusy, Busy, vars
  <2>2. First' = First
    BY <2>1 DEF First
  <2>3. QED
    BY <2>1, <2>2, StillKnown, NothingKnown DEF PInv, Slots, Stages
<1>3. ASSUME NEW i \in Numbers, DropContext(i)
      PROVE  Known'
  <2>1. UNCHANGED <<faults, plan, stage>> /\ stage \notin {"again", "checked"}
    BY <1>3 DEF DropContext, Busy, vars
  <2>2. QED
    BY <1>0, <1>3, <2>1, StaysFirst, StillKnown, NothingKnown DEF PInv, Slots, Stages
<1>4. CASE Configure
  <2>1. /\ UNCHANGED <<faults, stage, requests, request>> /\ stage = "searching"
        /\ plan' = [plan EXCEPT !.stale = TRUE]
    BY <1>4 DEF Configure, vars
  <2>2. plan'.spots = plan.spots /\ plan'.required = plan.required
    BY <2>1 DEF PInv, Slots, PlanType
  <2>3. First' = First
    BY <2>1 DEF First
  <2>4. QED
    BY <2>1, <2>2, <2>3, StillKnown
<1>5. CASE Rest \/ Skip \/ SearchFails \/ Commit \/ Stop
  <2>1. stage' \notin {"searching", "checked"}
    BY <1>5 DEF Rest, Skip, SearchFails, Commit, Stop, Finish
  <2>2. QED
    BY <2>1, NothingKnown
<1>6. CASE StartNext \/ SearchAgain
  BY <1>6, SearchKnown DEF StartNext, SearchAgain, PInv, Slots
<1>7. CASE Finished
  BY <1>7, FinishedKnown
<1>8. CASE Elsewhere
  <2>1. /\ UNCHANGED <<requests, request, stage, plan>> /\ stage \notin {"again", "checked"}
        /\ [Next]_vars
    BY <1>8 DEF Elsewhere, Busy, Next
  <2>2. faults' = 0 => faults = 0
    BY <2>1, FaultsGrow DEF PInv, IInv
  <2>3. First' = First
    BY <2>1 DEF First
  <2>4. QED
    BY <2>1, <2>2, <2>3, StillKnown, NothingKnown DEF PInv, Slots, Stages
<1>9. CASE UNCHANGED allVars
  <2>1. UNCHANGED <<now, world, faults, requests, request, stage, plan>>
    BY <1>9 DEF allVars, vars, plannerVars
  <2>2. First' = First
    BY <2>1 DEF First
  <2>3. QED
    BY <2>1, <2>2 DEF Known, Chosen, Foreseen, TidyAtCommit
<1>10. QED
  BY <1>1, <1>2, <1>3, <1>4, <1>5, <1>6, <1>7, <1>8, <1>9 DEF PlannerNext

\* A commit enters the car as enter does, or tidies up.
LEMMA CommitEnters ==
  ASSUME PInv, Known, Commit
  PROVE  \/ Tidied \/ Enter(First.plate)
         \/ faults' > faults /\ plan.required # Required(world, now, First.plate)
<1> DEFINE p == First.plate
           s == plan.proposal
<1>1. PICK F \in Failing(SweepWrites \cup {"expire", "checkinLock", "checkin", "entry"}) :
        Fault(F) /\ Become(EnterPrepared(world, now, p, s, F).w)
  BY DEF Commit
<1> DEFINE u == Sweep(Expire(world, now, F), now, F)
           e == EnterPrepared(world, now, p, s, F)
           E == EnterOutcomes(world, now, p, F)
<1>2. up /\ now \in Nat /\ Good(world, now) /\ faults \in Nat /\ stage = "checked"
  BY UpGood, BoundAssumption DEF Commit, PInv, Slots, IInv, TypeOK
<1>3. p \in Plates
  BY CommitSound
<1> HIDE DEF p, s
<1>4. ASSUME e.w \in E
      PROVE  Enter(p)
  BY <1>1, <1>2, <1>4 DEF Enter
<1>5. ASSUME e.w = u
      PROVE  Tidied
  <2> DEFINE G == {x \in F : x[1] \in SweepWrites \cup {"expire"}}
  <2>1. PICK O \in Outages :
          F = {x \in O : x[1] \in SweepWrites \cup {"expire", "checkinLock", "checkin", "entry"}}
    BY <1>1 DEF Failing
  <2>2. G = {x \in O : x[1] \in SweepWrites \cup {"expire"}}
    BY <2>1
  <2>3. G \in Failing(SweepWrites \cup {"expire"})
    BY <2>2 DEF Failing
  <2>4. u = Sweep(Expire(world, now, G), now, G)
    BY WritesSeen
  <2> HIDE DEF G, u
  <2>5. world' = Sweep(Expire(world, now, G), now, G)
    BY <1>1, <1>5, <2>4 DEF Become
  <2>6. QED
    BY <2>3, <2>5 DEF Tidied
<1>6. CASE Due(u, now, p) = {} \/ s = u.resv[Served(u, now, p)].spot
  <2>1. e.w \in E \/ e.w = u
    BY <1>2, <1>6, EntersOrTidies
  <2> HIDE DEF e, E, u
  <2>2. QED
    BY <1>4, <1>5, <2>1 DEF p
<1>7. CASE Due(u, now, p) # {} /\ s # u.resv[Served(u, now, p)].spot
  <2>1. CASE F = {}
    <3>1. e.w \in E \/ e.w = u
      BY <1>2, <1>7, <2>1, MissedWhenTidy
    <3> HIDE DEF e, E, u
    <3>2. QED
      BY <1>4, <1>5, <3>1 DEF p
  <2>2. CASE plan.required = Required(world, now, p)
    <3>1. LET found == Proposals(world.spots, Required(world, now, p), p)
          IN  s \in IF found = {} THEN {None} ELSE found
      BY <1>2, <2>2 DEF Known, Chosen, p, s
    <3>2. Due(world, now, p) # {}
      <4>1. Spares(world, u, now, p)
        BY <1>2, LeftAlone
      <4>2. QED
        BY <1>7, <4>1 DEF Spares
    <3>3. e.w = u
      BY <1>2, <1>7, <3>1, <3>2, MissedWhenTaken
    <3> HIDE DEF e, E, u
    <3>4. QED
      BY <1>5, <3>3
  <2>3. CASE F # {} /\ plan.required # Required(world, now, p)
    BY <1>1, <1>2, <2>3 DEF Fault, p
  <2>4. QED
    BY <2>1, <2>2, <2>3
<1>8. QED
  BY <1>6, <1>7

\* A commit that is refused, while no write fails, was so for a reason.
LEMMA CommitRefuses ==
  ASSUME PInv, Known, Commit, reply' = "refused", faults' = 0
  PROVE  \/ world.active[First.plate] # None
         \/ Proposals(world'.spots, plan.required, First.plate) = {}
<1> DEFINE p == First.plate
           s == plan.proposal
<1>1. PICK F : /\ Fault(F) /\ Become(EnterPrepared(world, now, p, s, F).w)
               /\ Finish(IF EnterPrepared(world, now, p, s, F).ok THEN "entered" ELSE "refused")
  BY DEF Commit
<1>2. up /\ now \in Nat /\ Good(world, now) /\ faults \in Nat /\ stage = "checked"
  BY UpGood, BoundAssumption DEF Commit, PInv, Slots, IInv, TypeOK
<1>3. F = {} /\ faults = 0
  BY <1>1, <1>2 DEF Fault
<1> DEFINE e == EnterPrepared(world, now, p, s, {})
<1>4. world' = e.w /\ reply' = (IF Wanted THEN IF e.ok THEN "entered" ELSE "refused" ELSE "none")
  BY <1>1, <1>3, Zenon DEF Become, Finish
<1>5. p \in Plates
  BY CommitSound
<1>6. /\ Tidy(world, now) /\ Own(world.spots, p) \in {{}, plan.required}
      /\ LET found == Proposals(world.spots, plan.required, p)
         IN  s \in IF found = {} THEN {None} ELSE found
  BY <1>2, <1>3 DEF Known, Chosen, Foreseen, TidyAtCommit
<1>7. ~e.ok
  BY <1>4
<1>8. world.active[p] # None
      \/ e.ok \/ (e.w = world /\ Proposals(world.spots, plan.required, p) = {})
  BY <1>2, <1>5, <1>6, RefusedWhenTidy
<1>9. QED
  BY <1>4, <1>7, <1>8

-----------------------------------------------------------------------------
(***************************************************************************)
(* The theorems.                                                           *)
(***************************************************************************)

THEOREM PlannerInductive == PlannerSpec => []PInv
<1>1. PlannerInit => PInv
  BY PlannerInitSound
<1>2. PInv /\ [PlannerNext]_allVars => PInv'
  BY PlannerStep
<1>3. QED
  BY <1>1, <1>2, PTL DEF PlannerSpec

\* The planner does no harm to the service it enters cars into: what is proved of every
\* state of the core, on spots, records, reservations and receipts, holds of the
\* composition, with commits between the calls (checkInImpl and enterImpl with a
\* prepared proposal).
THEOREM CoreUnharmed == PlannerSpec => []IInv
<1>1. PInv => IInv
  BY DEF PInv
<1>2. QED
  BY <1>1, PlannerInductive, PTL

\* Every request that was not answered is in the queue, once, and the planner is awake
\* while there is one (submit, startNext, finish and running_).
THEOREM RequestsKept == PlannerSpec => []NobodyStranded
<1>1. PInv => NobodyStranded
  BY DEF PInv, Queue, Asked, Told, Slots, NobodyStranded, PlannerTypeOK
<1>2. QED
  BY <1>1, PlannerInductive, PTL

\* Cars enter within a slot of the planner only for the request that is answered, on the
\* spot that was proposed, and that request is told so; no request is told it entered
\* when it did not.
THEOREM OnlyWhoAsks == PlannerSpec => EntersForWhoAsks
<1>1. PInv /\ [PlannerNext]_allVars =>
        [/\ \A p \in Plates :
              Busy /\ up' /\ world'.active[p] # world.active[p] =>
                  /\ p = First.plate /\ First.alive
                  /\ world.active[p] = None /\ world'.active[p] = plan.proposal
                  /\ reply' = "entered"
         /\ reply' = "entered" =>
              /\ world.active[First.plate] = None
              /\ world'.active[First.plate] # None]_allVars
  <2> SUFFICES ASSUME PInv, [PlannerNext]_allVars, ~UNCHANGED allVars
               PROVE  /\ \A p \in Plates :
                           Busy /\ up' /\ world'.active[p] # world.active[p] =>
                               /\ p = First.plate /\ First.alive
                               /\ world.active[p] = None /\ world'.active[p] = plan.proposal
                               /\ reply' = "entered"
                      /\ reply' = "entered" =>
                           /\ world.active[First.plate] = None
                           /\ world'.active[First.plate] # None
    OBVIOUS
  <2>1. CASE Commit
    <3>1. world.active \in [Plates -> Spots \cup {None}]
      BY DEF PInv, IInv, TypeOK, WorldType
    <3>2. CASE Finish("refused") /\ world'.active = world.active
      BY <3>2 DEF Finish
    <3>3. CASE /\ Finish("entered")
               /\ plan.proposal \in Spots /\ world.active[First.plate] = None
               /\ world'.active = [world.active EXCEPT ![First.plate] = plan.proposal]
      <4>1. First.plate \in Plates /\ Wanted
        BY <2>1, CommitSound
      <4>2. reply' = "entered"
        BY <3>3, <4>1 DEF Finish
      <4>3. \A p \in Plates : world'.active[p] =
              IF p = First.plate THEN plan.proposal ELSE world.active[p]
        BY <3>1, <3>3, <4>1
      <4>4. plan.proposal # None
        BY <3>3, NoneAssumption
      <4>5. QED
        BY <3>3, <4>1, <4>2, <4>3, <4>4 DEF Wanted
    <3>4. QED
      BY <2>1, <3>2, <3>3, CommitSound
  <2>2. CASE reply' # "entered" /\ (Busy /\ up' => world'.active = world.active)
    BY <2>2
  <2>3. QED
    BY <2>1, <2>2, PlannerStep
<1>2. QED
  BY <1>1, PlannerInductive, PTL DEF PlannerSpec, EntersForWhoAsks

\* What is settled stays settled in the composition too.
THEOREM PlannerSettles == PlannerSpec => SettlementFinal
<1>1. PInv /\ [PlannerNext]_allVars =>
        [\A r \in ResvIds :
           world.dbResv[r].st \in {"Completed", "Cancelled", "NoShow"} =>
              /\ world'.dbResv[r] = world.dbResv[r]
              /\ world'.ledger[r] = world.ledger[r]]_vars
  BY PlannerStep DEF KeepsResolved, Resolved
<1>2. QED
  BY <1>1, PlannerInductive, PTL DEF PlannerSpec, SettlementFinal
\* No step of the composition gives a spot that is locked for a reservation that is not
\* late to another vehicle, an entry with a spot proposed before the lock included.
THEOREM PlannerRespectsLocks == PlannerSpec => LockNotHandedOver
<1>1. ASSUME PInv, [PlannerNext]_allVars,
             NEW s \in Spots, NEW r \in ResvIds, up,
             world.resv[r].st = "Confirmed", world.resv[r].spot = s,
             HeldBy(world.spots[s], world.resv[r].plate), now <= world.resv[r].deadline
      PROVE  world'.spots[s].by \in {world.resv[r].plate, None}
  BY <1>1, PlannerHandsOverNone DEF HandsOverNone, Locked
<1>2. PInv /\ [PlannerNext]_allVars =>
        [\A s \in Spots, r \in ResvIds :
           /\ up
           /\ world.resv[r].st = "Confirmed" /\ world.resv[r].spot = s
           /\ HeldBy(world.spots[s], world.resv[r].plate)
           /\ now <= world.resv[r].deadline
           => world'.spots[s].by \in {world.resv[r].plate, None}]_vars
  BY <1>1
<1>3. QED
  BY <1>2, PlannerInductive, PTL DEF PlannerSpec, LockNotHandedOver
\* The planner commits proposals for the spots as they are, in a tidy world while no write
\* fails (sameSpots, and the sweeps of startNext and of the result).
THEOREM PlannerKnows == PlannerSpec => [](PInv /\ Known)
<1>1. PlannerInit => PInv /\ Known
  BY PlannerInitSound DEF PlannerInit, Known, Chosen, Foreseen, TidyAtCommit
<1>2. PInv /\ Known /\ [PlannerNext]_allVars => (PInv /\ Known)'
  BY PlannerStep, KnownStep
<1>3. QED
  BY <1>1, <1>2, PTL DEF PlannerSpec

\* To the service an entry that was planned in the background is one that enter makes, at
\* one moment, whatever happened to spots, reservations and configuration meanwhile.
THEOREM EntryIsAtomic == PlannerSpec => EntersAtomically
<1>1. ASSUME PInv, Known, [PlannerNext]_allVars,
             <<requests, stage, plan>>' # <<requests, stage, plan>>
      PROVE  \/ UNCHANGED world \/ Tidied \/ Crash \/ Enter(First.plate)
             \/ faults' > faults /\ plan.required # Required(world, now, First.plate)
  <2>1. CASE Commit
    BY <1>1, <2>1, CommitEnters
  <2>2. CASE Housekeep
    BY <2>2 DEF Housekeep, Become, Tidied
  <2>3. Commit \/ Housekeep \/ Crash \/ UNCHANGED world
    BY <1>1 DEF PlannerNext, Submit, TurnAway, TellBusy, DropContext, Configure, Rest, Skip,
                StartNext, SearchAgain, Search, SearchFails, Finished, Stop, Elsewhere, vars,
                allVars, plannerVars
  <2>4. QED
    BY <2>1, <2>2, <2>3
<1>2. PInv /\ Known /\ [PlannerNext]_allVars =>
        [<<requests, stage, plan>>' # <<requests, stage, plan>> =>
            \/ UNCHANGED world \/ Tidied \/ Crash \/ Enter(First.plate)
            \/ /\ faults' > faults
               /\ plan.required # Required(world, now, First.plate)]_allVars
  BY <1>1
<1>3. QED
  BY <1>2, PlannerKnows, PTL DEF PlannerSpec, EntersAtomically

\* While no write fails, a request is refused only when its car is inside or there is no
\* spot for it at that moment, whatever changed during the search.
THEOREM RefusalsAreDue == PlannerSpec => RefusedForAReason
<1>1. ASSUME PInv, Known, PlannerNext, reply' = "refused", faults' = 0
      PROVE  \/ world.active[First.plate] # None
             \/ Proposals(world'.spots, plan.required, First.plate) = {}
  <2>1. CASE Commit
    BY <1>1, <2>1, CommitRefuses
  <2>2. CASE Search /\ requests # <<>> /\ Wanted
    <3>1. world'.active = world.active
      BY <1>1, <2>2, SearchSound
    <3>2. QED
      BY <1>1, <2>2, <3>1 DEF Search, Silent
  <2>3. Commit \/ (Search /\ requests # <<>> /\ Wanted)
    BY <1>1 DEF PlannerNext, Submit, TurnAway, TellBusy, DropContext, Configure, Rest, Skip,
                StartNext, SearchAgain, SearchFails, Finished, Stop, Elsewhere, Silent, Finish,
                PInv, Slots, Busy
  <2>4. QED
    BY <2>1, <2>2, <2>3
<1>2. PInv /\ Known /\ [PlannerNext]_allVars =>
        [reply' = "refused" /\ faults' = 0 =>
            \/ world.active[First.plate] # None
            \/ Proposals(world'.spots, plan.required, First.plate) = {}]_allVars
  BY <1>1
<1>3. QED
  BY <1>2, PlannerKnows, PTL DEF PlannerSpec, RefusedForAReason

-----------------------------------------------------------------------------
(***************************************************************************)
(* Part 3.  The life of a reservation: the refinement of ReservationLife.  *)
(* A reservation r goes from the database of the world u to that of v.     *)
(***************************************************************************)

Turns(r, st, u, v)  == v.dbResv[r] = [u.dbResv[r] EXCEPT !.st = st]
Paid(r, kind, u, v) == v.ledger[r] = [u.ledger[r] EXCEPT ![kind] = @ + 1]
Unpaid(r, u, v)     == v.ledger[r] = u.ledger[r]

Ends(r, st, kind, u, v) ==
    /\ u.dbResv[r].st = "Confirmed"
    /\ Turns(r, st, u, v)
    /\ IF u.dbResv[r].charged THEN Paid(r, kind, u, v) ELSE Unpaid(r, u, v)

Untouched(r, u, v) == v.dbResv[r] = u.dbResv[r] /\ Unpaid(r, u, v)

Missed(r, t, u, v) == t > u.dbResv[r].deadline /\ Ends(r, "NoShow", "forfeit", u, v)

Ordered(r, t, u, v) ==
    LET new == v.dbResv[r] IN
    /\ u.dbResv[r].st = "Absent" /\ new.st = "Confirmed"
    /\ new.start \in t + MinLead .. t + MaxAdvance
    /\ u.dbActive[new.plate] = None
    /\ \/ new.charged /\ new.deadline = new.start + Grace /\ Paid(r, "charge", u, v)
       \/ /\ ~new.charged /\ new.deadline = new.start + 2 * Grace
          /\ new.spot \in AccessibleSpots /\ Unpaid(r, u, v)

Arrived(r, t, u, v) ==
    LET row == u.dbResv[r] IN
    /\ row.st = "Confirmed" /\ t <= row.deadline
    /\ u.dbActive[row.plate] = None /\ v.dbActive[row.plate] = row.spot
    /\ Turns(r, "CheckedIn", u, v) /\ Unpaid(r, u, v)

Departed(r, u, v) ==
    LET row == u.dbResv[r] IN
    /\ row.st = "CheckedIn"
    /\ u.dbActive[row.plate] = row.spot /\ v.dbActive[row.plate] = None
    /\ Turns(r, "Completed", u, v) /\ Paid(r, "apply", u, v)

GivenBack(r, t, u, v) == t < u.dbResv[r].start /\ Ends(r, "Cancelled", "refund", u, v)

\* What a call of the service does to r.
Lives(r, t, u, v) ==
    \/ Untouched(r, u, v)   \/ Ordered(r, t, u, v) \/ Arrived(r, t, u, v)
    \/ Departed(r, u, v)    \/ Missed(r, t, u, v)  \/ GivenBack(r, t, u, v)

\* No reservation is touched.
Rests(u, v) == v.dbResv = u.dbResv /\ v.ledger = u.ledger

\* No car moves and reservations are at most missed.
OnlyMissed(t, u, v) ==
    /\ v.dbActive = u.dbActive
    /\ \A r \in ResvIds : Untouched(r, u, v) \/ Missed(r, t, u, v)

LEMMA RestsLives ==
  ASSUME NEW t, NEW u, NEW v, Rests(u, v)
  PROVE  \A r \in ResvIds : Untouched(r, u, v) /\ Lives(r, t, u, v)
BY DEF Rests, Lives, Untouched, Unpaid

\* A database row of a sound world.
LEMMA DbTypes ==
  ASSUME NEW t, NEW w, Good(w, t)
  PROVE  /\ w \in WorldType
         /\ w.resv = w.dbResv /\ w.active = w.dbActive
         /\ w.dbResv \in [ResvIds -> ResvType]
         /\ w.ledger \in [ResvIds -> [PaymentKinds -> Nat]]
         /\ w.dbActive \in [Plates -> Spots \cup {None}]
         /\ \A r \in ResvIds : w.dbResv[r].st # "Absent" =>
              w.dbResv[r].plate \in Plates /\ w.dbResv[r].spot \in Spots
BY DEF Good, MemorySound, Mirrored, DbSound, RowsSound, WorldType

\* Only the row, the receipts and the cars before matter.
LEMMA SameStart ==
  ASSUME NEW t, NEW r, NEW w, NEW u, NEW v,
         u.dbResv[r] = w.dbResv[r], u.ledger[r] = w.ledger[r], u.dbActive = w.dbActive
  PROVE  Lives(r, t, w, v) <=> Lives(r, t, u, v)
<1>1. /\ Untouched(r, w, v) <=> Untouched(r, u, v)
      /\ Ordered(r, t, w, v) <=> Ordered(r, t, u, v)
      /\ Arrived(r, t, w, v) <=> Arrived(r, t, u, v)
      /\ Departed(r, w, v) <=> Departed(r, u, v)
      /\ Missed(r, t, w, v) <=> Missed(r, t, u, v)
      /\ GivenBack(r, t, w, v) <=> GivenBack(r, t, u, v)
  BY Zenon DEF Untouched, Ordered, Arrived, Departed, Missed, GivenBack, Ends, Turns,
               Paid, Unpaid
<1>2. QED
  BY <1>1 DEF Lives

\* What the housekeeping settled no later part of the call touches.
LEMMA LivesAfterMissed ==
  ASSUME NEW t, NEW w, Good(w, t), NEW u, NEW v,
         OnlyMissed(t, w, u),
         \A r \in ResvIds : Lives(r, t, u, v)
  PROVE  \A r \in ResvIds : Lives(r, t, w, v)
<1> SUFFICES ASSUME NEW r \in ResvIds
             PROVE  Lives(r, t, w, v)
  OBVIOUS
<1>1. CASE Untouched(r, w, u)
  <2>1. /\ u.dbResv[r] = w.dbResv[r] /\ u.ledger[r] = w.ledger[r]
        /\ u.dbActive = w.dbActive
    BY <1>1 DEF Untouched, Unpaid, OnlyMissed
  <2>2. QED
    BY <2>1, SameStart
<1>2. CASE Missed(r, t, w, u)
  <2>1. u.dbResv[r] = [w.dbResv[r] EXCEPT !.st = "NoShow"] /\ w.dbResv[r] \in ResvType
    BY <1>2, DbTypes DEF Missed, Ends, Turns
  <2>2. u.dbResv[r].st = "NoShow"
    BY <2>1 DEF ResvType
  <2>3. v.dbResv[r] = u.dbResv[r] /\ v.ledger[r] = u.ledger[r]
    <3>1. Lives(r, t, u, v)
      OBVIOUS
    <3>2. QED
      BY <2>2, <3>1 DEF Lives, Untouched, Unpaid, Ordered, Arrived, Departed, Missed, GivenBack,
                        Ends
  <2>4. Missed(r, t, w, v)
    BY <1>2, <2>3, Zenon DEF Missed, Ends, Turns, Paid, Unpaid
  <2>5. QED
    BY <2>4 DEF Lives
<1>3. QED
  BY <1>1, <1>2 DEF OnlyMissed

LEMMA OnlyMissedTransitive ==
  ASSUME NEW t, NEW w, Good(w, t), NEW u, NEW v,
         OnlyMissed(t, w, u), v.dbActive = u.dbActive, Rests(u, v)
  PROVE  OnlyMissed(t, w, v)
BY Zenon DEF OnlyMissed, Rests, Untouched, Missed, Ends, Turns, Paid, Unpaid

\* A set of Confirmed reservations that ends.
LEMMA MarkedEnd ==
  ASSUME NEW u, NEW v, NEW R \in SUBSET ResvIds, NEW C, NEW st, NEW kind,
         v.dbResv = Marked(u.dbResv, R, st), v.ledger = Booked(u.ledger, C, kind),
         \A r \in R : u.dbResv[r].st = "Confirmed" /\ (r \in C <=> u.dbResv[r].charged),
         C \subseteq R,
         NEW r \in ResvIds
  PROVE  IF r \in R THEN Ends(r, st, kind, u, v) ELSE Untouched(r, u, v)
<1>1. v.dbResv[r] = IF r \in R THEN [u.dbResv[r] EXCEPT !.st = st] ELSE u.dbResv[r]
  BY DEF Marked
<1>2. v.ledger[r] = IF r \in C THEN [u.ledger[r] EXCEPT ![kind] = @ + 1] ELSE u.ledger[r]
  BY DEF Booked
<1>3. QED
  BY <1>1, <1>2, Zenon DEF Ends, Untouched, Turns, Paid, Unpaid

\* The housekeeping.
LEMMA ExpireRests ==
  ASSUME NEW t \in Nat, NEW w, Good(w, t), NEW F
  PROVE  /\ Rests(w, Expire(w, t, F))
         /\ Expire(w, t, F).dbActive = w.dbActive
BY DbTypes DEF Expire, WorldType, Rests

LEMMA RelockRests ==
  ASSUME NEW t \in Nat, NEW w, Good(w, t), NEW F
  PROVE  /\ Rests(w, Relock(w, t, F))
         /\ Relock(w, t, F).dbActive = w.dbActive
BY DbTypes DEF Relock, WorldType, Rests

LEMMA SettleMisses ==
  ASSUME NEW t \in Nat, NEW w, Good(w, t), NEW F
  PROVE  OnlyMissed(t, w, SettleNoShows(w, t, F))
<1> DEFINE R == Settled(w, t, F)
           C == Charged(w, R)
           v == SettleNoShows(w, t, F)
<1>1. w \in WorldType /\ w.resv = w.dbResv
  BY DbTypes
<1>2. /\ v.dbResv = Marked(w.dbResv, R, "NoShow") /\ v.ledger = Booked(w.ledger, C, "forfeit")
      /\ v.dbActive = w.dbActive
  <2> HIDE DEF C, R
  <2>1. QED
    BY <1>1 DEF SettleNoShows, WorldType, C, R
<1>3. /\ R \in SUBSET ResvIds
      /\ \A r \in R : w.dbResv[r].st = "Confirmed" /\ t > w.dbResv[r].deadline
  BY <1>1 DEF Settled, Late
<1>4. C \subseteq R /\ \A r \in R : r \in C <=> w.dbResv[r].charged
  BY <1>1 DEF Charged
<1> HIDE DEF R, C, v
<1>5. ASSUME NEW r \in ResvIds
      PROVE  Untouched(r, w, v) \/ Missed(r, t, w, v)
  <2>1. IF r \in R THEN Ends(r, "NoShow", "forfeit", w, v) ELSE Untouched(r, w, v)
    BY <1>2, <1>3, <1>4, MarkedEnd
  <2>2. QED
    BY <1>3, <2>1 DEF Missed
<1>6. OnlyMissed(t, w, v)
  BY <1>2, <1>5 DEF OnlyMissed
<1>7. QED
  BY <1>6 DEF v

LEMMA SweepMisses ==
  ASSUME NEW t \in Nat, NEW w, Good(w, t), NEW F
  PROVE  OnlyMissed(t, w, Sweep(w, t, F))
<1> DEFINE u == SettleNoShows(w, t, F)
<1>1. Good(u, t) /\ OnlyMissed(t, w, u)
  BY SettleGood, SettleMisses
<1> HIDE DEF u
<1>2. Rests(u, Relock(u, t, F)) /\ Relock(u, t, F).dbActive = u.dbActive
  BY <1>1, RelockRests
<1>3. OnlyMissed(t, w, Relock(u, t, F))
  BY <1>1, <1>2, OnlyMissedTransitive
<1>4. QED
  BY <1>3 DEF Sweep, u

LEMMA TidyMisses ==
  ASSUME NEW t \in Nat, NEW w, Good(w, t), NEW F
  PROVE  LET u == Sweep(Expire(w, t, F), t, F)
         IN  Good(u, t) /\ OnlyMissed(t, w, u)
<1> DEFINE x == Expire(w, t, F)
<1>1. Good(x, t) /\ Rests(w, x) /\ x.dbActive = w.dbActive
  BY ExpireGood, ExpireRests
<1> HIDE DEF x
<1>2. Good(Sweep(x, t, F), t) /\ OnlyMissed(t, x, Sweep(x, t, F))
  BY <1>1, SweepGood, SweepMisses
<1>3. OnlyMissed(t, w, Sweep(x, t, F))
  BY <1>1, <1>2, Zenon
     DEF OnlyMissed, Rests, Untouched, Missed, Ends, Turns, Paid, Unpaid
<1>4. QED
  BY <1>2, <1>3 DEF x

\* The check-in.
LEMMA LockRests ==
  ASSUME NEW t \in Nat, NEW w, Good(w, t), NEW F, NEW r
  PROVE  /\ Rests(w, CheckInLock(w, r, F))
         /\ CheckInLock(w, r, F).dbActive = w.dbActive
<1> DEFINE s == w.resv[r].spot
           h == Held(w.resv[r].plate, w.resv[r].deadline)
           a == [w.spots EXCEPT ![s] = h]
           b == [w.dbSpots EXCEPT ![s] = h]
<1>1. \/ CheckInLock(w, r, F) = w
      \/ CheckInLock(w, r, F) = [w EXCEPT !.spots = a, !.dbSpots = b]
  BY DEF CheckInLock
<1> HIDE DEF a, b
<1>2. w \in WorldType
  BY DbTypes
<1>3. QED
  BY <1>1, <1>2 DEF WorldType, Rests

LEMMA CheckInArrives ==
  ASSUME NEW t \in Nat, NEW w, Good(w, t), NEW F, NEW r \in ResvIds,
         w.resv[r].st = "Confirmed", t <= w.resv[r].deadline
  PROVE  LET c == CheckInSpot(w, r, F)
         IN  /\ \A q \in ResvIds : Lives(q, t, w, c.w)
             /\ ~c.ok => Rests(w, c.w) /\ c.w.dbActive = w.dbActive
<1> DEFINE s == w.resv[r].spot
           p == w.resv[r].plate
           R == {r}
           h == [w.spots EXCEPT ![s] = Held(p, w.resv[r].deadline)]
           a == [w.spots EXCEPT ![s] = Parked(p)]
           b == [w.active EXCEPT ![p] = s]
           c == [w.dbSpots EXCEPT ![s] = Parked(p)]
           d == [w.dbActive EXCEPT ![p] = s]
           f == Marked(w.resv, R, "CheckedIn")
           g == Marked(w.dbResv, R, "CheckedIn")
           undone == [w EXCEPT !.spots = h]
           v == [w EXCEPT !.spots = a, !.active = b, !.dbSpots = c, !.dbActive = d,
                          !.resv = f, !.dbResv = g]
           o == CheckInSpot(w, r, F)
<1>1. \/ o = [ok |-> FALSE, w |-> w]
      \/ o = [ok |-> FALSE, w |-> undone]
      \/ w.dbActive[p] = None /\ o = [ok |-> TRUE, w |-> v]
  BY DEF CheckInSpot
<1>2. /\ w \in WorldType /\ w.resv = w.dbResv /\ s \in Spots /\ p \in Plates
      /\ w.dbActive \in [Plates -> Spots \cup {None}]
  BY DbTypes
<1>3. Rests(w, w) /\ Rests(w, undone) /\ undone.dbActive = w.dbActive
  <2> HIDE DEF h
  <2>1. QED
    BY <1>2 DEF WorldType, Rests
<1>4. ASSUME w.dbActive[p] = None
      PROVE  \A q \in ResvIds : Lives(q, t, w, v)
  <2>1. v.dbResv = g /\ v.dbActive = d /\ v.ledger = w.ledger
    <3> HIDE DEF a, b, c, d, f, g
    <3>1. QED
      BY <1>2 DEF WorldType
  <2> SUFFICES ASSUME NEW q \in ResvIds
               PROVE  Lives(q, t, w, v)
    OBVIOUS
  <2>2. v.dbResv[q] = IF q = r THEN [w.dbResv[q] EXCEPT !.st = "CheckedIn"] ELSE w.dbResv[q]
    <3> HIDE DEF v
    <3>1. QED
      BY <2>1 DEF Marked
  <2>3. v.dbActive[p] = s
    <3> HIDE DEF v, p, s
    <3>1. QED
      BY <1>2, <2>1
  <2> HIDE DEF v
  <2>4. CASE q # r
    BY <2>1, <2>2, <2>4, Zenon DEF Lives, Untouched, Unpaid
  <2>5. CASE q = r
    <3>1. Turns(q, "CheckedIn", w, v) /\ Unpaid(q, w, v)
      BY <2>1, <2>2, <2>5, Zenon DEF Turns, Unpaid
    <3>2. Arrived(q, t, w, v)
      BY <1>2, <1>4, <2>3, <2>5, <3>1 DEF Arrived
    <3>3. QED
      BY <3>2 DEF Lives
  <2>6. QED
    BY <2>4, <2>5
<1> HIDE DEF undone, v, s, p, o
<1>5. /\ \A q \in ResvIds : Lives(q, t, w, o.w)
      /\ ~o.ok => Rests(w, o.w) /\ o.w.dbActive = w.dbActive
  <2>1. CASE o = [ok |-> FALSE, w |-> w] \/ o = [ok |-> FALSE, w |-> undone]
    <3>1. Rests(w, o.w) /\ o.w.dbActive = w.dbActive
      BY <1>3, <2>1
    <3>2. QED
      BY <3>1, RestsLives
  <2>2. CASE w.dbActive[p] = None /\ o = [ok |-> TRUE, w |-> v]
    BY <1>4, <2>2
  <2>3. QED
    BY <1>1, <2>1, <2>2
<1>6. QED
  BY <1>5 DEF o

\* The departure, and a car that takes a spot.
LEMMA LeaveDeparts ==
  ASSUME NEW t \in Nat, NEW w0, Good(w0, t), NEW F, NEW p \in Plates
  PROVE  LET v == LeaveImpl(w0, t, p, F).w
         IN  /\ \A r \in ResvIds : Lives(r, t, w0, v)
             /\ \A q \in Plates : q # p => v.dbActive[q] = w0.dbActive[q]
<1> DEFINE w == Expire(w0, t, F)
           s == w.active[p]
           R == ServedBy(w, p)
           a == [w.spots EXCEPT ![s] = Free]
           b == [w.dbSpots EXCEPT ![s] = Free]
           c == [w.active EXCEPT ![p] = None]
           d == [w.dbActive EXCEPT ![p] = None]
           f == Marked(w.resv, R, "Completed")
           g == Marked(w.dbResv, R, "Completed")
           l == Booked(w.ledger, R, "apply")
           v == [w EXCEPT !.spots = a, !.active = c, !.dbSpots = b, !.dbActive = d,
                          !.resv = f, !.dbResv = g, !.ledger = l]
<1>1. Good(w, t) /\ Rests(w0, w) /\ w.dbActive = w0.dbActive
  BY ExpireGood, ExpireRests
<1>2. \/ LeaveImpl(w0, t, p, F).w = w
      \/ s # None /\ LeaveImpl(w0, t, p, F).w = v
  BY DEF LeaveImpl, Completed
<1> HIDE DEF w
<1>3. /\ w \in WorldType /\ w.resv = w.dbResv /\ w.active = w.dbActive
      /\ w.dbActive \in [Plates -> Spots \cup {None}] /\ CheckedInSound(w)
  BY <1>1, DbTypes DEF Good, DbSound
<1>4. v.dbResv = g /\ v.dbActive = d /\ v.ledger = l
  <2> HIDE DEF a, b, c, d, f, g, l
  <2>1. QED
    BY <1>3 DEF WorldType
<1> HIDE DEF v
<1>5. ASSUME NEW r \in ResvIds
      PROVE  Lives(r, t, w, v)
  <2>1. /\ v.dbResv[r] = IF r \in R THEN [w.dbResv[r] EXCEPT !.st = "Completed"]
                         ELSE w.dbResv[r]
        /\ v.ledger[r] = IF r \in R THEN [w.ledger[r] EXCEPT !["apply"] = @ + 1]
                         ELSE w.ledger[r]
    BY <1>4 DEF Marked, Booked
  <2>2. CASE r \notin R
    BY <2>1, <2>2, Zenon DEF Lives, Untouched, Unpaid
  <2>3. CASE r \in R
    <3>1. w.dbResv[r].st = "CheckedIn" /\ w.dbResv[r].plate = p
      BY <1>3, <2>3 DEF ServedBy
    <3>2. w.dbActive[p] = w.dbResv[r].spot
      BY <1>3, <3>1 DEF CheckedInSound
    <3>3. v.dbActive[p] = None
      BY <1>3, <1>4
    <3>4. Turns(r, "Completed", w, v) /\ Paid(r, "apply", w, v)
      BY <2>1, <2>3, Zenon DEF Turns, Paid
    <3>5. Departed(r, w, v)
      BY <3>1, <3>2, <3>3, <3>4 DEF Departed
    <3>6. QED
      BY <3>5 DEF Lives
  <2>4. QED
    BY <2>2, <2>3
<1>6. \A q \in Plates : q # p => v.dbActive[q] = w.dbActive[q]
  BY <1>3, <1>4
<1>7. ASSUME NEW x, x = w \/ x = v
      PROVE  /\ \A r \in ResvIds : Lives(r, t, w0, x)
             /\ \A q \in Plates : q # p => x.dbActive[q] = w0.dbActive[q]
  <2>1. \A r \in ResvIds : Lives(r, t, w, x)
    BY <1>5, <1>7, RestsLives DEF Rests
  <2>2. \A r \in ResvIds : Lives(r, t, w0, x) <=> Lives(r, t, w, x)
    BY <1>1, SameStart DEF Rests
  <2>3. QED
    BY <1>1, <1>6, <1>7, <2>1, <2>2
<1> HIDE DEF s
<1>8. QED
  BY <1>2, <1>7

LEMMA OccupyRests ==
  ASSUME NEW t \in Nat, NEW w, Good(w, t), NEW F, NEW p, NEW s
  PROVE  LET v == OccupyAndRecord(w, p, s, F)
         IN  /\ Rests(w, v)
             /\ \A q \in Plates : q # p => v.dbActive[q] = w.dbActive[q]
<1> DEFINE a == [w.spots EXCEPT ![s] = Free]
           b == [w.spots EXCEPT ![s] = Parked(p)]
           c == [w.dbSpots EXCEPT ![s] = Parked(p)]
           d == [w.active EXCEPT ![p] = s]
           e == [w.dbActive EXCEPT ![p] = s]
           dropped == [w EXCEPT !.spots = a]
           parked == [w EXCEPT !.spots = b, !.active = d, !.dbSpots = c, !.dbActive = e]
           v == OccupyAndRecord(w, p, s, F)
<1>1. v = dropped \/ v = parked
  BY DEF OccupyAndRecord
<1>2. w \in WorldType /\ w.dbActive \in [Plates -> Spots \cup {None}]
  BY DbTypes
<1>3. /\ dropped.dbActive = w.dbActive /\ parked.dbActive = e
      /\ Rests(w, dropped) /\ Rests(w, parked)
  <2> HIDE DEF a, b, c, d, e
  <2>1. QED
    BY <1>2 DEF WorldType, Rests
<1>4. \A q \in Plates : q # p => e[q] = w.dbActive[q]
  BY <1>2
<1> HIDE DEF v, e, dropped, parked
<1>5. Rests(w, v) /\ \A q \in Plates : q # p => v.dbActive[q] = w.dbActive[q]
  BY <1>1, <1>3, <1>4
<1>6. QED
  BY <1>5 DEF v

\* A car that takes a spot after a part of the call touches no reservation.
LEMMA LivesThenRests ==
  ASSUME NEW t, NEW w, NEW u, NEW v, NEW p,
         \A r \in ResvIds : Lives(r, t, w, u),
         \A r \in ResvIds : Departed(r, w, u) \/ Arrived(r, t, w, u) =>
           w.dbResv[r].plate \in Plates /\ w.dbResv[r].plate # p,
         Rests(u, v), \A q \in Plates : q # p => v.dbActive[q] = u.dbActive[q]
  PROVE  \A r \in ResvIds : Lives(r, t, w, v)
<1> SUFFICES ASSUME NEW r \in ResvIds
             PROVE  Lives(r, t, w, v)
  OBVIOUS
<1>1. v.dbResv[r] = u.dbResv[r] /\ v.ledger[r] = u.ledger[r]
  BY DEF Rests
<1>2. /\ Untouched(r, w, u) => Untouched(r, w, v)
      /\ Ordered(r, t, w, u) => Ordered(r, t, w, v)
      /\ Missed(r, t, w, u) => Missed(r, t, w, v)
      /\ GivenBack(r, t, w, u) => GivenBack(r, t, w, v)
  BY <1>1, Zenon DEF Untouched, Ordered, Missed, GivenBack, Ends, Turns, Paid, Unpaid
<1>3. Arrived(r, t, w, u) => Arrived(r, t, w, v)
  <2>1. Arrived(r, t, w, u) => v.dbActive[w.dbResv[r].plate] = u.dbActive[w.dbResv[r].plate]
    OBVIOUS
  <2>2. QED
    BY <1>1, <2>1, Zenon DEF Arrived, Turns, Unpaid
<1>4. Departed(r, w, u) => Departed(r, w, v)
  <2>1. Departed(r, w, u) => v.dbActive[w.dbResv[r].plate] = u.dbActive[w.dbResv[r].plate]
    OBVIOUS
  <2>2. QED
    BY <1>1, <2>1, Zenon DEF Departed, Turns, Paid
<1>5. QED
  BY <1>2, <1>3, <1>4 DEF Lives

\* A booking.
LEMMA PlaceOrders ==
  ASSUME NEW t \in Nat, NEW w, Good(w, t), NEW F, NEW p \in Plates, NEW acc \in BOOLEAN,
         NEW start \in Nat, NEW s \in Candidates(w, acc), w.nextId \in ResvIds,
         Bookable(w, t, p, start)
  PROVE  \A r \in ResvIds : Lives(r, t, w, Place(w, p, s, acc, start, F))
<1> DEFINE id == w.nextId
           deadline == start + (IF acc THEN 2 * Grace ELSE Grace)
           order == [st |-> "Confirmed", plate |-> p, spot |-> s, start |-> start,
                     deadline |-> deadline, charged |-> ~acc]
           paid == IF acc THEN {} ELSE {id}
           h == Held(p, deadline)
           f(u) == [u.resv EXCEPT ![id] = order]
           g(u) == [u.dbResv EXCEPT ![id] = order]
           l(u) == Booked(u.ledger, paid, "charge")
           drawn == [w EXCEPT !.nextId = @ + 1]
           charged == [drawn EXCEPT !.gateway = Booked(@, paid, "charge")]
           placed == [charged EXCEPT !.resv[id] = order, !.dbResv[id] = order,
                                     !.ledger = Booked(@, paid, "charge")]
           locked == [placed EXCEPT !.spots[s] = h, !.dbSpots[s] = h]
           v == Place(w, p, s, acc, start, F)
<1>1. v \in {drawn, charged, placed, locked}
  BY DEF Place
<1>2. /\ w \in WorldType /\ w.resv = w.dbResv /\ w.active = w.dbActive
      /\ w.dbResv \in [ResvIds -> ResvType] /\ w.dbResv[id].st = "Absent"
  <2>1. w.dbResv[id].st = "Absent"
    <3>1. RowsSound(w) /\ id \in Nat
      BY DEF Good, DbSound, ResvIds
    <3>2. QED
      BY <3>1 DEF RowsSound
  <2>2. QED
    BY <2>1, DbTypes
<1>3. Rests(w, drawn) /\ Rests(w, charged)
  <2> HIDE DEF paid
  <2>1. QED
    BY <1>2 DEF WorldType, Rests
<1>4. ASSUME NEW x, x = placed \/ x = locked
      PROVE  x.dbResv = g(w) /\ x.ledger = l(w)
  <2>1. charged.dbResv = w.dbResv /\ charged.ledger = w.ledger
    BY <1>3 DEF Rests
  <2>2. placed.dbResv = g(charged) /\ placed.ledger = l(charged)
    <3> HIDE DEF paid, order
    <3>1. QED
      BY <1>2 DEF WorldType
  <2>3. locked.dbResv = placed.dbResv /\ locked.ledger = placed.ledger
    <3> HIDE DEF paid, order, h
    <3>1. QED
      BY <1>2 DEF WorldType
  <2> HIDE DEF placed, locked, charged
  <2>4. QED
    BY <1>4, <2>1, <2>2, <2>3
<1>5. ASSUME NEW x, x.dbResv = g(w), x.ledger = l(w), NEW r \in ResvIds
      PROVE  Lives(r, t, w, x)
  <2>1. CASE r # id
    <3>1. x.dbResv[r] = w.dbResv[r] /\ x.ledger[r] = w.ledger[r]
      <4> HIDE DEF order
      <4>1. QED
        BY <1>2, <1>5, <2>1 DEF Booked
    <3>2. QED
      BY <3>1 DEF Lives, Untouched, Unpaid
  <2>2. CASE r = id
    <3>1. x.dbResv[r] = order
      <4> HIDE DEF order
      <4>1. QED
        BY <1>2, <1>5, <2>2
    <3>2. IF acc THEN Unpaid(r, w, x) ELSE Paid(r, "charge", w, x)
      <4>1. x.ledger[r] = IF r \in paid THEN [w.ledger[r] EXCEPT !["charge"] = @ + 1]
                          ELSE w.ledger[r]
        BY <1>5 DEF Booked
      <4>2. r \in paid <=> ~acc
        BY <2>2
      <4>3. QED
        BY <4>1, <4>2, Zenon DEF Paid, Unpaid
    <3>3. /\ x.dbResv[r].st = "Confirmed" /\ x.dbResv[r].plate = p /\ x.dbResv[r].spot = s
          /\ x.dbResv[r].start = start /\ x.dbResv[r].deadline = deadline
          /\ x.dbResv[r].charged = ~acc
      BY <3>1
    <3>4. /\ start \in t + MinLead .. t + MaxAdvance
          /\ w.dbActive[p] = None
          /\ acc => s \in AccessibleSpots
          /\ deadline = IF acc THEN start + 2 * Grace ELSE start + Grace
      BY <1>2, RuleAssumption DEF Bookable, Candidates
    <3>5. w.dbResv[r].st = "Absent"
      BY <1>2, <2>2
    <3> HIDE DEF deadline, order, paid, id
    <3>6. Ordered(r, t, w, x)
      BY <3>2, <3>3, <3>4, <3>5 DEF Ordered
    <3>7. QED
      BY <3>6 DEF Lives
  <2>3. QED
    BY <2>1, <2>2
<1> HIDE DEF drawn, charged, placed, locked, f, g, l
<1>6. CASE v = drawn \/ v = charged
  BY <1>3, <1>6, RestsLives DEF v
<1>7. CASE v = placed \/ v = locked
  BY <1>4, <1>5, <1>7 DEF v
<1>8. QED
  BY <1>1, <1>6, <1>7

LEMMA CreateOrders ==
  ASSUME NEW t \in Nat, NEW w0, Good(w0, t), NEW F, NEW p \in Plates,
         NEW acc \in BOOLEAN, NEW start \in Nat,
         NEW v \in CreateOutcomes(w0, t, p, acc, start, F)
  PROVE  \A r \in ResvIds : Lives(r, t, w0, v)
<1> DEFINE w == Sweep(w0, t, F)
<1>1. Good(w, t) /\ OnlyMissed(t, w0, w)
  BY SweepGood, SweepMisses
<1>2. CASE v = w
  BY <1>1, <1>2 DEF OnlyMissed, Lives
<1>3. CASE v # w
  <2>1. /\ Bookable(w, t, p, start)
        /\ \E s \in Candidates(w, acc) :
             w.nextId \in ResvIds /\ v = Place(w, p, s, acc, start, F)
    BY <1>3 DEF CreateOutcomes
  <2> HIDE DEF w
  <2>2. PICK s \in Candidates(w, acc) :
          w.nextId \in ResvIds /\ v = Place(w, p, s, acc, start, F)
    BY <2>1
  <2>3. \A r \in ResvIds : Lives(r, t, w, v)
    BY <1>1, <2>1, <2>2, PlaceOrders
  <2>4. QED
    BY <1>1, <2>3, LivesAfterMissed
<1>4. QED
  BY <1>2, <1>3

\* A cancellation.
LEMMA CancelGivesBack ==
  ASSUME NEW t \in Nat, NEW w0, Good(w0, t), NEW F, NEW p
  PROVE  \A r \in ResvIds : Lives(r, t, w0, CancelImpl(w0, t, p, F))
<1> DEFINE w == Sweep(w0, t, F)
           mine == {r \in ResvIds : /\ w.resv[r].st = "Confirmed" /\ w.resv[r].plate = p
                                    /\ t < w.resv[r].start}
           r == CHOOSE q \in mine : TRUE
           s == w.resv[r].spot
           holds == HeldBy(w.spots[s], p)
           a == [w.spots EXCEPT ![s] = Free]
           b == [w.dbSpots EXCEPT ![s] = Free]
           freed == [w EXCEPT !.spots[s] = Free, !.dbSpots[s] = Free]
           x == IF holds THEN freed ELSE w
           C == Charged(w, {r})
           refunded == [x EXCEPT !.gateway = Booked(x.gateway, C, "refund")]
           cancelled == [refunded EXCEPT !.resv   = Marked(refunded.resv, {r}, "Cancelled"),
                                         !.dbResv = Marked(refunded.dbResv, {r}, "Cancelled"),
                                         !.ledger = Booked(refunded.ledger, C, "refund")]
           v == CancelImpl(w0, t, p, F)
<1>1. Good(w, t) /\ OnlyMissed(t, w0, w)
  BY SweepGood, SweepMisses
<1>2. \/ v = w
      \/ mine # {} /\ v = refunded
      \/ mine # {} /\ v = cancelled
  BY DEF CancelImpl
<1>3. w \in WorldType /\ w.resv = w.dbResv
  BY <1>1, DbTypes
<1>4. ASSUME mine # {}
      PROVE  r \in ResvIds /\ w.resv[r].st = "Confirmed" /\ t < w.resv[r].start
  <2>1. r \in mine
    BY <1>4
  <2> HIDE DEF w, r
  <2>2. QED
    BY <2>1
<1> HIDE DEF w, mine, r
<1>5. Rests(w, x) /\ x.resv = w.resv /\ x \in WorldType
  <2>1. a \in [Spots -> SpotType] /\ b \in [Spots -> SpotType]
    BY <1>3, RowTypes DEF WorldType
  <2>2. freed \in WorldType /\ Rests(w, freed) /\ freed.resv = w.resv
    <3>1. freed = [w EXCEPT !.spots = a, !.dbSpots = b]
      OBVIOUS
    <3> HIDE DEF a, b, freed
    <3>2. QED
      BY <1>3, <2>1, <3>1 DEF WorldType, Rests
  <2> HIDE DEF freed, holds
  <2>3. QED
    BY <1>3, <2>2 DEF Rests
<1> HIDE DEF x
<1>6. Rests(w, refunded)
  <2> HIDE DEF C
  <2>1. QED
    BY <1>5 DEF WorldType, Rests
<1>7. /\ cancelled.dbResv = Marked(w.dbResv, {r}, "Cancelled")
      /\ cancelled.ledger = Booked(w.ledger, C, "refund")
  <2> HIDE DEF C
  <2>1. QED
    BY <1>5, <1>6 DEF WorldType, Rests
<1> HIDE DEF refunded, cancelled
<1>8. ASSUME mine # {}, NEW q \in ResvIds
      PROVE  Lives(q, t, w, cancelled)
  <2> DEFINE R == {r}
  <2>1. /\ R \in SUBSET ResvIds /\ C \subseteq R
        /\ \A y \in R : w.dbResv[y].st = "Confirmed" /\ (y \in C <=> w.dbResv[y].charged)
    BY <1>3, <1>4, <1>8 DEF Charged
  <2>2. /\ cancelled.dbResv = Marked(w.dbResv, R, "Cancelled")
        /\ cancelled.ledger = Booked(w.ledger, C, "refund")
    BY <1>7
  <2>3. q \in R => t < w.dbResv[q].start
    BY <1>3, <1>4, <1>8
  <2> HIDE DEF R, C
  <2>4. IF q \in R THEN Ends(q, "Cancelled", "refund", w, cancelled)
        ELSE Untouched(q, w, cancelled)
    BY <2>1, <2>2, MarkedEnd
  <2>5. QED
    BY <2>3, <2>4 DEF Lives, GivenBack
<1>9. CASE v = w
  BY <1>1, <1>9 DEF OnlyMissed, Lives
<1>10. CASE v # w
  <2>1. \A q \in ResvIds : Lives(q, t, w, v)
    BY <1>2, <1>6, <1>8, <1>10, RestsLives
  <2> HIDE DEF v
  <2>2. \A q \in ResvIds : Lives(q, t, w0, v)
    BY <1>1, <2>1, LivesAfterMissed
  <2>3. QED
    BY <2>2 DEF v
<1>11. QED
  BY <1>9, <1>10

\* The calls that check in or let a car in.
LEMMA ServedArrives ==
  ASSUME NEW t \in Nat, NEW u, Good(u, t), NEW F, NEW p, Due(u, t, p) # {}
  PROVE  LET c == CheckInSpot(CheckInLock(u, Served(u, t, p), F), Served(u, t, p), F)
         IN  /\ Good(c.w, t)
             /\ \A q \in ResvIds : Lives(q, t, u, c.w)
             /\ ~c.ok => Rests(u, c.w) /\ c.w.dbActive = u.dbActive
<1> DEFINE r == Served(u, t, p)
           v == CheckInLock(u, r, F)
           c == CheckInSpot(v, r, F)
<1>1. r \in ResvIds /\ u.resv[r].st = "Confirmed" /\ t <= u.resv[r].deadline
  BY ServedFacts DEF Due
<1> HIDE DEF r
<1>2. /\ Good(v, t) /\ v.resv = u.resv
      /\ Rests(u, v) /\ v.dbActive = u.dbActive
  BY <1>1, CheckInLockGood, LockRests
<1> HIDE DEF v
<1>3. /\ Good(c.w, t)
      /\ \A q \in ResvIds : Lives(q, t, v, c.w)
      /\ ~c.ok => Rests(v, c.w) /\ c.w.dbActive = v.dbActive
  BY <1>1, <1>2, CheckInSpotGood, CheckInArrives
<1> HIDE DEF c
<1>4. /\ \A q \in ResvIds : Lives(q, t, u, c.w)
      /\ ~c.ok => Rests(u, c.w) /\ c.w.dbActive = u.dbActive
  BY <1>2, <1>3, SameStart DEF Rests
<1>5. QED
  BY <1>3, <1>4 DEF c, v, r

\* What a check-in may do: o is what comes of it when the housekeeping left u.
Serves(o, t, u) ==
    /\ Good(o.w, t)
    /\ \A q \in ResvIds : Lives(q, t, u, o.w)
    /\ ~o.ok => Rests(u, o.w) /\ o.w.dbActive = u.dbActive

LEMMA BothServe ==
  ASSUME NEW t \in Nat, NEW w, Good(w, t), NEW F, NEW p, NEW s
  PROVE  LET u == Sweep(w, t, F)
         IN  Serves(CheckInImpl(w, t, p, F), t, u) /\ Serves(CheckInPrepared(w, t, p, s, F), t, u)
<1> DEFINE u == Sweep(w, t, F)
           r == Served(u, t, p)
           v == CheckInLock(u, r, F)
           c == CheckInSpot(v, r, F)
           refused(x) == [ok |-> FALSE, w |-> x]
<1>1. Good(u, t)
  BY SweepGood
<1>2. /\ CheckInPrepared(w, t, p, s, F) =
           IF Due(u, t, p) = {} THEN refused(u)
           ELSE IF s # u.resv[r].spot THEN refused(v) ELSE c
      /\ CheckInImpl(w, t, p, F) = IF Due(u, t, p) = {} THEN refused(u) ELSE c
  BY BothCheckIns
<1> HIDE DEF u
<1>3. Due(u, t, p) # {} => Serves(c, t, u)
  BY <1>1, ServedArrives DEF Serves
<1>4. ASSUME NEW x, Good(x, t), Rests(u, x), x.dbActive = u.dbActive
      PROVE  Serves(refused(x), t, u)
  BY <1>4, RestsLives DEF Serves
<1>5. Serves(refused(u), t, u)
  BY <1>1, <1>4 DEF Rests
<1>6. Due(u, t, p) # {} => Serves(refused(v), t, u)
  <2>1. ASSUME Due(u, t, p) # {}
        PROVE  Good(v, t) /\ Rests(u, v) /\ v.dbActive = u.dbActive
    <3>1. r \in ResvIds /\ u.resv[r].st = "Confirmed"
      BY <2>1, ServedFacts
    <3> HIDE DEF r
    <3>2. QED
      BY <1>1, <3>1, CheckInLockGood, LockRests
  <2> HIDE DEF v, refused
  <2>2. QED
    BY <1>4, <2>1
<1> HIDE DEF c, v, r, refused
<1>7. QED
  BY <1>2, <1>3, <1>5, <1>6 DEF u

\* A call that checks in, and then may let in a car that was not checked in.
LEMMA LivesThroughEntry ==
  ASSUME NEW t \in Nat, NEW w, Good(w, t), NEW u, OnlyMissed(t, w, u), NEW o,
         Serves(o, t, u), NEW v,
         v = o.w \/ (~o.ok /\ \E p, s, F : v = OccupyAndRecord(o.w, p, s, F))
  PROVE  \A r \in ResvIds : Lives(r, t, w, v)
<1>1. CASE v = o.w
  BY <1>1, LivesAfterMissed DEF Serves
<1>2. CASE ~o.ok /\ \E p, s, F : v = OccupyAndRecord(o.w, p, s, F)
  <2>1. Rests(u, o.w) /\ Good(o.w, t)
    BY <1>2 DEF Serves
  <2>2. Rests(o.w, v)
    BY <1>2, <2>1, OccupyRests
  <2>3. Rests(u, v)
    BY <2>1, <2>2 DEF Rests
  <2>4. QED
    BY <2>3, RestsLives, LivesAfterMissed
<1>3. QED
  BY <1>1, <1>2

LEMMA CheckInLives ==
  ASSUME NEW t \in Nat, NEW w, Good(w, t), NEW F, NEW p
  PROVE  \A r \in ResvIds : Lives(r, t, w, CheckInImpl(w, t, p, F).w)
<1> DEFINE u == Sweep(w, t, F)
           o == CheckInImpl(w, t, p, F)
           v == o.w
<1>1. OnlyMissed(t, w, u) /\ Serves(o, t, u)
  BY SweepMisses, BothServe
<1>2. v = o.w
  OBVIOUS
<1> HIDE DEF u, o, v
<1>3. \A r \in ResvIds : Lives(r, t, w, v)
  BY <1>1, <1>2, LivesThroughEntry
<1>4. QED
  BY <1>3 DEF o, v

LEMMA EnterLives ==
  ASSUME NEW t \in Nat, NEW w, Good(w, t), NEW F, NEW p, NEW v,
         \/ v \in EnterOutcomes(w, t, p, F)
         \/ \E s : v = EnterPrepared(w, t, p, s, F).w
  PROVE  \A r \in ResvIds : Lives(r, t, w, v)
<1> DEFINE x == Expire(w, t, F)
           u == Sweep(x, t, F)
<1>1. Good(x, t)
  BY ExpireGood
<1>2. OnlyMissed(t, w, u)
  BY TidyMisses
<1>3. CASE v \in EnterOutcomes(w, t, p, F)
  <2> DEFINE o == CheckInImpl(x, t, p, F)
  <2>1. Serves(o, t, u)
    <3> HIDE DEF x
    <3>1. QED
      BY <1>1, BothServe
  <2> DEFINE offered ==
               LET own == {s \in Spots : HeldBy(o.w.spots[s], p)}
               IN  IF own # {} THEN own ELSE {s \in Spots : o.w.spots[s].st = "Available"}
  <2>2. v \in IF o.ok \/ o.w.active[p] # None \/ offered = {} THEN {o.w}
              ELSE {OccupyAndRecord(o.w, p, s, F) : s \in offered}
    BY <1>3 DEF EnterOutcomes
  <2> HIDE DEF o, u, offered
  <2>3. v = o.w \/ (~o.ok /\ \E s, G : v = OccupyAndRecord(o.w, p, s, G))
    BY <2>2
  <2>4. QED
    BY <1>2, <2>1, <2>3, LivesThroughEntry
<1>4. CASE \E s : v = EnterPrepared(w, t, p, s, F).w
  <2>1. PICK s : v = EnterPrepared(w, t, p, s, F).w
    BY <1>4
  <2> DEFINE o == CheckInPrepared(x, t, p, s, F)
             n == OccupyAndRecord(o.w, p, s, F)
  <2>2. Serves(o, t, u)
    <3> HIDE DEF x
    <3>1. QED
      BY <1>1, BothServe
  <2>3. EnterPrepared(w, t, p, s, F) =
          IF o.ok THEN o
          ELSE IF MayPark(o, p, s) THEN [ok |-> n.active[p] = s, w |-> n]
          ELSE [ok |-> FALSE, w |-> o.w]
    BY AfterCheckIn
  <2> HIDE DEF o, u, n
  <2>4. v = o.w \/ (~o.ok /\ v = n)
    <3>1. CASE o.ok
      BY <2>1, <2>3, <3>1
    <3>2. CASE ~o.ok /\ MayPark(o, p, s)
      BY <2>1, <2>3, <3>2
    <3>3. CASE ~o.ok /\ ~MayPark(o, p, s)
      BY <2>1, <2>3, <3>3
    <3>4. QED
      BY <3>1, <3>2, <3>3
  <2>5. v = o.w \/ (~o.ok /\ v = OccupyAndRecord(o.w, p, s, F))
    BY <2>4 DEF n
  <2>6. QED
    BY <1>2, <2>2, <2>5, LivesThroughEntry
<1>5. QED
  BY <1>3, <1>4

\* The car that is moved out is not the one that comes in.
LEMMA EmergencyLives ==
  ASSUME NEW t \in Nat, NEW w0, Good(w0, t), NEW F, NEW p \in Plates, NEW evict,
         NEW v \in EmergencyOutcomes(w0, t, p, evict, F)
  PROVE  \A r \in ResvIds : Lives(r, t, w0, v)
<1> DEFINE w == Expire(w0, t, F)
           exit(s) == LeaveImpl(w, t, w.spots[s].by, F)
<1>1. Good(w, t) /\ Rests(w0, w) /\ w.dbActive = w0.dbActive
  BY ExpireGood, ExpireRests
<1>2. \/ v = w
      \/ \E s \in Spots : v = OccupyAndRecord(w, p, s, F)
      \/ \E s \in Spots : /\ w.active[p] = None /\ w.spots[s].st = "Occupied"
                          /\ \/ v = exit(s).w
                             \/ v = OccupyAndRecord(exit(s).w, p, s, F)
  BY DEF EmergencyOutcomes
<1> HIDE DEF w
<1>3. SUFFICES \A r \in ResvIds : Lives(r, t, w, v)
  BY <1>1, SameStart DEF Rests
<1>4. CASE v = w
  BY <1>4, RestsLives DEF Rests
<1>5. CASE \E s \in Spots : v = OccupyAndRecord(w, p, s, F)
  BY <1>1, <1>5, OccupyRests, RestsLives
<1>6. CASE \E s \in Spots : /\ w.active[p] = None /\ w.spots[s].st = "Occupied"
                            /\ \/ v = exit(s).w
                               \/ v = OccupyAndRecord(exit(s).w, p, s, F)
  <2>1. PICK s \in Spots : /\ w.active[p] = None /\ w.spots[s].st = "Occupied"
                           /\ \/ v = exit(s).w
                              \/ v = OccupyAndRecord(exit(s).w, p, s, F)
    BY <1>6
  <2> DEFINE q == w.spots[s].by
             x == LeaveImpl(w, t, q, F).w
  <2>2. q \in Plates /\ w.active[q] = s
    BY <1>1, <2>1, MemoryOccupancy DEF SpotsMatchRecords
  <2>3. q # p
    BY <2>1, <2>2, NoneAssumption
  <2>4. v = x \/ v = OccupyAndRecord(x, p, s, F)
    BY <2>1
  <2> HIDE DEF q
  <2>5. /\ Good(x, t)
        /\ \A r \in ResvIds : Lives(r, t, w, x)
    BY <1>1, <2>2, LeaveGood, LeaveDeparts
  <2>6. ASSUME NEW r \in ResvIds, Departed(r, w, x) \/ Arrived(r, t, w, x)
        PROVE  w.dbResv[r].plate \in Plates /\ w.dbResv[r].plate # p
    <3>1. x.dbActive[p] = w.dbActive[p] /\ w.dbActive[p] = None
      BY <1>1, <2>1, <2>2, <2>3, LeaveDeparts, DbTypes
    <3>2. w.dbResv[r].st # "Absent"
      BY <2>6 DEF Departed, Arrived
    <3>3. w.dbResv[r].plate \in Plates /\ w.dbResv[r].spot \in Spots
      BY <1>1, <3>2, DbTypes
    <3>4. w.dbActive[w.dbResv[r].plate] = w.dbResv[r].spot
          \/ x.dbActive[w.dbResv[r].plate] = w.dbResv[r].spot
      BY <2>6 DEF Departed, Arrived
    <3>5. QED
      BY <3>1, <3>3, <3>4, NoneAssumption
  <2> HIDE DEF x
  <2>7. CASE v = x
    BY <2>5, <2>7
  <2>8. CASE v = OccupyAndRecord(x, p, s, F)
    <3>1. Rests(x, v) /\ \A y \in Plates : y # p => v.dbActive[y] = x.dbActive[y]
      BY <2>5, <2>8, OccupyRests
    <3>2. QED
      BY <2>5, <2>6, <3>1, LivesThenRests
  <2>9. QED
    BY <2>4, <2>7, <2>8
<1>7. QED
  BY <1>2, <1>4, <1>5, <1>6

\* Start-up gives reservations back, and a process that stops touches none.
LEMMA RepairGivesBack ==
  ASSUME NEW t \in Nat, NEW w, Good(w, t), NEW R \in SUBSET Conflicting(w), NEW asked,
         NEW r \in ResvIds
  PROVE  LET v == Repair(w, R, asked)
         IN  Untouched(r, w, v) \/ Ends(r, "Cancelled", "refund", w, v)
<1> DEFINE C == Charged(w, R)
           D == Booked(w.gateway, Charged(w, asked), "refund")
           v == Repair(w, R, asked)
<1>1. w \in WorldType /\ w.resv = w.dbResv
  BY DbTypes
<1>2. /\ v.dbResv = Marked(w.dbResv, R, "Cancelled") /\ v.ledger = Booked(w.ledger, C, "refund")
  <2>1. v = [w EXCEPT !.resv    = Marked(w.resv, R, "Cancelled"),
                      !.dbResv  = Marked(w.dbResv, R, "Cancelled"),
                      !.ledger  = Booked(w.ledger, C, "refund"),
                      !.gateway = D]
    BY DEF Repair
  <2> HIDE DEF C, D, v
  <2>2. QED
    BY <1>1, <2>1 DEF WorldType
<1>3. /\ R \in SUBSET ResvIds /\ C \subseteq R
      /\ \A q \in R : w.dbResv[q].st = "Confirmed" /\ (q \in C <=> w.dbResv[q].charged)
  BY <1>1 DEF Conflicting, Charged
<1> HIDE DEF C, v
<1>4. IF r \in R THEN Ends(r, "Cancelled", "refund", w, v) ELSE Untouched(r, w, v)
  BY <1>2, <1>3, MarkedEnd
<1>5. QED
  BY <1>4 DEF v

LEMMA NoMemoryRests ==
  ASSUME NEW w \in WorldType
  PROVE  Rests(w, NoMemory(w))
<1> DEFINE a == [s \in Spots |-> Free]
           b == [r \in ResvIds |-> Absent]
           c == [p \in Plates |-> None]
<1>1. NoMemory(w) = [w EXCEPT !.spots = a, !.resv = b, !.active = c]
  BY DEF NoMemory
<1> HIDE DEF a, b, c
<1>2. QED
  BY <1>1 DEF WorldType, Rests

\* What the service does while it runs.
LEMMA CallLives ==
  ASSUME IInv, up, NEW F, NEW p \in Plates,
         \/ \E acc \in BOOLEAN, start \in Starts :
              world' \in CreateOutcomes(world, now, p, acc, start, F)
         \/ world' = CancelImpl(world, now, p, F)
         \/ world' = CheckInImpl(world, now, p, F).w
         \/ world' \in EnterOutcomes(world, now, p, F)
         \/ \E s : world' = EnterPrepared(world, now, p, s, F).w
         \/ world' = LeaveImpl(world, now, p, F).w
         \/ \E evict : world' \in EmergencyOutcomes(world, now, p, evict, F)
  PROVE  \A r \in ResvIds : Lives(r, now, world, world')
<1>1. Good(world, now) /\ now \in Nat
  BY UpGood
<1>2. CASE \E acc \in BOOLEAN, start \in Starts :
             world' \in CreateOutcomes(world, now, p, acc, start, F)
  BY <1>1, <1>2, CreateOrders, StartAssumption
<1>3. CASE world' = CancelImpl(world, now, p, F)
  BY <1>1, <1>3, CancelGivesBack
<1>4. CASE world' = CheckInImpl(world, now, p, F).w
  BY <1>1, <1>4, CheckInLives
<1>5. CASE \/ world' \in EnterOutcomes(world, now, p, F)
           \/ \E s : world' = EnterPrepared(world, now, p, s, F).w
  BY <1>1, <1>5, EnterLives
<1>6. CASE world' = LeaveImpl(world, now, p, F).w
  BY <1>1, <1>6, LeaveDeparts
<1>7. CASE \E evict : world' \in EmergencyOutcomes(world, now, p, evict, F)
  BY <1>1, <1>7, EmergencyLives
<1>8. QED
  BY <1>2, <1>3, <1>4, <1>5, <1>6, <1>7

LEMMA LivesHop ==
  ASSUME NEW r \in ResvIds, OneOpen(world'.dbResv),
         \/ Lives(r, now, world, world')
         \/ ~up /\ Ends(r, "Cancelled", "refund", world, world')
  PROVE  Life!Hop(r)
<1>1. CASE Untouched(r, world, world')
  BY <1>1 DEF Untouched, Unpaid, Life!Hop, Life!Stay, Life!NoReceipt
<1>2. CASE Ordered(r, now, world, world')
  <2>1. \A q \in ResvIds \ {r} : Life!Open(world'.dbResv[q]) =>
          /\ world'.dbResv[q].plate # world'.dbResv[r].plate
          /\ world'.dbResv[q].spot # world'.dbResv[r].spot
    BY <1>2 DEF Life!Open, OneOpen, Open, Ordered
  <2>2. Life!Book(r)
    BY <1>2, <2>1 DEF Ordered, Paid, Unpaid, Life!Book, Life!Receipt, Life!NoReceipt
  <2>3. QED
    BY <2>2 DEF Life!Hop
<1>3. CASE Arrived(r, now, world, world')
  BY <1>3 DEF Arrived, Turns, Unpaid, Life!Hop, Life!Arrive, Life!Becomes, Life!NoReceipt
<1>4. CASE Departed(r, world, world')
  BY <1>4 DEF Departed, Turns, Paid, Life!Hop, Life!Depart, Life!Becomes, Life!Receipt
<1>5. CASE Missed(r, now, world, world')
  BY <1>5 DEF Missed, Ends, Turns, Paid, Unpaid, Life!Hop, Life!Miss, Life!Becomes,
              Life!Settle, Life!Receipt, Life!NoReceipt
<1>6. ASSUME now < world.dbResv[r].start \/ ~up,
             Ends(r, "Cancelled", "refund", world, world')
      PROVE  Life!Hop(r)
  BY <1>6 DEF Ends, Turns, Paid, Unpaid, Life!Hop, Life!Withdraw, Life!Becomes,
              Life!Settle, Life!Receipt, Life!NoReceipt
<1>7. QED
  BY <1>1, <1>2, <1>3, <1>4, <1>5, <1>6 DEF Lives, GivenBack

LEMMA AllHop ==
  ASSUME DbSound(world)', now' = now, \A r \in ResvIds : Lives(r, now, world, world')
  PROVE  Life!Next
<1>1. OneOpen(world'.dbResv)
  BY DEF DbSound
<1>2. \A r \in ResvIds : Life!Hop(r)
  BY <1>1, LivesHop
<1>3. QED
  BY <1>2 DEF Life!Next

\* Every step of the service, its callers, the clock and the process.
LEMMA StepKeepsPromise ==
  ASSUME IInv, [Next]_vars
  PROVE  [Life!Next]_(Life!vars)
<1>1. DbSound(world)'
  BY StepGood DEF IInv
<1>2. world \in WorldType /\ now \in Nat
  BY BoundAssumption DEF IInv, TypeOK
<1>3. CASE Tick
  BY <1>3 DEF Tick, Life!Next, Life!vars
<1>4. ASSUME NEW p \in Plates, NEW acc \in BOOLEAN, NEW start \in Starts,
             Create(p, acc, start)
      PROVE  Life!Next
  BY <1>1, <1>4, CallLives, AllHop DEF Create, Become
<1>5. ASSUME NEW p \in Plates,
             Cancel(p) \/ CheckIn(p) \/ Enter(p) \/ Leave(p)
      PROVE  Life!Next
  <2>1. up /\ now' = now
    BY <1>5 DEF Cancel, CheckIn, Enter, Leave, Become
  <2>2. \E F : \/ world' = CancelImpl(world, now, p, F)
               \/ world' = CheckInImpl(world, now, p, F).w
               \/ world' \in EnterOutcomes(world, now, p, F)
               \/ world' = LeaveImpl(world, now, p, F).w
    BY <1>5 DEF Cancel, CheckIn, Enter, Leave, Become
  <2>3. QED
    BY <1>1, <2>1, <2>2, CallLives, AllHop
<1>6. ASSUME NEW p \in Plates, NEW evict \in BOOLEAN, EmergencyEnter(p, evict)
      PROVE  Life!Next
  <2>1. up /\ now' = now
        /\ \E F : world' \in EmergencyOutcomes(world, now, p, evict, F)
    BY <1>6 DEF EmergencyEnter, Become
  <2>2. QED
    BY <1>1, <2>1, CallLives, AllHop
<1>7. CASE Housekeep
  <2>1. up /\ now' = now /\ \E F : world' = Sweep(Expire(world, now, F), now, F)
    BY <1>7 DEF Housekeep, Become
  <2>2. OnlyMissed(now, world, world')
    BY <2>1, UpGood, TidyMisses
  <2>3. QED
    BY <1>1, <2>1, <2>2, AllHop DEF OnlyMissed, Lives
<1>8. CASE Crash
  BY <1>1, <1>2, <1>8, NoMemoryRests, RestsLives, AllHop DEF Crash
<1>9. CASE Restart \/ RestartFails
  <2> DEFINE w == Loaded(world)
  <2>1. Good(w, now) /\ Rests(world, w) /\ w.dbActive = world.dbActive
    <3>1. ~up /\ RestoreAccepts(world)
      BY <1>9 DEF Restart, RestartFails
    <3>2. Rests(world, w) /\ w.dbActive = world.dbActive
      BY <1>2 DEF Loaded, WorldType, Rests
    <3>3. QED
      BY <1>2, <3>1, <3>2, LoadedGood DEF RestoreAccepts, IInv
  <2>2. \E R \in SUBSET Conflicting(w), asked \in SUBSET Conflicting(w) :
          LET v == Repair(w, R, asked) IN world' = v \/ world' = NoMemory(v)
    BY <1>9 DEF Restart, RestartFails
  <2> HIDE DEF w
  <2>3. PICK R \in SUBSET Conflicting(w), asked \in SUBSET Conflicting(w) :
          LET v == Repair(w, R, asked) IN world' = v \/ world' = NoMemory(v)
    BY <2>2
  <2> DEFINE v == Repair(w, R, asked)
  <2>4. /\ v \in WorldType
        /\ \A r \in ResvIds : Untouched(r, w, v) \/ Ends(r, "Cancelled", "refund", w, v)
    BY <2>1, <1>2, RepairGood, RepairGivesBack DEF Good
  <2>5. world' = v \/ world' = NoMemory(v)
    BY <2>3
  <2> HIDE DEF v
  <2>6. Rests(v, world')
    BY <2>4, <2>5, NoMemoryRests DEF Rests
  <2>7. ASSUME NEW r \in ResvIds
        PROVE  Untouched(r, world, world') \/ Ends(r, "Cancelled", "refund", world, world')
    <3>1. /\ w.dbResv[r] = world.dbResv[r] /\ w.ledger[r] = world.ledger[r]
          /\ world'.dbResv[r] = v.dbResv[r] /\ world'.ledger[r] = v.ledger[r]
      BY <2>1, <2>6 DEF Rests
    <3>2. Untouched(r, w, v) \/ Ends(r, "Cancelled", "refund", w, v)
      BY <2>4
    <3>3. QED
      BY <3>1, <3>2, Zenon DEF Untouched, Ends, Turns, Paid, Unpaid
  <2>8. ~up /\ now' = now
    BY <1>9 DEF Restart, RestartFails
  <2>9. \A r \in ResvIds : Life!Hop(r)
    BY <1>1, <2>7, <2>8, LivesHop DEF Lives, DbSound
  <2>10. QED
    BY <2>8, <2>9 DEF Life!Next
<1>10. CASE UNCHANGED vars
  BY <1>10 DEF vars, Life!vars
<1>11. QED
  BY <1>3, <1>4, <1>5, <1>6, <1>7, <1>8, <1>9, <1>10 DEF Next, Calls

LEMMA PromiseStarts ==
  ASSUME Init
  PROVE  Life!Init
BY DEF Init, Life!Init, Absent, NoPayments, PaymentKinds

\* Whatever fails in the calls and whenever the process stops, every reservation is booked
\* once and ends once, at its time and with its receipt: ParkingCore implements
\* ReservationLife.
THEOREM ReservationsKeepPromise == Spec => KeepsPromise
<1>1. Init => Life!Init
  BY PromiseStarts
<1>2. IInv /\ [Next]_vars => [Life!Next]_(Life!vars)
  BY StepKeepsPromise
<1>3. QED
  BY <1>1, <1>2, Inductive, PTL DEF Spec, KeepsPromise, Life!Spec

\* So does the service together with the asynchronous planner.
THEOREM PlannerKeepsPromise == PlannerSpec => KeepsPromise
<1>1. PlannerInit => Life!Init
  BY PromiseStarts DEF PlannerInit
<1>2. PInv /\ [PlannerNext]_allVars => [Life!Next]_(Life!vars)
  <2> SUFFICES ASSUME PInv, [PlannerNext]_allVars
               PROVE  [Life!Next]_(Life!vars)
    OBVIOUS
  <2>1. CASE Commit
    <3>1. /\ up /\ now' = now
          /\ \E F : world' = EnterPrepared(world, now, First.plate, plan.proposal, F).w
      BY <2>1 DEF Commit, Become, PInv, Slots, Busy
    <3>2. First.plate \in Plates
      BY <2>1, CommitSound
    <3>3. IInv /\ DbSound(world)'
      BY PlannerStep DEF PInv, IInv
    <3>4. QED
      BY <3>1, <3>2, <3>3, CallLives, AllHop
  <2>2. CASE [Next]_vars
    BY <2>2, StepKeepsPromise DEF PInv
  <2>3. Commit \/ [Next]_vars
    BY DEF PlannerNext, Submit, TurnAway, TellBusy, DropContext, Configure, Rest, Skip,
           StartNext, SearchAgain, Search, SearchFails, Finished, Stop, Elsewhere, vars,
           allVars, plannerVars, Next, Calls
  <2>4. QED
    BY <2>1, <2>2, <2>3
<1>3. QED
  BY <1>1, <1>2, PlannerInductive, PTL DEF PlannerSpec, KeepsPromise, Life!Spec
=============================================================================
