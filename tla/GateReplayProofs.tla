-------------------------- MODULE GateReplayProofs --------------------------
(***************************************************************************)
(* Proofs about GateReplay, for any gates, plates, capacity, batch size    *)
(* and number of events, faults and torn lines.                            *)
(*                                                                         *)
(* The server: a batch is a recursive function over its events; that the   *)
(* function exists, and that every batch keeps the records sound, is       *)
(* proved by the least event at which it would fail.                       *)
(*                                                                         *)
(* The gates: the invariant is stated of one gate (LinkSound, of its       *)
(* requests and answers; GateSound, of its file and of what was judged).   *)
(* A step of a gate leaves the others alone (LinkAside, SoundAside); there *)
(* is one lemma for each step at its own gate.                             *)
(***************************************************************************)
EXTENDS GateReplay, SequenceTheorems, WellFoundedInduction, TLAPS

-----------------------------------------------------------------------------
(***************************************************************************)
(* The server: what a batch does to the records.                           *)
(***************************************************************************)
ParkingRecord == [plate : Plates, in : 1 .. MaxEvents, out : 0 .. MaxEvents]

\* A vehicle is inside at most once; no two records have the same entry or exit.
RecordsSound(recs) ==
    /\ recs \in Seq(ParkingRecord)
    /\ \A i, j \in DOMAIN recs :
         i # j /\ recs[i].plate = recs[j].plate =>
            /\ recs[i].in # recs[j].in
            /\ recs[i].out # recs[j].out

\* An event changes nothing, or adds the record of an entry, or ends the stay of the
\* records its exit finds open.
LEMMA ApplyCases ==
  ASSUME NEW recs, NEW e
  PROVE  \/ Apply(recs, e) = recs
         \/ /\ SameRecord(recs, e) = {} /\ Active(recs, e.plate) = {} /\ e.kind = "enter"
            /\ Apply(recs, e) = Append(recs, [plate |-> e.plate, in |-> e.ts, out |-> 0])
         \/ /\ SameRecord(recs, e) = {} /\ e.kind # "enter"
            /\ Apply(recs, e) =
                 [i \in DOMAIN recs |->
                    IF i \in Active(recs, e.plate) /\ recs[i].in <= e.ts
                    THEN [recs[i] EXCEPT !.out = e.ts] ELSE recs[i]]
BY DEF Apply

LEMMA EndOfStay ==
  ASSUME NEW r \in ParkingRecord, NEW t \in 1 .. MaxEvents
  PROVE  /\ [r EXCEPT !.out = t] \in ParkingRecord
         /\ [r EXCEPT !.out = t].plate = r.plate
         /\ [r EXCEPT !.out = t].in = r.in
         /\ [r EXCEPT !.out = t].out = t
BY BoundAssumption DEF ParkingRecord

LEMMA ApplySound ==
  ASSUME NEW recs, RecordsSound(recs), NEW e \in Events
  PROVE  RecordsSound(Apply(recs, e))
<1>0. recs \in Seq(ParkingRecord) /\ e.plate \in Plates /\ e.ts \in 1 .. MaxEvents
  BY DEF RecordsSound, Events
<1>1. CASE Apply(recs, e) = recs
  BY <1>1
<1>2. CASE /\ SameRecord(recs, e) = {} /\ Active(recs, e.plate) = {} /\ e.kind = "enter"
           /\ Apply(recs, e) = Append(recs, [plate |-> e.plate, in |-> e.ts, out |-> 0])
  <2> DEFINE new == [plate |-> e.plate, in |-> e.ts, out |-> 0]
  <2>1. new \in ParkingRecord
    BY <1>0, BoundAssumption DEF ParkingRecord
  <2>2. Apply(recs, e) \in Seq(ParkingRecord) /\ DOMAIN Apply(recs, e) = 1 .. Len(recs) + 1
        /\ Apply(recs, e)[Len(recs) + 1] = new
        /\ \A i \in 1 .. Len(recs) : Apply(recs, e)[i] = recs[i]
    BY <1>0, <1>2, <2>1, AppendProperties, LenProperties
  <2>3. \A i \in 1 .. Len(recs) : recs[i].plate = e.plate => recs[i].in # e.ts /\ recs[i].out # 0
    BY <1>0, <1>2, LenProperties DEF SameRecord, Active, Inside
  <2>4. QED
    BY <1>0, <2>2, <2>3, LenProperties DEF RecordsSound
<1>3. CASE /\ SameRecord(recs, e) = {} /\ e.kind # "enter"
           /\ Apply(recs, e) =
                [i \in DOMAIN recs |->
                   IF i \in Active(recs, e.plate) /\ recs[i].in <= e.ts
                   THEN [recs[i] EXCEPT !.out = e.ts] ELSE recs[i]]
  <2>0. DOMAIN recs = 1 .. Len(recs) /\ Len(recs) \in Nat
    BY <1>0, LenProperties
  <2>1. \A i \in DOMAIN recs :
          /\ recs[i] \in ParkingRecord
          /\ Apply(recs, e)[i] \in ParkingRecord
          /\ Apply(recs, e)[i].plate = recs[i].plate
          /\ Apply(recs, e)[i].in = recs[i].in
          /\ \/ Apply(recs, e)[i].out = recs[i].out
             \/ /\ Apply(recs, e)[i].out = e.ts
                /\ recs[i].out = 0 /\ recs[i].plate = e.plate
    <3> SUFFICES ASSUME NEW i \in DOMAIN recs
                 PROVE  /\ recs[i] \in ParkingRecord
                        /\ Apply(recs, e)[i] \in ParkingRecord
                        /\ Apply(recs, e)[i].plate = recs[i].plate
                        /\ Apply(recs, e)[i].in = recs[i].in
                        /\ \/ Apply(recs, e)[i].out = recs[i].out
                           \/ /\ Apply(recs, e)[i].out = e.ts
                              /\ recs[i].out = 0 /\ recs[i].plate = e.plate
      OBVIOUS
    <3>1. recs[i] \in ParkingRecord
      BY <1>0, <2>0, ElementOfSeq
    <3>2. CASE i \in Active(recs, e.plate) /\ recs[i].in <= e.ts
      <4>1. Apply(recs, e)[i] = [recs[i] EXCEPT !.out = e.ts]
        BY <1>3, <3>2
      <4>2. recs[i].out = 0 /\ recs[i].plate = e.plate
        BY <3>2 DEF Active, Inside
      <4>3. PICK r \in ParkingRecord : r = recs[i]
        BY <3>1
      <4>4. QED
        BY <1>0, <4>1, <4>2, <4>3, EndOfStay
    <3>3. CASE ~(i \in Active(recs, e.plate) /\ recs[i].in <= e.ts)
      BY <1>3, <3>1, <3>3
    <3>4. QED
      BY <3>2, <3>3
  <2>2. Apply(recs, e) \in Seq(ParkingRecord) /\ DOMAIN Apply(recs, e) = DOMAIN recs
    BY <1>3, <2>0, <2>1
  <2>3. \A i \in DOMAIN recs : recs[i].plate = e.plate => recs[i].out # e.ts
    BY <1>3 DEF SameRecord
  <2>4. QED
    BY <1>0, <2>1, <2>2, <2>3 DEF RecordsSound
<1>4. QED
  BY <1>1, <1>2, <1>3, ApplyCases

LEMMA Least ==
  ASSUME NEW S \in SUBSET Nat, S # {}
  PROVE  \E m \in S : \A x \in S : m <= x
<1>1. PICK m \in S : \A x \in S : ~(<<x, m>> \in OpToRel(<, Nat))
  BY NatLessThanWellFounded, WFMin
<1>2. \A x \in S : ~(x < m)
  BY <1>1 DEF OpToRel
<1>3. QED
  BY <1>2

\* The records after each event of a batch, up to event n.
Steps(f, recs, batch, n) ==
    f = [i \in 0 .. n |-> IF i = 0 THEN recs ELSE Apply(f[i - 1], batch[i])]

LEMMA StepsExist ==
  ASSUME NEW recs, NEW batch, NEW len \in Nat
  PROVE  \E f : Steps(f, recs, batch, len)
<1> DEFINE S == {n \in Nat : ~ \E f : Steps(f, recs, batch, n)}
<1>1. SUFFICES ASSUME S # {} PROVE FALSE
  OBVIOUS
<1>2. PICK n \in S : \A x \in S : n <= x
  BY <1>1, Least
<1>3. CASE n = 0
  <2> DEFINE f == [i \in 0 .. 0 |-> recs]
  <2>1. Steps(f, recs, batch, 0)
    BY DEF Steps
  <2>2. QED
    BY <1>2, <1>3, <2>1
<1>4. CASE n # 0
  <2>1. n - 1 \in Nat /\ n - 1 \notin S
    BY <1>2, <1>4
  <2>2. PICK f : Steps(f, recs, batch, n - 1)
    BY <2>1
  <2> DEFINE g == [i \in 0 .. n |-> IF i = n THEN Apply(f[n - 1], batch[n]) ELSE f[i]]
  <2>3. f = [i \in 0 .. n - 1 |-> IF i = 0 THEN recs ELSE Apply(f[i - 1], batch[i])]
    BY <2>2 DEF Steps
  <2>4. \A i \in 0 .. n : g[i] = IF i = 0 THEN recs ELSE Apply(g[i - 1], batch[i])
    <3> SUFFICES ASSUME NEW i \in 0 .. n
                 PROVE  g[i] = IF i = 0 THEN recs ELSE Apply(g[i - 1], batch[i])
      OBVIOUS
    <3>1. CASE i = n
      <4>1. g[n - 1] = f[n - 1]
        BY <2>1
      <4>2. QED
        BY <3>1, <4>1, <1>4, <2>1
    <3>2. CASE i # n
      <4>1. i \in 0 .. n - 1 /\ g[i] = f[i] /\ (i # 0 => g[i - 1] = f[i - 1])
        BY <3>2, <2>1
      <4>2. f[i] = IF i = 0 THEN recs ELSE Apply(f[i - 1], batch[i])
        BY <4>1, <2>3
      <4>3. QED
        BY <4>1, <4>2
    <3>3. QED
      BY <3>1, <3>2
  <2>5. g = [i \in 0 .. n |-> IF i = 0 THEN recs ELSE Apply(g[i - 1], batch[i])]
    BY <2>4
  <2>6. Steps(g, recs, batch, n)
    BY <2>5 DEF Steps
  <2>7. QED
    BY <1>2, <2>6
<1>5. QED
  BY <1>3, <1>4

LEMMA ReplayedSteps ==
  ASSUME NEW recs, NEW batch, Len(batch) \in Nat
  PROVE  Steps(Replayed(recs, batch), recs, batch, Len(batch))
BY StepsExist DEF Steps, Replayed

\* A batch keeps the records sound.
LEMMA ReplaySound ==
  ASSUME NEW recs, RecordsSound(recs), NEW batch \in Seq(Events)
  PROVE  RecordsSound(Replay(recs, batch))
<1> DEFINE f == Replayed(recs, batch)
           S == {n \in Nat : n <= Len(batch) /\ ~RecordsSound(f[n])}
<1>0. Len(batch) \in Nat
  BY LenProperties
<1>a. Steps(f, recs, batch, Len(batch))
  BY <1>0, ReplayedSteps
<1> HIDE DEF f
<1>1. SUFFICES ASSUME S # {} PROVE FALSE
  BY <1>0 DEF Replay, f
<1>2. PICK n \in S : \A x \in S : n <= x
  BY <1>1, Least
<1>3. \A i \in 0 .. Len(batch) : f[i] = IF i = 0 THEN recs ELSE Apply(f[i - 1], batch[i])
  BY <1>a DEF Steps
<1>4. n # 0
  BY <1>0, <1>2, <1>3
<1>5. n - 1 \in Nat /\ RecordsSound(f[n - 1])
  BY <1>0, <1>2, <1>4
<1>6. batch[n] \in Events
  BY <1>0, <1>2, <1>4, ElementOfSeq
<1>7. f[n] = Apply(f[n - 1], batch[n])
  BY <1>0, <1>2, <1>3, <1>4
<1>8. QED
  BY <1>2, <1>5, <1>6, <1>7, ApplySound

-----------------------------------------------------------------------------
(***************************************************************************)
(* The queue file: what its operations do to the lines.                    *)
(***************************************************************************)
Lesser(a, b) == IF a < b THEN a ELSE b

\* The line of the event is the last; before it are the lines that were there, but one
\* that ended in the middle.
LEMMA AppendedLines ==
  ASSUME NEW q \in Seq(Lines), NEW e \in Events
  PROVE  LET a == Appended(q, e)
         IN  /\ a \in Seq(Lines)
             /\ Len(a) \in {Len(q), Len(q) + 1} /\ Len(a) > 0
             /\ a[Len(a)].event = e /\ a[Len(a)].is # "torn"
             /\ \A i \in 1 .. Len(a) - 1 : a[i] = q[i] /\ (i = Len(q) => q[i].is # "torn")
             /\ Len(a) = Len(q) => q[Len(q)].is = "torn"
<1>0. Len(q) \in Nat
  BY LenProperties
<1>1. [event |-> e, is |-> "good"] \in Lines /\ [event |-> e, is |-> "bad"] \in Lines
  BY DEF Lines
<1>2. CASE q # <<>> /\ Last(q).is = "torn"
  <2>0. Len(q) > 0
    BY <1>2, EmptySeq
  <2>1. Front(q) = SubSeq(q, 1, Len(q) - 1) /\ Last(q) = q[Len(q)]
    BY DEF Front, Last
  <2>2. \A i \in 1 .. Len(q) - 1 : q[i] \in Lines
    BY <1>0, ElementOfSeq
  <2>3. /\ Front(q) \in Seq(Lines) /\ Len(Front(q)) = Len(q) - 1
        /\ \A i \in 1 .. Len(q) - 1 : Front(q)[i] = q[i]
    <3>1. PICK n \in Nat : n = Len(q) - 1
      BY <1>0, <2>0
    <3>2. \A i \in 1 .. n : q[i] \in Lines
      BY <2>2, <3>1
    <3>3. /\ SubSeq(q, 1, n) \in Seq(Lines)
          /\ Len(SubSeq(q, 1, n)) = IF 1 <= n THEN n - 1 + 1 ELSE 0
          /\ \A i \in 1 .. n - 1 + 1 : SubSeq(q, 1, n)[i] = q[1 + i - 1]
      BY <3>2, SubSeqProperties
    <3>4. QED
      BY <2>1, <3>1, <3>3
  <2>4. Appended(q, e) = Append(Front(q), [event |-> e, is |-> "bad"])
    BY <1>2 DEF Appended
  <2>5. QED
    BY <1>0, <1>1, <1>2, <2>0, <2>1, <2>3, <2>4, AppendProperties
<1>3. CASE ~(q # <<>> /\ Last(q).is = "torn")
  <2>1. Appended(q, e) = Append(q, [event |-> e, is |-> "good"])
    BY <1>3 DEF Appended
  <2>2. Len(q) # 0 => q[Len(q)].is # "torn"
    BY <1>3, EmptySeq DEF Last
  <2>3. QED
    BY <1>0, <1>1, <2>1, <2>2, AppendProperties
<1>4. QED
  BY <1>2, <1>3

\* A part of a line joins the line that ended in the middle, or is a line of its own.
LEMMA BrokenLines ==
  ASSUME NEW q \in Seq(Lines), NEW e \in Events
  PROVE  LET b == Broken(q, e)
         IN  \/ b = q
             \/ /\ b \in Seq(Lines) /\ Len(b) = Len(q) + 1
                /\ b[Len(b)] = [event |-> e, is |-> "torn"]
                /\ \A i \in 1 .. Len(q) : b[i] = q[i]
                /\ q # <<>> => q[Len(q)].is # "torn"
<1>1. [event |-> e, is |-> "torn"] \in Lines
  BY DEF Lines
<1>2. CASE q # <<>> /\ Last(q).is = "torn"
  BY <1>2 DEF Broken
<1>3. CASE ~(q # <<>> /\ Last(q).is = "torn")
  <2>1. Broken(q, e) = Append(q, [event |-> e, is |-> "torn"])
    BY <1>3 DEF Broken
  <2>2. Last(q) = q[Len(q)]
    BY DEF Last
  <2>3. QED
    BY <1>1, <1>3, <2>1, <2>2, AppendProperties, LenProperties
<1>4. QED
  BY <1>2, <1>3

\* A batch is made of the first lines, all of which are good.
LEMMA PendingLines ==
  ASSUME NEW q \in Seq(Lines)
  PROVE  LET b == Pending(q)
         IN  /\ b \in Seq(Events)
             /\ b # <<>> =>
                  /\ Len(b) = Lesser(Len(q), BatchLimit) /\ Len(b) > 0
                  /\ \A i \in 1 .. Len(b) : q[i].is = "good" /\ q[i].event = b[i]
<1> DEFINE n == Lesser(Len(q), BatchLimit)
           head == SubSeq(q, 1, n)
<1>0. Len(q) \in Nat /\ BatchLimit \in Nat \ {0} /\ n \in 0 .. Len(q)
  BY LenProperties, LimitAssumption DEF Lesser
<1>1. Pending(q) = IF \A i \in DOMAIN head : head[i].is = "good"
                   THEN [i \in DOMAIN head |-> head[i].event] ELSE <<>>
  BY DEF Pending, Lesser
<1> HIDE DEF n
<1>2. \A i \in 1 .. n : q[i] \in Lines
  BY <1>0, ElementOfSeq
<1>3. /\ head \in Seq(Lines) /\ Len(head) = n
      /\ \A i \in 1 .. n : head[i] = q[i]
  BY <1>0, <1>2, SubSeqProperties
<1> HIDE DEF head
<1>4. DOMAIN head = 1 .. n
  BY <1>3, LenProperties
<1>5. CASE \A i \in DOMAIN head : head[i].is = "good"
  <2>1. Pending(q) = [i \in 1 .. n |-> q[i].event]
    BY <1>1, <1>3, <1>4, <1>5
  <2>2. \A i \in 1 .. n : q[i].event \in Events
    BY <1>2 DEF Lines
  <2>3. Pending(q) \in Seq(Events) /\ Len(Pending(q)) = n
    BY <1>0, <2>1, <2>2
  <2>4. n = 0 => Pending(q) = <<>>
    BY <2>3, EmptySeq
  <2>5. QED
    BY <1>0, <1>3, <1>4, <1>5, <2>1, <2>3, <2>4 DEF n
<1>6. CASE ~ \A i \in DOMAIN head : head[i].is = "good"
  BY <1>1, <1>6
<1>7. QED
  BY <1>5, <1>6

\* What is left is the same lines in the same order; the one that ended in the middle is
\* complete now, and no event.
LEMMA RestLines ==
  ASSUME NEW q \in Seq(Lines), NEW n \in Nat, n <= Len(q)
  PROVE  LET r == Rest(q, n)
         IN  /\ r \in Seq(Lines) /\ Len(r) = Len(q) - n
             /\ \A i \in 1 .. Len(r) :
                  /\ r[i].event = q[n + i].event /\ r[i].is # "torn"
                  /\ r[i].is = "good" => q[n + i].is = "good"
<1> DEFINE r == Rest(q, n)
<1>0. Len(q) - n \in Nat
  BY LenProperties
<1>1. r = [i \in 1 .. Len(q) - n |->
             IF q[n + i].is = "torn" THEN [q[n + i] EXCEPT !.is = "bad"] ELSE q[n + i]]
  BY DEF Rest
<1> HIDE DEF r
<1>2. \A line \in Lines : [line EXCEPT !.is = "bad"] \in Lines
                          /\ [line EXCEPT !.is = "bad"].event = line.event
                          /\ [line EXCEPT !.is = "bad"].is = "bad"
  BY DEF Lines
<1>3. \A i \in 1 .. Len(q) - n : q[n + i] \in Lines
  BY <1>0, ElementOfSeq
<1>4. \A i \in 1 .. Len(q) - n : /\ r[i] \in Lines
                                 /\ r[i].event = q[n + i].event /\ r[i].is # "torn"
                                 /\ r[i].is = "good" => q[n + i].is = "good"
  BY <1>1, <1>2, <1>3
<1>5. r \in Seq(Lines) /\ Len(r) = Len(q) - n
  <2>1. PICK k \in Nat : k = Len(q) - n
    BY <1>0
  <2>2. r = [i \in 1 .. k |-> r[i]] /\ \A i \in 1 .. k : r[i] \in Lines
    BY <1>1, <1>4, <2>1
  <2>3. r \in Seq(Lines) /\ Len(r) = k
    BY <2>2
  <2>4. QED
    BY <2>1, <2>3
<1>6. QED
  BY <1>4, <1>5 DEF r

-----------------------------------------------------------------------------
(***************************************************************************)
(* Types, and the records.                                                 *)
(***************************************************************************)
Request == [to : Callers \cup {"nobody"}, batch : Seq(Events)]

Typed ==
    /\ clock \in 1 .. MaxEvents + 1
    /\ RecordsSound(records)
    /\ queue \in [Gates -> Seq(Lines)]
    /\ cached \in [Gates -> Nat]
    /\ running \in [Gates -> BOOLEAN]
    /\ online \in [Gates -> BOOLEAN]
    /\ awaiting \in [Gates -> [Callers -> 0 .. BatchLimit]]
    /\ wire \in [Gates -> Seq(Request)]
    /\ answers \in [Gates -> SUBSET Callers]
    /\ released \subseteq Gates \X Events
    /\ judged \subseteq Gates \X Events
    /\ torn \in 0 .. MaxTorn

\* Every line and every count comes from one of the appends so far.
Counted ==
    \A g \in Gates : Len(queue[g]) <= clock - 1 + torn /\ cached[g] <= clock - 1 + torn

LEMMA EventAtClock ==
  ASSUME Typed, clock <= MaxEvents, NEW g \in Gates, NEW p \in Plates
  PROVE  [kind |-> Kind[g], plate |-> p, ts |-> clock] \in Events
BY KindAssumption, BoundAssumption DEF Typed, Events

LEMMA TypedInit == Init => Typed /\ Counted
<1> SUFFICES ASSUME Init PROVE Typed /\ Counted
  OBVIOUS
<1>1. <<>> \in Seq(ParkingRecord) /\ <<>> \in Seq(Lines) /\ <<>> \in Seq(Request)
      /\ Len(<<>>) = 0 /\ DOMAIN <<>> = {}
  BY EmptySeq
<1>2. RecordsSound(records)
  BY <1>1 DEF Init, RecordsSound
<1>3. QED
  BY <1>1, <1>2, BoundAssumption, LimitAssumption DEF Init, Typed, Counted

\* What submitting does to the variables it touches.
LEMMA SubmitTyped ==
  ASSUME Typed, NEW g \in Gates, NEW c \in Callers, NEW count, Submit(g, c, count)
  PROVE  /\ awaiting' \in [Gates -> [Callers -> 0 .. BatchLimit]]
         /\ wire' \in [Gates -> Seq(Request)]
<1> DEFINE batch == Pending(queue[g])
<1>1. CASE UNCHANGED <<awaiting, wire>>
  BY <1>1 DEF Typed
<1>2. CASE /\ batch # <<>>
           /\ awaiting' = [awaiting EXCEPT ![g][c] = Len(batch)]
           /\ wire' = [wire EXCEPT ![g] = Append(@, [to |-> c, batch |-> batch])]
  <2>1. queue[g] \in Seq(Lines) /\ Len(queue[g]) \in Nat
    BY LenProperties DEF Typed
  <2>2. batch \in Seq(Events) /\ Len(batch) \in 0 .. BatchLimit
    BY <1>2, <2>1, PendingLines, LimitAssumption, LenProperties DEF Lesser
  <2> HIDE DEF batch
  <2>3. [to |-> c, batch |-> batch] \in Request
    BY <2>2 DEF Request
  <2>4. Append(wire[g], [to |-> c, batch |-> batch]) \in Seq(Request)
    BY <2>3, AppendProperties DEF Typed
  <2>5. QED
    BY <1>2, <2>2, <2>4 DEF Typed
<1>3. QED
  BY <1>1, <1>2 DEF Submit

LEMMA TypedNext == Typed /\ [Next]_vars => Typed'
<1> SUFFICES ASSUME Typed, [Next]_vars PROVE Typed'
  OBVIOUS
<1>1. ASSUME NEW g \in Gates, NEW p \in Plates, RecordOffline(g, p) PROVE Typed'
  <2> DEFINE e == [kind |-> Kind[g], plate |-> p, ts |-> clock]
  <2>1. e \in Events
    BY <1>1, EventAtClock DEF RecordOffline
  <2>2. Appended(queue[g], e) \in Seq(Lines)
    BY <2>1, AppendedLines DEF Typed
  <2>3. queue' = [queue EXCEPT ![g] = Appended(@, e)] /\ released' = released \cup {<<g, e>>}
        /\ clock' = clock + 1 /\ clock <= MaxEvents /\ cached' = [cached EXCEPT ![g] = @ + 1]
        /\ UNCHANGED <<serverVars, linkVars, running, faults, torn>>
    BY <1>1 DEF RecordOffline
  <2> HIDE DEF e
  <2>4. QED
    BY <2>1, <2>2, <2>3, BoundAssumption DEF Typed, serverVars, linkVars
<1>2. ASSUME NEW g \in Gates, NEW p \in Plates, AppendFails(g, p) PROVE Typed'
  <2> DEFINE e == [kind |-> Kind[g], plate |-> p, ts |-> clock]
  <2>1. e \in Events
    BY <1>2, EventAtClock DEF AppendFails
  <2>2. Broken(queue[g], e) \in Seq(Lines)
    <3>1. queue[g] \in Seq(Lines)
      BY DEF Typed
    <3>2. QED
      BY <2>1, <3>1, BrokenLines
  <2>3. queue' = [queue EXCEPT ![g] = Broken(@, e)] /\ torn' = torn + 1 /\ torn < MaxTorn
        /\ UNCHANGED <<clock, cached, serverVars, linkVars, running, released, faults>>
    BY <1>2 DEF AppendFails
  <2> HIDE DEF e
  <2>4. QED
    BY <2>2, <2>3, BoundAssumption DEF Typed, serverVars, linkVars
<1>3. ASSUME NEW g \in Gates, ReconnectTimer(g) PROVE Typed'
  <2>1. Submit(g, "timer", cached[g]) /\ "timer" \in Callers
    BY <1>3 DEF ReconnectTimer, Callers
  <2>2. /\ awaiting' \in [Gates -> [Callers -> 0 .. BatchLimit]]
        /\ wire' \in [Gates -> Seq(Request)]
    BY <2>1, SubmitTyped
  <2>3. QED
    BY <1>3, <2>2 DEF ReconnectTimer, Typed, serverVars, fileVars
<1>4. ASSUME NEW g \in Gates, Start(g) PROVE Typed'
  <2>1. /\ awaiting' \in [Gates -> [Callers -> 0 .. BatchLimit]]
        /\ wire' \in [Gates -> Seq(Request)]
        /\ online' \in [Gates -> BOOLEAN]
    <3>1. CASE UNCHANGED <<online, awaiting, wire>>
      BY <3>1 DEF Typed
    <3>2. CASE online' = [online EXCEPT ![g] = TRUE] /\ Submit(g, "start", Len(queue[g]))
      BY <3>2, SubmitTyped DEF Callers, Typed
    <3>3. QED
      BY <1>4, <3>1, <3>2 DEF Start
  <2>2. Len(queue[g]) \in Nat
    BY LenProperties DEF Typed
  <2>3. QED
    BY <1>4, <2>1, <2>2 DEF Start, Typed, serverVars
<1>5. ASSUME NEW g \in Gates, Serve(g) PROVE Typed'
  <2> DEFINE request == Head(wire[g])
  <2>1. wire[g] \in Seq(Request) /\ wire[g] # <<>>
    BY <1>5 DEF Serve, Typed
  <2>2. request \in Request /\ Tail(wire[g]) \in Seq(Request)
    BY <2>1, HeadTailProperties
  <2>3. records' = Replay(records, request.batch)
        /\ judged' = judged \cup {<<g, request.batch[i]>> : i \in DOMAIN request.batch}
        /\ answers' = [answers EXCEPT ![g] = @ \cup ({request.to} \cap Callers)]
        /\ wire' = [wire EXCEPT ![g] = Tail(@)]
        /\ UNCHANGED <<clock, fileVars, running, online, awaiting, released, faults, torn>>
    BY <1>5 DEF Serve
  <2> HIDE DEF request
  <2>4. request.batch \in Seq(Events)
    BY <2>2 DEF Request
  <2>5. RecordsSound(records')
    BY <2>3, <2>4, ReplaySound DEF Typed
  <2>6. \A i \in DOMAIN request.batch : request.batch[i] \in Events
    BY <2>4, LenProperties, ElementOfSeq
  <2>7. judged' \subseteq Gates \X Events
    BY <2>3, <2>6 DEF Typed
  <2>8. QED
    BY <2>2, <2>3, <2>5, <2>7 DEF Typed, fileVars
<1>6. ASSUME NEW g \in Gates, NEW c \in Callers,
             Acknowledge(g, c) \/ AcknowledgeFails(g, c) PROVE Typed'
  <2>1. awaiting' = [awaiting EXCEPT ![g][c] = 0] /\ answers' = [answers EXCEPT ![g] = @ \ {c}]
        /\ UNCHANGED <<clock, serverVars, running, online, wire, released, torn>>
    BY <1>6 DEF Acknowledge, AcknowledgeFails
  <2>2. /\ awaiting' \in [Gates -> [Callers -> 0 .. BatchLimit]]
        /\ answers' \in [Gates -> SUBSET Callers]
    BY <2>1, LimitAssumption DEF Typed
  <2> DEFINE n == awaiting[g][c]
  <2>3. n \in Nat /\ queue[g] \in Seq(Lines) /\ cached[g] \in Nat
    BY LimitAssumption DEF Typed
  <2>4. \/ /\ n <= cached[g] /\ n <= Len(queue[g])
           /\ queue' = [queue EXCEPT ![g] = Rest(@, n)]
           /\ cached' = [cached EXCEPT ![g] = @ - n]
        \/ UNCHANGED fileVars
    BY <1>6 DEF Acknowledge, AcknowledgeFails
  <2> HIDE DEF n
  <2>5. queue' \in [Gates -> Seq(Lines)] /\ cached' \in [Gates -> Nat]
    <3>1. CASE UNCHANGED fileVars
      BY <3>1 DEF Typed, fileVars
    <3>2. CASE /\ n <= cached[g] /\ n <= Len(queue[g])
               /\ queue' = [queue EXCEPT ![g] = Rest(@, n)]
               /\ cached' = [cached EXCEPT ![g] = @ - n]
      <4>1. Rest(queue[g], n) \in Seq(Lines) /\ cached[g] - n \in Nat
        BY <2>3, <3>2, RestLines
      <4>2. QED
        BY <3>2, <4>1 DEF Typed
    <3>3. QED
      BY <2>4, <3>1, <3>2
  <2>6. QED
    BY <2>1, <2>2, <2>5 DEF Typed, serverVars
<1>7. ASSUME NEW g \in Gates, NEW c \in Callers, TimeOut(g, c) PROVE Typed'
  <2> DEFINE w == [i \in DOMAIN wire[g] |->
                     IF wire[g][i].to = c THEN [wire[g][i] EXCEPT !.to = "nobody"] ELSE wire[g][i]]
  <2>1. /\ awaiting' = [awaiting EXCEPT ![g][c] = 0]
        /\ wire' = [wire EXCEPT ![g] = w]
        /\ answers' = [answers EXCEPT ![g] = @ \ {c}]
        /\ UNCHANGED <<clock, serverVars, fileVars, running, online, released, torn>>
    BY <1>7 DEF TimeOut, Typed
  <2>2. w \in Seq(Request)
    <3>1. wire[g] \in Seq(Request) /\ DOMAIN wire[g] = 1 .. Len(wire[g]) /\ Len(wire[g]) \in Nat
      BY LenProperties DEF Typed
    <3>2. \A r \in Request : [r EXCEPT !.to = "nobody"] \in Request
      BY DEF Request
    <3>3. \A i \in 1 .. Len(wire[g]) : w[i] \in Request
      BY <3>1, <3>2, ElementOfSeq
    <3>4. PICK k \in Nat : k = Len(wire[g])
      BY <3>1
    <3>5. w = [i \in 1 .. k |-> w[i]] /\ \A i \in 1 .. k : w[i] \in Request
      BY <3>1, <3>3, <3>4
    <3> HIDE DEF w
    <3>6. QED
      BY <3>5
  <2> HIDE DEF w
  <2>3. wire' \in [Gates -> Seq(Request)] /\ answers' \in [Gates -> SUBSET Callers]
    BY <2>1, <2>2 DEF Typed
  <2>4. awaiting' \in [Gates -> [Callers -> 0 .. BatchLimit]]
    BY <2>1, LimitAssumption DEF Typed
  <2>5. QED
    BY <2>1, <2>3, <2>4 DEF Typed, serverVars, fileVars
<1>8. ASSUME NEW g \in Gates, Drop(g) PROVE Typed'
  BY <1>8, EmptySeq DEF Drop, Typed, serverVars, fileVars
<1>9. ASSUME NEW g \in Gates, Stop(g) PROVE Typed'
  BY <1>9, EmptySeq, LimitAssumption DEF Stop, Typed, serverVars
<1>10. CASE UNCHANGED vars
  BY <1>10 DEF vars, Typed
<1>11. QED
  BY <1>1, <1>2, <1>3, <1>4, <1>5, <1>6, <1>7, <1>8, <1>9, <1>10 DEF Next

\* However often an event is sent, it takes effect once.
THEOREM ReplayAppliesOnce == Spec => []AppliedOnce
<1>1. Init => Typed
  BY TypedInit
<1>2. Typed /\ [Next]_vars => Typed'
  BY TypedNext
<1>3. Typed => AppliedOnce
  <2> SUFFICES ASSUME Typed PROVE AppliedOnce
    OBVIOUS
  <2>1. RecordsSound(records)
    BY DEF Typed
  <2>2. QED
    BY <2>1 DEF RecordsSound, AppliedOnce
<1>4. QED
  BY <1>1, <1>2, <1>3, PTL DEF Spec

-----------------------------------------------------------------------------
(***************************************************************************)
(* The file and the link of one gate.                                      *)
(***************************************************************************)

\* What is on file is in the order it was recorded, and only the last line can end in the
\* middle: the barrier has not been opened for it, nor for a later one.
FileSound(g) ==
    /\ \A i, j \in DOMAIN queue[g] : i <= j => queue[g][i].event.ts <= queue[g][j].event.ts
    /\ \A i \in DOMAIN queue[g] :
         /\ queue[g][i].event.ts <= clock
         /\ queue[g][i].is = "good" => queue[g][i].event.ts < clock
         /\ queue[g][i].is = "torn" =>
              /\ i = Len(queue[g])
              /\ \A x \in released : x[1] = g => x[2].ts < queue[g][i].event.ts

\* Nothing waits or is on the way without a connection, each replay has at most one
\* request or answer, and waits for as many lines as it sent.
LinkSound(g) ==
    /\ ~running[g] => ~online[g] /\ \A c \in Callers : awaiting[g][c] = 0
    /\ ~online[g] => wire[g] = <<>> /\ answers[g] = {}
    /\ \A k \in DOMAIN wire[g] : wire[g][k].to \in Callers =>
         /\ awaiting[g][wire[g][k].to] = Len(wire[g][k].batch)
         /\ awaiting[g][wire[g][k].to] > 0
         /\ wire[g][k].to \notin answers[g]
    /\ \A j, k \in DOMAIN wire[g] :
         wire[g][j].to = wire[g][k].to /\ wire[g][j].to \in Callers => j = k
    /\ \A c \in answers[g] : awaiting[g][c] > 0

\* A replay whose answer can still take lines off the file.
Fresh(g, c) == awaiting[g][c] > 0 /\ awaiting[g][c] <= cached[g]

\* Its batch is the beginning of the file, and judged when it is answered.
Prefix(g) ==
    \A c \in Callers : Fresh(g, c) =>
        /\ \A k \in DOMAIN wire[g] : wire[g][k].to = c =>
             \A i \in DOMAIN wire[g][k].batch \cap DOMAIN queue[g] :
                queue[g][i].event = wire[g][k].batch[i]
        /\ c \in answers[g] =>
             \A i \in DOMAIN queue[g] : i <= awaiting[g][c] => <<g, queue[g][i].event>> \in judged

\* Nothing is recorded while start waits; a replay begun by the timer meanwhile is of the
\* same lines.
Overlap(g) ==
    awaiting[g]["start"] > 0 =>
        /\ cached[g] = Len(queue[g])
        /\ Fresh(g, "start") =>
             /\ awaiting[g]["start"] \in {Len(queue[g]), BatchLimit}
             /\ awaiting[g]["timer"] \in {0, awaiting[g]["start"]}

\* Of the released events that are earlier than one on the way, all are judged or with it.
InOrder(g) ==
    \A k \in DOMAIN wire[g] : \A i \in DOMAIN wire[g][k].batch :
        /\ wire[g][k].batch[i].ts < clock
        /\ \A x \in released :
             x[1] = g /\ x[2].ts < wire[g][k].batch[i].ts =>
                x \in judged \/ \E j \in DOMAIN wire[g][k].batch : wire[g][k].batch[j] = x[2]

Past(g) ==
    /\ \A x \in released : x[1] = g => x[2].ts < clock
    /\ \A x \in judged : x[1] = g => x[2].ts < clock

Kept(g) ==
    \A x \in released :
        x[1] = g => x \in judged \/ \E i \in DOMAIN queue[g] : queue[g][i].event = x[2]

Ordered(g) ==
    \A x \in judged, y \in released :
        x[1] = g /\ y[1] = g /\ y[2].ts < x[2].ts => y \in judged

GateSound(g) ==
    /\ FileSound(g) /\ Prefix(g) /\ Overlap(g) /\ InOrder(g)
    /\ Past(g) /\ Kept(g) /\ Ordered(g)

-----------------------------------------------------------------------------
(***************************************************************************)
(* A step of one gate leaves the others alone.                             *)
(***************************************************************************)
Aside(g) ==
    /\ clock' >= clock /\ torn' >= torn
    /\ \A h \in Gates \ {g} :
         /\ queue'[h] = queue[h] /\ cached'[h] = cached[h]
         /\ running'[h] = running[h] /\ online'[h] = online[h]
         /\ awaiting'[h] = awaiting[h] /\ wire'[h] = wire[h] /\ answers'[h] = answers[h]
         /\ \A e \in Events : /\ <<h, e>> \in released' <=> <<h, e>> \in released
                              /\ <<h, e>> \in judged' <=> <<h, e>> \in judged

StepOf(g) ==
    \/ \E p \in Plates : RecordOffline(g, p) \/ AppendFails(g, p)
    \/ ReconnectTimer(g) \/ Start(g) \/ Serve(g) \/ Drop(g) \/ Stop(g)
    \/ \E c \in Callers : Acknowledge(g, c) \/ AcknowledgeFails(g, c) \/ TimeOut(g, c)

LEMMA StepAside ==
  ASSUME Typed, NEW g \in Gates, StepOf(g)
  PROVE  Aside(g)
<1> USE DEF Aside, Typed
<1>1. ASSUME NEW p \in Plates, RecordOffline(g, p) PROVE Aside(g)
  BY <1>1 DEF RecordOffline, serverVars, linkVars
<1>2. ASSUME NEW p \in Plates, AppendFails(g, p) PROVE Aside(g)
  BY <1>2 DEF AppendFails, serverVars, linkVars
<1>3. CASE ReconnectTimer(g)
  BY <1>3 DEF ReconnectTimer, Submit, serverVars, fileVars
<1>4. CASE Start(g)
  BY <1>4 DEF Start, Submit, serverVars
<1>5. CASE Serve(g)
  BY <1>5 DEF Serve, fileVars
<1>6. ASSUME NEW c \in Callers, Acknowledge(g, c) \/ AcknowledgeFails(g, c) PROVE Aside(g)
  BY <1>6 DEF Acknowledge, AcknowledgeFails, serverVars, fileVars
<1>7. ASSUME NEW c \in Callers, TimeOut(g, c) PROVE Aside(g)
  BY <1>7 DEF TimeOut, serverVars, fileVars
<1>8. CASE Drop(g)
  BY <1>8 DEF Drop, serverVars, fileVars
<1>9. CASE Stop(g)
  BY <1>9 DEF Stop, serverVars
<1>10. QED
  BY <1>1, <1>2, <1>3, <1>4, <1>5, <1>6, <1>7, <1>8, <1>9 DEF StepOf

LEMMA LinkAside ==
  ASSUME NEW g \in Gates, Aside(g), NEW h \in Gates \ {g}, LinkSound(h)
  PROVE  LinkSound(h)'
BY DEF Aside, LinkSound

LEMMA PairOf ==
  ASSUME NEW R \in SUBSET (Gates \X Events), NEW x \in R
  PROVE  x = <<x[1], x[2]>> /\ x[1] \in Gates /\ x[2] \in Events /\ x[2].ts \in Nat
BY BoundAssumption DEF Events

LEMMA LineTyped ==
  ASSUME Typed, NEW g \in Gates
  PROVE  /\ queue[g] \in Seq(Lines) /\ Len(queue[g]) \in Nat
         /\ DOMAIN queue[g] = 1 .. Len(queue[g])
         /\ \A i \in DOMAIN queue[g] : queue[g][i] \in Lines /\ queue[g][i].event.ts \in Nat
<1>1. queue[g] \in Seq(Lines)
  BY DEF Typed
<1>2. \A i \in DOMAIN queue[g] : queue[g][i] \in Lines
  BY <1>1, LenProperties, ElementOfSeq
<1>3. QED
  BY <1>1, <1>2, LenProperties, BoundAssumption DEF Lines, Events

LEMMA BatchTyped ==
  ASSUME NEW b \in Seq(Events)
  PROVE  /\ Len(b) \in Nat /\ DOMAIN b = 1 .. Len(b)
         /\ \A i \in DOMAIN b : b[i] \in Events /\ b[i].ts \in Nat
<1>1. \A i \in DOMAIN b : b[i] \in Events
  BY LenProperties, ElementOfSeq
<1>2. QED
  BY <1>1, LenProperties, BoundAssumption DEF Events

LEMMA WireTyped ==
  ASSUME Typed, NEW g \in Gates
  PROVE  /\ wire[g] \in Seq(Request) /\ Len(wire[g]) \in Nat
         /\ DOMAIN wire[g] = 1 .. Len(wire[g])
         /\ \A k \in DOMAIN wire[g] :
              /\ wire[g][k] \in Request /\ wire[g][k].batch \in Seq(Events)
              /\ \A i \in DOMAIN wire[g][k].batch :
                   wire[g][k].batch[i] \in Events /\ wire[g][k].batch[i].ts \in Nat
<1>1. wire[g] \in Seq(Request)
  BY DEF Typed
<1>a. \A k \in DOMAIN wire[g] : wire[g][k] \in Request
  BY <1>1, LenProperties, ElementOfSeq
<1>2. \A k \in DOMAIN wire[g] : wire[g][k] \in Request /\ wire[g][k].batch \in Seq(Events)
  BY <1>a DEF Request
<1>3. \A k \in DOMAIN wire[g] : \A i \in DOMAIN wire[g][k].batch :
        wire[g][k].batch[i] \in Events /\ wire[g][k].batch[i].ts \in Nat
  BY <1>2, BatchTyped
<1>4. QED
  BY <1>1, <1>2, <1>3, LenProperties

LEMMA SoundAside ==
  ASSUME Typed, Typed', NEW g \in Gates, Aside(g), NEW h \in Gates \ {g}, GateSound(h)
  PROVE  GateSound(h)'
<1>0. /\ clock \in Nat /\ clock' \in Nat /\ clock' >= clock
      /\ queue'[h] = queue[h] /\ cached'[h] = cached[h]
      /\ running'[h] = running[h] /\ online'[h] = online[h]
      /\ awaiting'[h] = awaiting[h] /\ wire'[h] = wire[h] /\ answers'[h] = answers[h]
  BY DEF Aside, Typed
<1>1. \A x : x[1] = h => (x \in released' <=> x \in released) /\ (x \in judged' <=> x \in judged)
  <2>1. \A e \in Events : /\ <<h, e>> \in released' <=> <<h, e>> \in released
                          /\ <<h, e>> \in judged' <=> <<h, e>> \in judged
    BY DEF Aside
  <2>2. \A x : x \in released \cup released' \cup judged \cup judged' =>
               x = <<x[1], x[2]>> /\ x[2] \in Events
    BY PairOf DEF Typed
  <2>3. QED
    BY <2>1, <2>2
<1>2. /\ \A i \in DOMAIN queue[h] : queue[h][i].event.ts \in Nat
      /\ \A k \in DOMAIN wire[h] : \A i \in DOMAIN wire[h][k].batch : wire[h][k].batch[i].ts \in Nat
      /\ \A x \in released \cup judged : x[2].ts \in Nat
  BY LineTyped, WireTyped, PairOf DEF Typed
<1>3. FileSound(h)'
  BY <1>0, <1>1, <1>2 DEF FileSound, GateSound
<1>4. Prefix(h)'
  BY <1>0, <1>1 DEF Prefix, Fresh, GateSound
<1>5. Overlap(h)'
  BY <1>0 DEF Overlap, Fresh, GateSound
<1>6. InOrder(h)'
  BY <1>0, <1>1, <1>2 DEF InOrder, GateSound
<1>7. Past(h)' /\ Kept(h)' /\ Ordered(h)'
  BY <1>0, <1>1, <1>2 DEF Past, Kept, Ordered, GateSound
<1>8. QED
  BY <1>3, <1>4, <1>5, <1>6, <1>7 DEF GateSound

-----------------------------------------------------------------------------
(***************************************************************************)
(* The link of the gate that takes a step.                                 *)
(***************************************************************************)

\* Submitting does nothing, or puts the first lines of the file on the way.
LEMMA SubmitEffect ==
  ASSUME Typed, NEW g \in Gates, NEW c \in Callers, NEW count, Submit(g, c, count)
  PROVE  \/ awaiting'[g] = awaiting[g] /\ wire'[g] = wire[g]
         \/ \E b \in Seq(Events) :
              /\ Len(b) = Lesser(Len(queue[g]), BatchLimit) /\ Len(b) > 0
              /\ \A i \in DOMAIN b :
                   i \in DOMAIN queue[g] /\ queue[g][i].is = "good" /\ queue[g][i].event = b[i]
              /\ awaiting'[g][c] = Len(b)
              /\ \A d \in Callers \ {c} : awaiting'[g][d] = awaiting[g][d]
              /\ DOMAIN wire'[g] = 1 .. Len(wire[g]) + 1
              /\ \A k \in DOMAIN wire[g] : wire'[g][k] = wire[g][k]
              /\ wire'[g][Len(wire[g]) + 1] = [to |-> c, batch |-> b]
<1>1. CASE UNCHANGED <<awaiting, wire>>
  BY <1>1
<1>2. CASE /\ Pending(queue[g]) # <<>>
           /\ awaiting' = [awaiting EXCEPT ![g][c] = Len(Pending(queue[g]))]
           /\ wire' = [wire EXCEPT ![g] = Append(@, [to |-> c, batch |-> Pending(queue[g])])]
  <2>1. /\ queue[g] \in Seq(Lines) /\ Len(queue[g]) \in Nat
        /\ DOMAIN queue[g] = 1 .. Len(queue[g])
    BY LineTyped
  <2>2. PICK b \in Seq(Events) : b = Pending(queue[g])
    BY <2>1, PendingLines
  <2>3. /\ Len(b) = Lesser(Len(queue[g]), BatchLimit) /\ Len(b) > 0
        /\ \A i \in 1 .. Len(b) : queue[g][i].is = "good" /\ queue[g][i].event = b[i]
    BY <1>2, <2>1, <2>2, PendingLines
  <2>4. DOMAIN b = 1 .. Len(b) /\ Len(b) \in Nat /\ Len(b) <= Len(queue[g])
    BY <2>1, <2>3, BatchTyped, LimitAssumption DEF Lesser
  <2>5. [to |-> c, batch |-> b] \in Request
    BY DEF Request
  <2>6. wire[g] \in Seq(Request) /\ DOMAIN wire[g] = 1 .. Len(wire[g]) /\ Len(wire[g]) \in Nat
    BY WireTyped
  <2>7. wire'[g] = Append(wire[g], [to |-> c, batch |-> b])
    BY <1>2, <2>2 DEF Typed
  <2>8. /\ DOMAIN wire'[g] = 1 .. Len(wire[g]) + 1
        /\ \A k \in DOMAIN wire[g] : wire'[g][k] = wire[g][k]
        /\ wire'[g][Len(wire[g]) + 1] = [to |-> c, batch |-> b]
    BY <2>5, <2>6, <2>7, AppendProperties, LenProperties
  <2>9. awaiting'[g][c] = Len(b) /\ \A d \in Callers \ {c} : awaiting'[g][d] = awaiting[g][d]
    BY <1>2, <2>2 DEF Typed
  <2>10. \A i \in DOMAIN b :
           i \in DOMAIN queue[g] /\ queue[g][i].is = "good" /\ queue[g][i].event = b[i]
    BY <2>1, <2>3, <2>4
  <2>11. QED
    BY <2>3, <2>8, <2>9, <2>10
<1>3. QED
  BY <1>1, <1>2 DEF Submit

LEMMA SubmitLink ==
  ASSUME Typed, NEW g \in Gates, LinkSound(g), NEW c \in Callers, NEW count,
         Submit(g, c, count), awaiting[g][c] = 0,
         running'[g], online'[g], answers'[g] = answers[g]
  PROVE  LinkSound(g)'
<1>0. DOMAIN wire[g] = 1 .. Len(wire[g]) /\ Len(wire[g]) \in Nat
  BY WireTyped
<1>1. CASE awaiting'[g] = awaiting[g] /\ wire'[g] = wire[g]
  BY <1>1 DEF LinkSound
<1>2. ASSUME NEW b \in Seq(Events), Len(b) > 0,
             awaiting'[g][c] = Len(b),
             \A d \in Callers \ {c} : awaiting'[g][d] = awaiting[g][d],
             DOMAIN wire'[g] = 1 .. Len(wire[g]) + 1,
             \A k \in DOMAIN wire[g] : wire'[g][k] = wire[g][k],
             wire'[g][Len(wire[g]) + 1] = [to |-> c, batch |-> b]
      PROVE  LinkSound(g)'
  <2>1. c \notin answers[g] /\ \A k \in DOMAIN wire[g] : wire[g][k].to # c
    BY DEF LinkSound
  <2>2. \A k \in DOMAIN wire'[g] : k # Len(wire[g]) + 1 => k \in DOMAIN wire[g]
    BY <1>0, <1>2
  <2>3. \A k \in DOMAIN wire'[g] : wire'[g][k].to \in Callers =>
          /\ awaiting'[g][wire'[g][k].to] = Len(wire'[g][k].batch)
          /\ awaiting'[g][wire'[g][k].to] > 0
          /\ wire'[g][k].to \notin answers'[g]
    <3> SUFFICES ASSUME NEW k \in DOMAIN wire'[g], wire'[g][k].to \in Callers
                 PROVE  /\ awaiting'[g][wire'[g][k].to] = Len(wire'[g][k].batch)
                        /\ awaiting'[g][wire'[g][k].to] > 0
                        /\ wire'[g][k].to \notin answers'[g]
      OBVIOUS
    <3>1. CASE k = Len(wire[g]) + 1
      BY <1>2, <2>1, <3>1
    <3>2. CASE k # Len(wire[g]) + 1
      <4>1. k \in DOMAIN wire[g] /\ wire'[g][k] = wire[g][k] /\ wire[g][k].to \in Callers \ {c}
        BY <1>2, <2>1, <2>2, <3>2
      <4>2. QED
        BY <1>2, <4>1 DEF LinkSound
    <3>3. QED
      BY <3>1, <3>2
  <2>4. \A j, k \in DOMAIN wire'[g] :
          wire'[g][j].to = wire'[g][k].to /\ wire'[g][j].to \in Callers => j = k
    BY <1>2, <2>1, <2>2 DEF LinkSound
  <2>5. \A d \in answers'[g] : awaiting'[g][d] > 0
    BY <1>2, <2>1 DEF LinkSound, Typed
  <2>6. QED
    BY <2>3, <2>4, <2>5 DEF LinkSound
<1>3. QED
  BY <1>1, <1>2, SubmitEffect

LEMMA LinkStep ==
  ASSUME Typed, NEW g \in Gates, LinkSound(g), StepOf(g)
  PROVE  LinkSound(g)'
<1>0. /\ wire[g] \in Seq(Request) /\ Len(wire[g]) \in Nat /\ DOMAIN wire[g] = 1 .. Len(wire[g])
      /\ answers[g] \subseteq Callers
      /\ \A c \in Callers : awaiting[g][c] \in Nat
  BY WireTyped, LimitAssumption DEF Typed
<1>1. ASSUME NEW p \in Plates, RecordOffline(g, p) \/ AppendFails(g, p) PROVE LinkSound(g)'
  BY <1>1 DEF RecordOffline, AppendFails, linkVars, LinkSound
<1>2. CASE ReconnectTimer(g)
  <2>1. /\ Submit(g, "timer", cached[g]) /\ awaiting[g]["timer"] = 0
        /\ running'[g] /\ online'[g] /\ answers'[g] = answers[g]
    BY <1>2 DEF ReconnectTimer, Typed
  <2>2. QED
    BY <2>1, SubmitLink DEF Callers
<1>3. CASE Start(g)
  <2>1. ~running[g] /\ running'[g] /\ answers' = answers /\ awaiting[g]["start"] = 0
    BY <1>3 DEF Start, Typed, LinkSound, Callers
  <2>2. CASE UNCHANGED <<online, awaiting, wire>>
    BY <2>1, <2>2 DEF LinkSound
  <2>3. CASE online' = [online EXCEPT ![g] = TRUE] /\ Submit(g, "start", Len(queue[g]))
    <3>1. online'[g]
      BY <2>3 DEF Typed
    <3>2. QED
      BY <2>1, <2>3, <3>1, SubmitLink DEF Callers
  <2>4. QED
    BY <1>3, <2>2, <2>3 DEF Start
<1>4. CASE Serve(g)
  <2>1. /\ wire[g] # <<>>
        /\ answers'[g] = answers[g] \cup ({Head(wire[g]).to} \cap Callers)
        /\ wire'[g] = Tail(wire[g])
        /\ running' = running /\ online' = online /\ awaiting' = awaiting
    BY <1>4 DEF Serve, Typed
  <2>2. /\ Len(wire[g]) > 0 /\ Head(wire[g]) = wire[g][1]
        /\ DOMAIN wire'[g] = 1 .. Len(wire[g]) - 1
        /\ \A k \in DOMAIN wire'[g] : wire'[g][k] = wire[g][k + 1]
    BY <1>0, <2>1, HeadTailProperties, EmptySeq, LenProperties
  <2>3. online[g]
    BY <2>1 DEF LinkSound
  <2>4. \A k \in DOMAIN wire'[g] : k + 1 \in DOMAIN wire[g] /\ k + 1 # 1
    BY <1>0, <2>2
  <2>5. \A k \in DOMAIN wire'[g] : wire'[g][k].to \in Callers =>
          /\ awaiting'[g][wire'[g][k].to] = Len(wire'[g][k].batch)
          /\ awaiting'[g][wire'[g][k].to] > 0
          /\ wire'[g][k].to \notin answers'[g]
    BY <1>0, <2>1, <2>2, <2>4 DEF LinkSound
  <2>6. \A j, k \in DOMAIN wire'[g] :
          wire'[g][j].to = wire'[g][k].to /\ wire'[g][j].to \in Callers => j = k
    <3> SUFFICES ASSUME NEW j \in DOMAIN wire'[g], NEW k \in DOMAIN wire'[g],
                        wire'[g][j].to = wire'[g][k].to, wire'[g][j].to \in Callers
                 PROVE  j = k
      OBVIOUS
    <3>1. wire[g][j + 1].to = wire[g][k + 1].to /\ wire[g][j + 1].to \in Callers
      BY <2>2
    <3>2. j + 1 = k + 1
      BY <2>4, <3>1 DEF LinkSound
    <3>3. QED
      BY <2>2, <3>2
  <2>7. \A d \in answers'[g] : awaiting'[g][d] > 0
    BY <1>0, <2>1, <2>2 DEF LinkSound
  <2>8. QED
    BY <2>1, <2>3, <2>5, <2>6, <2>7 DEF LinkSound
<1>5. ASSUME NEW c \in Callers, Acknowledge(g, c) \/ AcknowledgeFails(g, c) PROVE LinkSound(g)'
  <2>1. /\ c \in answers[g]
        /\ answers'[g] = answers[g] \ {c} /\ awaiting'[g] = [awaiting[g] EXCEPT ![c] = 0]
        /\ UNCHANGED <<running, online, wire>>
    BY <1>5 DEF Acknowledge, AcknowledgeFails, Typed
  <2>2. \A k \in DOMAIN wire[g] : wire[g][k].to # c
    BY <2>1 DEF LinkSound
  <2>3. \A d \in Callers \ {c} : awaiting'[g][d] = awaiting[g][d]
    BY <2>1 DEF Typed
  <2>4. running[g]
    BY <2>1 DEF LinkSound
  <2>5. QED
    BY <1>0, <2>1, <2>2, <2>3, <2>4 DEF LinkSound
<1>6. ASSUME NEW c \in Callers, TimeOut(g, c) PROVE LinkSound(g)'
  <2>1. /\ awaiting[g][c] > 0
        /\ awaiting'[g] = [awaiting[g] EXCEPT ![c] = 0]
        /\ wire'[g] = [i \in DOMAIN wire[g] |-> IF wire[g][i].to = c
                                                THEN [wire[g][i] EXCEPT !.to = "nobody"]
                                                ELSE wire[g][i]]
        /\ answers'[g] = answers[g] \ {c}
        /\ UNCHANGED <<running, online>>
    BY <1>6 DEF TimeOut, Typed
  <2>2. running[g]
    BY <2>1 DEF LinkSound
  <2>3. \A d \in Callers \ {c} : awaiting'[g][d] = awaiting[g][d]
    BY <2>1 DEF Typed
  <2>4. /\ DOMAIN wire'[g] = DOMAIN wire[g]
        /\ \A k \in DOMAIN wire[g] : \/ wire'[g][k] = wire[g][k] /\ wire[g][k].to # c
                                     \/ wire'[g][k].to = "nobody"
    <3>1. \A r \in Request : [r EXCEPT !.to = "nobody"].to = "nobody"
      BY DEF Request
    <3>2. \A k \in DOMAIN wire[g] : wire[g][k] \in Request
      BY WireTyped
    <3>3. QED
      BY <2>1, <3>1, <3>2
  <2>5. ~online[g] => wire'[g] = <<>>
    BY <1>0, <2>1 DEF LinkSound
  <2>6. \A k \in DOMAIN wire'[g] : wire'[g][k].to \in Callers =>
          /\ awaiting'[g][wire'[g][k].to] = Len(wire'[g][k].batch)
          /\ awaiting'[g][wire'[g][k].to] > 0
          /\ wire'[g][k].to \notin answers'[g]
    BY <1>0, <2>1, <2>3, <2>4 DEF LinkSound, Callers
  <2>7. \A j, k \in DOMAIN wire'[g] :
          wire'[g][j].to = wire'[g][k].to /\ wire'[g][j].to \in Callers => j = k
    BY <2>4 DEF LinkSound, Callers
  <2>8. \A d \in answers'[g] : awaiting'[g][d] > 0
    BY <1>0, <2>1, <2>3 DEF LinkSound
  <2>9. QED
    BY <2>1, <2>2, <2>5, <2>6, <2>7, <2>8 DEF LinkSound
<1>7. CASE Drop(g) \/ Stop(g)
  <2>1. /\ running[g] \/ online[g]
        /\ wire'[g] = <<>> /\ answers'[g] = {} /\ online'[g] = FALSE
        /\ \/ awaiting'[g] = [c \in Callers |-> 0]
           \/ awaiting'[g] = awaiting[g] /\ running'[g] = running[g]
    BY <1>7 DEF Drop, Stop, Typed
  <2>2. DOMAIN wire'[g] = {}
    BY <2>1
  <2>3. QED
    BY <2>1, <2>2 DEF LinkSound
<1>8. QED
  BY <1>1, <1>2, <1>3, <1>4, <1>5, <1>6, <1>7 DEF StepOf

LEMMA LinkNext ==
  ASSUME Typed, \A g \in Gates : LinkSound(g), [Next]_vars
  PROVE  \A g \in Gates : LinkSound(g)'
<1>1. ASSUME NEW g \in Gates, StepOf(g) PROVE \A h \in Gates : LinkSound(h)'
  BY <1>1, StepAside, LinkAside, LinkStep
<1>2. CASE UNCHANGED vars
  BY <1>2 DEF vars, LinkSound
<1>3. QED
  BY <1>1, <1>2 DEF Next, StepOf

LEMMA CountedStep ==
  ASSUME Typed, NEW g \in Gates, Counted, StepOf(g)
  PROVE  /\ Len(queue'[g]) <= clock' - 1 + torn'
         /\ cached'[g] <= clock' - 1 + torn'
<1>0. /\ queue[g] \in Seq(Lines) /\ Len(queue[g]) \in Nat /\ cached[g] \in Nat
      /\ clock \in 1 .. MaxEvents + 1 /\ torn \in 0 .. MaxTorn
      /\ Len(queue[g]) <= clock - 1 + torn /\ cached[g] <= clock - 1 + torn
  BY LineTyped DEF Typed, Counted
<1>1. ASSUME NEW p \in Plates, RecordOffline(g, p)
      PROVE  Len(queue'[g]) <= clock' - 1 + torn' /\ cached'[g] <= clock' - 1 + torn'
  <2> DEFINE e == [kind |-> Kind[g], plate |-> p, ts |-> clock]
  <2>1. e \in Events /\ queue'[g] = Appended(queue[g], e)
        /\ clock' = clock + 1 /\ torn' = torn /\ cached'[g] = cached[g] + 1
    BY <1>1, EventAtClock DEF RecordOffline, Typed
  <2>2. Len(queue'[g]) \in {Len(queue[g]), Len(queue[g]) + 1}
    BY <1>0, <2>1, AppendedLines
  <2>3. QED
    BY <1>0, <2>1, <2>2, BoundAssumption
<1>2. ASSUME NEW p \in Plates, AppendFails(g, p)
      PROVE  Len(queue'[g]) <= clock' - 1 + torn' /\ cached'[g] <= clock' - 1 + torn'
  <2> DEFINE e == [kind |-> Kind[g], plate |-> p, ts |-> clock]
  <2>1. e \in Events /\ queue'[g] = Broken(queue[g], e)
        /\ clock' = clock /\ torn' = torn + 1 /\ cached'[g] = cached[g]
    BY <1>2, EventAtClock DEF AppendFails, Typed
  <2>2. Len(queue'[g]) \in {Len(queue[g]), Len(queue[g]) + 1}
    BY <1>0, <2>1, BrokenLines
  <2>3. QED
    BY <1>0, <2>1, <2>2, BoundAssumption
<1>3. CASE ReconnectTimer(g) \/ Serve(g) \/ Drop(g) \/ Stop(g)
  BY <1>0, <1>3, BoundAssumption DEF ReconnectTimer, Serve, Drop, Stop, fileVars, Typed
<1>4. CASE Start(g)
  BY <1>0, <1>4 DEF Start, Typed
<1>5. ASSUME NEW c \in Callers, Acknowledge(g, c) \/ AcknowledgeFails(g, c) \/ TimeOut(g, c)
      PROVE  Len(queue'[g]) <= clock' - 1 + torn' /\ cached'[g] <= clock' - 1 + torn'
  <2>1. UNCHANGED <<clock, torn>> /\ awaiting[g][c] \in Nat
    BY <1>5, LimitAssumption DEF Acknowledge, AcknowledgeFails, TimeOut, Typed
  <2>2. CASE UNCHANGED fileVars
    BY <1>0, <2>1, <2>2 DEF fileVars
  <2>3. CASE /\ awaiting[g][c] <= cached[g] /\ awaiting[g][c] <= Len(queue[g])
             /\ queue' = [queue EXCEPT ![g] = Rest(@, awaiting[g][c])]
             /\ cached' = [cached EXCEPT ![g] = @ - awaiting[g][c]]
    <3>1. queue'[g] = Rest(queue[g], awaiting[g][c]) /\ cached'[g] = cached[g] - awaiting[g][c]
      BY <2>3 DEF Typed
    <3>2. Len(Rest(queue[g], awaiting[g][c])) = Len(queue[g]) - awaiting[g][c]
      <4>1. PICK n \in Nat : n = awaiting[g][c]
        BY <2>1
      <4>2. n <= Len(queue[g])
        BY <2>3, <4>1
      <4>3. Len(Rest(queue[g], n)) = Len(queue[g]) - n
        BY <1>0, <4>2, RestLines
      <4>4. QED
        BY <4>1, <4>3
    <3>3. QED
      BY <1>0, <2>1, <3>1, <3>2, SMTT(30)
  <2>4. CASE Acknowledge(g, c)
    BY <2>2, <2>3, <2>4 DEF Acknowledge
  <2>5. CASE AcknowledgeFails(g, c) \/ TimeOut(g, c)
    <3>1. UNCHANGED fileVars
      BY <2>5 DEF AcknowledgeFails, TimeOut
    <3>2. QED
      BY <2>2, <3>1
  <2>6. QED
    BY <1>5, <2>4, <2>5
<1>6. QED
  BY <1>1, <1>2, <1>3, <1>4, <1>5 DEF StepOf

LEMMA CountedNext ==
  ASSUME Typed, Typed', Counted, [Next]_vars
  PROVE  Counted'
<1>1. ASSUME NEW g \in Gates, StepOf(g) PROVE Counted'
  <2>1. Aside(g)
    BY <1>1, StepAside
  <2>2. ASSUME NEW h \in Gates \ {g}
        PROVE  Len(queue'[h]) <= clock' - 1 + torn' /\ cached'[h] <= clock' - 1 + torn'
    <3>1. queue'[h] = queue[h] /\ cached'[h] = cached[h] /\ clock' >= clock /\ torn' >= torn
      BY <2>1 DEF Aside
    <3>2. /\ Len(queue[h]) \in Nat /\ cached[h] \in Nat
          /\ Len(queue[h]) <= clock - 1 + torn /\ cached[h] <= clock - 1 + torn
      BY LineTyped DEF Typed, Counted
    <3>3. clock \in Nat /\ clock' \in Nat /\ torn \in Nat /\ torn' \in Nat
      BY BoundAssumption DEF Typed
    <3>4. QED
      BY <3>1, <3>2, <3>3
  <2>3. QED
    BY <1>1, <2>2, CountedStep DEF Counted
<1>2. CASE UNCHANGED vars
  BY <1>2 DEF vars, Counted
<1>3. QED
  BY <1>1, <1>2 DEF Next, StepOf

\* What holds whatever the gates do: types, bounds, and the link of each gate.
Linked == Typed /\ Counted /\ \A g \in Gates : LinkSound(g)

LEMMA LinkedInit == Init => Linked
<1> SUFFICES ASSUME Init PROVE Linked
  OBVIOUS
<1>1. Typed /\ Counted
  BY TypedInit
<1>2. ASSUME NEW g \in Gates PROVE LinkSound(g)
  <2>1. wire[g] = <<>> /\ answers[g] = {} /\ running[g] /\ DOMAIN wire[g] = {}
    BY DEF Init
  <2>2. QED
    BY <2>1 DEF LinkSound
<1>3. QED
  BY <1>1, <1>2 DEF Linked

LEMMA LinkedNext == Linked /\ [Next]_vars => Linked'
<1> SUFFICES ASSUME Linked, [Next]_vars PROVE Linked'
  OBVIOUS
<1>1. Typed /\ Typed' /\ Counted
  BY TypedNext DEF Linked
<1>2. Counted'
  BY <1>1, CountedNext
<1>3. \A g \in Gates : LinkSound(g)'
  BY <1>1, LinkNext DEF Linked
<1>4. QED
  BY <1>1, <1>2, <1>3 DEF Linked

LEMMA LinkedTypeOK == Linked => TypeOK
<1> SUFFICES ASSUME Linked PROVE TypeOK
  OBVIOUS
<1>0. Typed /\ Counted /\ \A g \in Gates : LinkSound(g)
  BY DEF Linked
<1>1. \A i \in DOMAIN records :
        records[i] \in [plate : Plates, in : 1 .. MaxEvents, out : 0 .. MaxEvents]
  BY <1>0, LenProperties, ElementOfSeq DEF Typed, RecordsSound, ParkingRecord
<1>2. ASSUME NEW g \in Gates
      PROVE  /\ Len(queue[g]) <= MaxEvents + MaxTorn
             /\ \A i \in DOMAIN queue[g] : queue[g][i] \in Lines
             /\ cached[g] \in 0 .. MaxEvents + MaxTorn
             /\ \A c \in Callers : awaiting[g][c] \in 0 .. BatchLimit
             /\ answers[g] \subseteq {c \in Callers : awaiting[g][c] > 0}
  <2>1. /\ Len(queue[g]) \in Nat /\ cached[g] \in Nat
        /\ clock \in 1 .. MaxEvents + 1 /\ torn \in 0 .. MaxTorn
        /\ Len(queue[g]) <= clock - 1 + torn /\ cached[g] <= clock - 1 + torn
    BY <1>0, LineTyped DEF Typed, Counted
  <2>2. Len(queue[g]) <= MaxEvents + MaxTorn /\ cached[g] \in 0 .. MaxEvents + MaxTorn
    BY <2>1, BoundAssumption
  <2>3. QED
    BY <1>0, <2>2, LineTyped DEF Typed, LinkSound
<1>3. QED
  BY <1>0, <1>1, <1>2 DEF TypeOK, Typed

LEMMA AlwaysLinked == Spec => []Linked
BY LinkedInit, LinkedNext, PTL DEF Spec

-----------------------------------------------------------------------------
(***************************************************************************)
(* The file of the gate that takes a step.                                 *)
(***************************************************************************)
LEMMA RecordSound ==
  ASSUME Typed, NEW g \in Gates, LinkSound(g), GateSound(g), NEW p \in Plates,
         RecordOffline(g, p)
  PROVE  GateSound(g)'
<1> DEFINE e == [kind |-> Kind[g], plate |-> p, ts |-> clock]
<1>1. /\ e \in Events /\ e.ts = clock /\ clock \in Nat
      /\ queue'[g] = Appended(queue[g], e)
      /\ clock' = clock + 1 /\ released' = released \cup {<<g, e>>}
      /\ judged' = judged /\ awaiting' = awaiting /\ wire' = wire /\ answers' = answers
      /\ awaiting[g]["start"] = 0 /\ ~online[g]
  <2>1. e \in Events /\ e.ts = clock /\ clock \in Nat
    <3>1. clock <= MaxEvents /\ clock \in Nat
      BY BoundAssumption DEF RecordOffline, Typed
    <3>2. QED
      BY <3>1, EventAtClock
  <2>2. queue'[g] = Appended(queue[g], e)
    BY DEF RecordOffline, Typed
  <2>3. /\ clock' = clock + 1 /\ released' = released \cup {<<g, e>>}
        /\ judged' = judged /\ awaiting' = awaiting /\ wire' = wire /\ answers' = answers
        /\ awaiting[g]["start"] = 0 /\ ~online[g]
    BY DEF RecordOffline, Operated, serverVars, linkVars
  <2>4. QED
    BY <2>1, <2>2, <2>3
<1> HIDE DEF e
<1>2. /\ queue[g] \in Seq(Lines) /\ Len(queue[g]) \in Nat /\ DOMAIN queue[g] = 1 .. Len(queue[g])
      /\ \A i \in DOMAIN queue[g] : queue[g][i].event.ts \in Nat
      /\ \A x \in released \cup judged : x[2].ts \in Nat
  BY LineTyped, PairOf DEF Typed
<1> DEFINE n == Len(queue'[g])
<1>3. /\ n \in {Len(queue[g]), Len(queue[g]) + 1} /\ n > 0 /\ DOMAIN queue'[g] = 1 .. n
      /\ queue'[g][n].event = e /\ queue'[g][n].is # "torn"
      /\ \A i \in 1 .. n - 1 : /\ i \in DOMAIN queue[g] /\ queue'[g][i] = queue[g][i]
                               /\ i = Len(queue[g]) => queue[g][i].is # "torn"
      /\ n = Len(queue[g]) => queue[g][n].is = "torn"
  <2>1. /\ queue'[g] \in Seq(Lines) /\ n \in {Len(queue[g]), Len(queue[g]) + 1} /\ n > 0
        /\ queue'[g][n].event = e /\ queue'[g][n].is # "torn"
        /\ \A i \in 1 .. n - 1 : /\ queue'[g][i] = queue[g][i]
                                 /\ i = Len(queue[g]) => queue[g][i].is # "torn"
        /\ n = Len(queue[g]) => queue[g][n].is = "torn"
    <3>0. PICK q \in Seq(Lines) : q = queue[g]
      BY <1>2
    <3>1. PICK a : a = Appended(q, e)
      OBVIOUS
    <3>2. /\ a \in Seq(Lines) /\ Len(a) \in {Len(q), Len(q) + 1} /\ Len(a) > 0
          /\ a[Len(a)].event = e /\ a[Len(a)].is # "torn"
          /\ \A i \in 1 .. Len(a) - 1 : a[i] = q[i] /\ (i = Len(q) => q[i].is # "torn")
          /\ Len(a) = Len(q) => q[Len(q)].is = "torn"
      BY <1>1, <3>1, AppendedLines
    <3>3. a = queue'[g]
      BY <1>1, <3>0, <3>1
    <3>4. QED
      BY <3>0, <3>2, <3>3
  <2>2. DOMAIN queue'[g] = 1 .. n
    BY <2>1, LenProperties
  <2> HIDE DEF n
  <2>3. \A i \in 1 .. n - 1 : i \in DOMAIN queue[g]
    BY <1>2, <2>1
  <2>4. QED
    BY <2>1, <2>2, <2>3
<1> HIDE DEF n
<1>a. n \in Nat /\ \A i \in 1 .. n : i # n => i \in 1 .. n - 1
  BY <1>2, <1>3
<1>4. FileSound(g)'
  <2>1. \A i \in 1 .. n : queue'[g][i].event.ts \in Nat /\ queue'[g][i].event.ts <= clock
    <3>1. \A i \in 1 .. n - 1 : queue'[g][i].event.ts \in Nat /\ queue'[g][i].event.ts <= clock
      BY <1>2, <1>3 DEF GateSound, FileSound
    <3>2. QED
      BY <1>1, <1>3, <1>a, <3>1
  <2>2. \A i, j \in 1 .. n : i <= j => queue'[g][i].event.ts <= queue'[g][j].event.ts
    <3> SUFFICES ASSUME NEW i \in 1 .. n, NEW j \in 1 .. n, i <= j
                 PROVE  queue'[g][i].event.ts <= queue'[g][j].event.ts
      OBVIOUS
    <3>1. CASE j = n
      BY <1>1, <1>3, <2>1, <3>1
    <3>2. CASE j # n
      <4>1. i # n
        BY <1>a, <3>2
      <4>2. /\ i \in DOMAIN queue[g] /\ queue'[g][i] = queue[g][i]
            /\ j \in DOMAIN queue[g] /\ queue'[g][j] = queue[g][j]
        BY <1>3, <1>a, <3>2, <4>1
      <4>3. QED
        BY <4>2 DEF GateSound, FileSound
    <3>3. QED
      BY <3>1, <3>2
  <2>3. \A i \in 1 .. n : queue'[g][i].is # "torn"
    <3>1. \A i \in 1 .. n - 1 : queue[g][i].is # "torn"
      BY <1>3 DEF GateSound, FileSound
    <3>2. QED
      BY <1>3, <1>a, <3>1
  <2>4. \A i \in 1 .. n : queue'[g][i].event.ts <= clock + 1 /\ queue'[g][i].event.ts < clock + 1
    BY <1>1, <2>1
  <2>5. QED
    BY <1>1, <1>3, <2>2, <2>3, <2>4 DEF FileSound
<1>5. Prefix(g)' /\ Overlap(g)' /\ InOrder(g)'
  BY <1>1 DEF LinkSound, Prefix, Overlap, InOrder
<1>6. Past(g)' /\ Ordered(g)'
  BY <1>1, <1>2 DEF GateSound, Past, Ordered
<1>7. Kept(g)'
  <2> SUFFICES ASSUME NEW x \in released', x[1] = g, x \notin judged
               PROVE  \E i \in DOMAIN queue'[g] : queue'[g][i].event = x[2]
    BY <1>1 DEF Kept
  <2>1. CASE x = <<g, e>>
    <3>1. x[2] = e /\ n \in DOMAIN queue'[g]
      BY <1>3, <1>a, <2>1
    <3>2. QED
      BY <1>3, <3>1
  <2>2. CASE x \in released
    <3>1. PICK i \in DOMAIN queue[g] : queue[g][i].event = x[2]
      BY <2>2 DEF GateSound, Kept
    <3>2. queue[g][i].is # "torn"
      BY <1>2, <2>2, <3>1 DEF GateSound, FileSound
    <3>3. i \in 1 .. n - 1
      BY <1>2, <1>3, <3>2
    <3>4. QED
      BY <1>2, <1>3, <3>1, <3>3
  <2>3. QED
    BY <1>1, <2>1, <2>2
<1>8. QED
  BY <1>4, <1>5, <1>6, <1>7 DEF GateSound

LEMMA FailSound ==
  ASSUME Typed, NEW g \in Gates, LinkSound(g), GateSound(g), NEW p \in Plates,
         AppendFails(g, p)
  PROVE  GateSound(g)'
<1> DEFINE e == [kind |-> Kind[g], plate |-> p, ts |-> clock]
<1>1. /\ e \in Events /\ e.ts = clock /\ clock \in Nat
      /\ queue'[g] = Broken(queue[g], e)
      /\ clock' = clock /\ released' = released
      /\ judged' = judged /\ awaiting' = awaiting /\ wire' = wire /\ answers' = answers
      /\ awaiting[g]["start"] = 0 /\ ~online[g]
  <2>1. e \in Events /\ e.ts = clock /\ clock \in Nat
    <3>1. clock <= MaxEvents /\ clock \in Nat
      BY BoundAssumption DEF AppendFails, Typed
    <3>2. QED
      BY <3>1, EventAtClock
  <2>2. queue'[g] = Broken(queue[g], e)
    BY DEF AppendFails, Typed
  <2>3. /\ clock' = clock /\ released' = released
        /\ judged' = judged /\ awaiting' = awaiting /\ wire' = wire /\ answers' = answers
        /\ awaiting[g]["start"] = 0 /\ ~online[g]
    BY DEF AppendFails, Operated, serverVars, linkVars
  <2>4. QED
    BY <2>1, <2>2, <2>3
<1> HIDE DEF e
<1>2. /\ queue[g] \in Seq(Lines) /\ Len(queue[g]) \in Nat /\ DOMAIN queue[g] = 1 .. Len(queue[g])
      /\ \A i \in DOMAIN queue[g] : queue[g][i].event.ts \in Nat
  BY LineTyped
<1>3. Prefix(g)' /\ Overlap(g)' /\ InOrder(g)'
  BY <1>1 DEF LinkSound, Prefix, Overlap, InOrder
<1>4. Past(g)' /\ Ordered(g)'
  BY <1>1 DEF GateSound, Past, Ordered
<1>5. CASE queue'[g] = queue[g]
  BY <1>1, <1>3, <1>4, <1>5 DEF GateSound, FileSound, Kept
<1>6. CASE /\ queue'[g] \in Seq(Lines) /\ Len(queue'[g]) = Len(queue[g]) + 1
           /\ queue'[g][Len(queue[g]) + 1] = [event |-> e, is |-> "torn"]
           /\ \A i \in 1 .. Len(queue[g]) : queue'[g][i] = queue[g][i]
           /\ queue[g] # <<>> => queue[g][Len(queue[g])].is # "torn"
  <2> DEFINE n == Len(queue[g]) + 1
  <2>1. /\ DOMAIN queue'[g] = 1 .. n
        /\ queue'[g][n].event.ts = clock /\ queue'[g][n].is = "torn"
        /\ \A i \in 1 .. n : i # n => i \in DOMAIN queue[g] /\ queue'[g][i] = queue[g][i]
    BY <1>1, <1>2, <1>6, LenProperties
  <2>2. \A i \in 1 .. n : i # n => queue'[g][i].is # "torn"
    <3> SUFFICES ASSUME NEW i \in 1 .. n, i # n, queue[g][i].is = "torn"
                 PROVE  FALSE
      BY <2>1
    <3>1. i \in DOMAIN queue[g] /\ i = Len(queue[g])
      BY <2>1 DEF GateSound, FileSound
    <3>2. queue[g] # <<>>
      BY <1>2, <3>1
    <3>3. QED
      BY <1>6, <3>1, <3>2
  <2>3. \A x \in released : x[1] = g => x[2].ts < clock
    BY DEF GateSound, Past
  <2>4. n \in Nat /\ Len(queue'[g]) = n
    BY <1>2, <1>6
  <2> HIDE DEF n
  <2>5. \A i, j \in 1 .. n : i <= j => queue'[g][i].event.ts <= queue'[g][j].event.ts
    <3> SUFFICES ASSUME NEW i \in 1 .. n, NEW j \in 1 .. n, i <= j
                 PROVE  queue'[g][i].event.ts <= queue'[g][j].event.ts
      OBVIOUS
    <3>1. CASE i = n
      BY <1>1, <2>1, <2>4, <3>1
    <3>2. CASE i # n /\ j = n
      BY <1>1, <2>1, <3>2 DEF GateSound, FileSound
    <3>3. CASE i # n /\ j # n
      BY <2>1, <3>3 DEF GateSound, FileSound
    <3>4. QED
      BY <3>1, <3>2, <3>3
  <2>6. \A i \in 1 .. n : /\ queue'[g][i].event.ts <= clock
                          /\ queue'[g][i].is = "good" => queue'[g][i].event.ts < clock
    BY <1>1, <2>1 DEF GateSound, FileSound
  <2>7. FileSound(g)'
    BY <1>1, <2>1, <2>2, <2>3, <2>4, <2>5, <2>6 DEF FileSound
  <2>8. Kept(g)'
    <3>1. \A i \in DOMAIN queue[g] : i \in DOMAIN queue'[g] /\ queue'[g][i] = queue[g][i]
      BY <1>2, <1>6, <2>1, <2>4 DEF n
    <3>2. QED
      BY <1>1, <3>1 DEF GateSound, Kept
  <2>9. QED
    BY <1>3, <1>4, <2>7, <2>8 DEF GateSound
<1>7. QED
  <2>1. queue'[g] = queue[g]
        \/ /\ queue'[g] \in Seq(Lines) /\ Len(queue'[g]) = Len(queue[g]) + 1
           /\ queue'[g][Len(queue[g]) + 1] = [event |-> e, is |-> "torn"]
           /\ \A i \in 1 .. Len(queue[g]) : queue'[g][i] = queue[g][i]
           /\ queue[g] # <<>> => queue[g][Len(queue[g])].is # "torn"
    BY <1>1, <1>2, BrokenLines
  <2>2. QED
    BY <1>5, <1>6, <2>1

\* A batch is the beginning of the file: what is recorded before one of its events and
\* not judged is before it on file, and so in the batch.
LEMMA SubmitSound ==
  ASSUME Typed, NEW g \in Gates, LinkSound(g), GateSound(g),
         NEW c \in Callers, NEW count, Submit(g, c, count), awaiting[g][c] = 0,
         queue'[g] = queue[g], clock' = clock, released' = released, judged' = judged,
         answers'[g] = answers[g],
         cached'[g] = cached[g] \/ \A d \in Callers : awaiting[g][d] = 0
  PROVE  Prefix(g)' /\ InOrder(g)'
<1>0. /\ Len(queue[g]) \in Nat /\ DOMAIN queue[g] = 1 .. Len(queue[g])
      /\ \A i \in DOMAIN queue[g] : queue[g][i].event.ts \in Nat
      /\ Len(wire[g]) \in Nat /\ DOMAIN wire[g] = 1 .. Len(wire[g])
      /\ \A d \in Callers : awaiting[g][d] \in Nat
  <2>1. \A d \in Callers : awaiting[g][d] \in Nat
    BY LimitAssumption DEF Typed
  <2>2. QED
    BY <2>1, LineTyped, WireTyped
<1>1. /\ c \notin answers[g] /\ \A k \in DOMAIN wire[g] : wire[g][k].to # c
      /\ \A d \in answers[g] : awaiting[g][d] > 0
      /\ \A k \in DOMAIN wire[g], d \in Callers : wire[g][k].to = d => awaiting[g][d] > 0
  BY DEF LinkSound
<1>2. CASE awaiting'[g] = awaiting[g] /\ wire'[g] = wire[g]
  <2>1. Prefix(g)'
    <3> SUFFICES ASSUME NEW d \in Callers, Fresh(g, d)'
                 PROVE  /\ \A k \in DOMAIN wire[g] : wire[g][k].to = d =>
                             \A i \in DOMAIN wire[g][k].batch \cap DOMAIN queue[g] :
                                queue[g][i].event = wire[g][k].batch[i]
                        /\ d \in answers[g] =>
                             \A i \in DOMAIN queue[g] : i <= awaiting[g][d] =>
                                <<g, queue[g][i].event>> \in judged
      BY <1>2 DEF Prefix
    <3>1. Fresh(g, d)
      BY <1>0, <1>2 DEF Fresh
    <3>2. QED
      BY <3>1 DEF GateSound, Prefix
  <2>2. InOrder(g)'
    BY <1>2 DEF GateSound, InOrder
  <2>3. QED
    BY <2>1, <2>2
<1>3. ASSUME NEW b \in Seq(Events),
             \A i \in DOMAIN b :
               i \in DOMAIN queue[g] /\ queue[g][i].is = "good" /\ queue[g][i].event = b[i],
             Len(b) = Lesser(Len(queue[g]), BatchLimit),
             \A d \in Callers \ {c} : awaiting'[g][d] = awaiting[g][d],
             DOMAIN wire'[g] = 1 .. Len(wire[g]) + 1,
             \A k \in DOMAIN wire[g] : wire'[g][k] = wire[g][k],
             wire'[g][Len(wire[g]) + 1] = [to |-> c, batch |-> b]
      PROVE  Prefix(g)' /\ InOrder(g)'
  <2> DEFINE n == Len(wire[g]) + 1
  <2>1. /\ \A k \in DOMAIN wire'[g] : k # n => k \in DOMAIN wire[g] /\ wire'[g][k] = wire[g][k]
        /\ wire'[g][n].to = c /\ wire'[g][n].batch = b
    BY <1>0, <1>3
  <2> HIDE DEF n
  <2>2. Prefix(g)'
    <3> SUFFICES ASSUME NEW d \in Callers, Fresh(g, d)'
                 PROVE  /\ \A k \in DOMAIN wire'[g] : wire'[g][k].to = d =>
                             \A i \in DOMAIN wire'[g][k].batch \cap DOMAIN queue'[g] :
                                queue'[g][i].event = wire'[g][k].batch[i]
                        /\ d \in answers'[g] =>
                             \A i \in DOMAIN queue'[g] : i <= awaiting'[g][d] =>
                                <<g, queue'[g][i].event>> \in judged'
      BY DEF Prefix
    <3>1. CASE d = c
      <4>1. ASSUME NEW k \in DOMAIN wire'[g], wire'[g][k].to = d,
                   NEW i \in DOMAIN wire'[g][k].batch \cap DOMAIN queue'[g]
            PROVE  queue'[g][i].event = wire'[g][k].batch[i]
        <5>1. k = n
          BY <1>1, <2>1, <3>1, <4>1
        <5>2. QED
          BY <1>3, <2>1, <4>1, <5>1
      <4>2. d \notin answers'[g]
        BY <1>1, <3>1
      <4>3. QED
        BY <4>1, <4>2
    <3>2. CASE d # c
      <4>1. awaiting'[g][d] = awaiting[g][d] /\ Fresh(g, d)
        BY <1>0, <1>3, <3>2 DEF Fresh
      <4>2. /\ \A k \in DOMAIN wire[g] : wire[g][k].to = d =>
                 \A i \in DOMAIN wire[g][k].batch \cap DOMAIN queue[g] :
                    queue[g][i].event = wire[g][k].batch[i]
            /\ d \in answers[g] =>
                 \A i \in DOMAIN queue[g] : i <= awaiting[g][d] =>
                    <<g, queue[g][i].event>> \in judged
        BY <4>1 DEF GateSound, Prefix
      <4>3. QED
        BY <2>1, <3>2, <4>1, <4>2
    <3>3. QED
      BY <3>1, <3>2
  <2>3. ASSUME NEW i \in DOMAIN b, NEW x \in released, x[1] = g, x[2].ts < b[i].ts
        PROVE  x \in judged \/ \E j \in DOMAIN b : b[j] = x[2]
    <3>1. CASE x \in judged
      BY <3>1
    <3>2. ASSUME NEW j \in DOMAIN queue[g], queue[g][j].event = x[2]
          PROVE  j \in DOMAIN b /\ b[j] = x[2]
      <4>1. queue[g][j].event.ts < queue[g][i].event.ts /\ i \in DOMAIN queue[g]
        BY <1>3, <2>3, <3>2
      <4>2. ~(i <= j)
        BY <1>0, <4>1 DEF GateSound, FileSound
      <4>3. DOMAIN b = 1 .. Len(b) /\ Len(b) \in Nat
        BY BatchTyped
      <4>4. j \in DOMAIN b
        BY <1>0, <4>1, <4>2, <4>3
      <4>5. QED
        BY <1>3, <3>2, <4>4
    <3>3. QED
      BY <2>3, <3>1, <3>2 DEF GateSound, Kept
  <2>4. \A i \in DOMAIN b : b[i].ts < clock
    BY <1>3 DEF GateSound, FileSound
  <2>5. InOrder(g)'
    <3> SUFFICES ASSUME NEW k \in DOMAIN wire'[g], NEW i \in DOMAIN wire'[g][k].batch
                 PROVE  /\ wire'[g][k].batch[i].ts < clock
                        /\ \A x \in released :
                             x[1] = g /\ x[2].ts < wire'[g][k].batch[i].ts =>
                                x \in judged
                                \/ \E j \in DOMAIN wire'[g][k].batch : wire'[g][k].batch[j] = x[2]
      BY DEF InOrder
    <3>1. CASE k = n
      BY <2>1, <2>3, <2>4, <3>1
    <3>2. CASE k # n
      BY <2>1, <3>2 DEF GateSound, InOrder
    <3>3. QED
      BY <3>1, <3>2
  <2>6. QED
    BY <2>2, <2>5
<1>4. QED
  BY <1>2, <1>3, SubmitEffect

LEMMA FileStays ==
  ASSUME NEW g, GateSound(g), queue'[g] = queue[g], clock' = clock,
         released' = released, judged' = judged
  PROVE  FileSound(g)' /\ Past(g)' /\ Kept(g)' /\ Ordered(g)'
BY DEF GateSound, FileSound, Past, Kept, Ordered

LEMMA SubmitCount ==
  ASSUME Typed, NEW g \in Gates, NEW c \in Callers, NEW count, Submit(g, c, count)
  PROVE  \/ awaiting'[g] = awaiting[g]
         \/ /\ awaiting'[g][c] = Lesser(Len(queue[g]), BatchLimit)
            /\ \A d \in Callers \ {c} : awaiting'[g][d] = awaiting[g][d]
<1>1. ASSUME NEW b \in Seq(Events), Len(b) = Lesser(Len(queue[g]), BatchLimit),
             awaiting'[g][c] = Len(b),
             \A d \in Callers \ {c} : awaiting'[g][d] = awaiting[g][d]
      PROVE  /\ awaiting'[g][c] = Lesser(Len(queue[g]), BatchLimit)
             /\ \A d \in Callers \ {c} : awaiting'[g][d] = awaiting[g][d]
  BY <1>1
<1>2. QED
  BY <1>1, SubmitEffect

LEMMA TimerSound ==
  ASSUME Typed, NEW g \in Gates, LinkSound(g), GateSound(g), ReconnectTimer(g)
  PROVE  GateSound(g)'
<1>0. /\ Submit(g, "timer", cached[g]) /\ awaiting[g]["timer"] = 0
      /\ queue' = queue /\ cached' = cached /\ clock' = clock
      /\ released' = released /\ judged' = judged /\ answers' = answers
  BY DEF ReconnectTimer, serverVars, fileVars
<1>1. "timer" \in Callers /\ "start" \in Callers
  BY DEF Callers
<1>2. Prefix(g)' /\ InOrder(g)'
  BY <1>0, <1>1, SubmitSound
<1>3. Overlap(g)'
  <2>1. CASE awaiting'[g] = awaiting[g]
    BY <1>0, <2>1 DEF GateSound, Overlap, Fresh
  <2>2. CASE /\ awaiting'[g]["timer"] = Lesser(Len(queue[g]), BatchLimit)
             /\ awaiting'[g]["start"] = awaiting[g]["start"]
    <3> SUFFICES ASSUME awaiting[g]["start"] > 0
                 PROVE  /\ cached[g] = Len(queue[g])
                        /\ Fresh(g, "start") =>
                             /\ awaiting[g]["start"] \in {Len(queue[g]), BatchLimit}
                             /\ awaiting'[g]["timer"] = awaiting[g]["start"]
      BY <1>0, <2>2 DEF Overlap, Fresh
    <3>1. /\ cached[g] = Len(queue[g])
          /\ Fresh(g, "start") => awaiting[g]["start"] \in {Len(queue[g]), BatchLimit}
      BY DEF GateSound, Overlap
    <3>2. awaiting[g]["start"] \in 0 .. BatchLimit /\ Len(queue[g]) \in Nat
      BY <1>1, LineTyped DEF Typed
    <3>3. QED
      BY <2>2, <3>1, <3>2, LimitAssumption DEF Lesser, Fresh
  <2>3. QED
    <3>1. "start" \in Callers \ {"timer"}
      BY <1>1
    <3>2. QED
      BY <1>0, <1>1, <2>1, <2>2, <3>1, SubmitCount
<1>4. QED
  BY <1>0, <1>2, <1>3, FileStays DEF GateSound

LEMMA StartSound ==
  ASSUME Typed, NEW g \in Gates, LinkSound(g), GateSound(g), Start(g)
  PROVE  GateSound(g)'
<1>0. /\ queue' = queue /\ cached'[g] = Len(queue[g]) /\ clock' = clock
      /\ released' = released /\ judged' = judged /\ answers' = answers
      /\ \A d \in Callers : awaiting[g][d] = 0
      /\ wire[g] = <<>> /\ answers[g] = {}
      /\ \/ awaiting' = awaiting /\ wire' = wire
         \/ Submit(g, "start", Len(queue[g]))
  BY DEF Start, Typed, LinkSound, serverVars
<1>1. "timer" \in Callers /\ "start" \in Callers
  BY DEF Callers
<1>2. CASE awaiting' = awaiting /\ wire' = wire
  <2>1. Prefix(g)' /\ Overlap(g)' /\ InOrder(g)'
    BY <1>0, <1>1, <1>2 DEF Prefix, Overlap, InOrder, Fresh
  <2>2. QED
    BY <1>0, <2>1, FileStays DEF GateSound
<1>3. CASE Submit(g, "start", Len(queue[g]))
  <2>1. Prefix(g)' /\ InOrder(g)'
    BY <1>0, <1>1, <1>3, SubmitSound
  <2>2. \/ awaiting'[g] = awaiting[g]
        \/ /\ awaiting'[g]["start"] = Lesser(Len(queue[g]), BatchLimit)
           /\ awaiting'[g]["timer"] = awaiting[g]["timer"]
    <3>1. "timer" \in Callers \ {"start"}
      BY <1>1
    <3>2. QED
      BY <1>1, <1>3, <3>1, SubmitCount
  <2>3. Overlap(g)'
    BY <1>0, <1>1, <2>2 DEF Overlap, Lesser
  <2>4. QED
    BY <1>0, <2>1, <2>3, FileStays DEF GateSound
<1>4. QED
  BY <1>0, <1>2, <1>3

LEMMA ServeSound ==
  ASSUME Typed, NEW g \in Gates, LinkSound(g), GateSound(g), Serve(g)
  PROVE  GateSound(g)'
<1> DEFINE r == Head(wire[g])
<1>1. /\ wire[g] # <<>>
      /\ judged' = judged \cup {<<g, r.batch[i]>> : i \in DOMAIN r.batch}
      /\ answers'[g] = answers[g] \cup ({r.to} \cap Callers)
      /\ wire'[g] = Tail(wire[g])
      /\ queue' = queue /\ cached' = cached /\ clock' = clock
      /\ released' = released /\ awaiting' = awaiting
  BY DEF Serve, Typed, fileVars
<1>2. /\ wire[g] \in Seq(Request) /\ Len(wire[g]) \in Nat /\ DOMAIN wire[g] = 1 .. Len(wire[g])
  BY WireTyped
<1>3. /\ 1 \in DOMAIN wire[g] /\ r = wire[g][1]
      /\ DOMAIN wire'[g] = 1 .. Len(wire[g]) - 1
      /\ \A k \in DOMAIN wire'[g] : wire'[g][k] = wire[g][k + 1]
  BY <1>1, <1>2, HeadTailProperties, EmptySeq, LenProperties
<1>4. \A k \in DOMAIN wire'[g] : k + 1 \in DOMAIN wire[g] /\ wire'[g][k] = wire[g][k + 1]
  BY <1>2, <1>3
<1>5. r.batch \in Seq(Events) /\ DOMAIN r.batch = 1 .. Len(r.batch) /\ Len(r.batch) \in Nat
  BY <1>3, WireTyped, BatchTyped
<1> HIDE DEF r
<1>6. /\ \A x \in judged : x \in judged'
      /\ \A i \in DOMAIN r.batch : <<g, r.batch[i]>> \in judged'
      /\ \A x \in judged' : x \in judged \/ \E i \in DOMAIN r.batch : x = <<g, r.batch[i]>>
  BY <1>1
<1>7. FileSound(g)'
  BY <1>1 DEF GateSound, FileSound
<1>8. Prefix(g)'
  <2> SUFFICES ASSUME NEW c \in Callers, Fresh(g, c)
               PROVE  /\ \A k \in DOMAIN wire'[g] : wire'[g][k].to = c =>
                           \A i \in DOMAIN wire'[g][k].batch \cap DOMAIN queue[g] :
                              queue[g][i].event = wire'[g][k].batch[i]
                      /\ c \in answers'[g] =>
                           \A i \in DOMAIN queue[g] : i <= awaiting[g][c] =>
                              <<g, queue[g][i].event>> \in judged'
    BY <1>1 DEF Prefix, Fresh
  <2>1. \A k \in DOMAIN wire[g] : wire[g][k].to = c =>
          \A i \in DOMAIN wire[g][k].batch \cap DOMAIN queue[g] :
             queue[g][i].event = wire[g][k].batch[i]
    BY DEF GateSound, Prefix
  <2>2. CASE c \in answers[g]
    BY <1>4, <1>6, <2>1, <2>2 DEF GateSound, Prefix
  <2>3. CASE c \notin answers[g] /\ c \in answers'[g]
    <3>1. r.to = c /\ awaiting[g][c] = Len(r.batch)
      BY <1>1, <1>3, <2>3 DEF LinkSound
    <3>2. ASSUME NEW i \in DOMAIN queue[g], i <= awaiting[g][c]
          PROVE  <<g, queue[g][i].event>> \in judged'
      <4>1. i \in DOMAIN r.batch
        BY <1>5, <3>1, <3>2, LineTyped
      <4>2. queue[g][i].event = r.batch[i]
        BY <1>3, <2>1, <3>1, <4>1
      <4>3. QED
        BY <1>6, <4>1, <4>2
    <3>3. QED
      BY <1>4, <2>1, <3>2
  <2>4. CASE c \notin answers'[g]
    BY <1>4, <2>1, <2>4
  <2>5. QED
    BY <2>2, <2>3, <2>4
<1>9. Overlap(g)'
  BY <1>1 DEF GateSound, Overlap, Fresh
<1>10. InOrder(g)'
  <2> SUFFICES ASSUME NEW k \in DOMAIN wire'[g], NEW i \in DOMAIN wire'[g][k].batch
               PROVE  /\ wire'[g][k].batch[i].ts < clock
                      /\ \A x \in released :
                           x[1] = g /\ x[2].ts < wire'[g][k].batch[i].ts =>
                              x \in judged'
                              \/ \E j \in DOMAIN wire'[g][k].batch : wire'[g][k].batch[j] = x[2]
    BY <1>1 DEF InOrder
  <2>1. k + 1 \in DOMAIN wire[g] /\ wire'[g][k] = wire[g][k + 1]
    BY <1>4
  <2>2. QED
    BY <1>6, <2>1 DEF GateSound, InOrder
<1>11. Past(g)'
  <2>1. \A i \in DOMAIN r.batch : r.batch[i].ts < clock
    BY <1>3 DEF GateSound, InOrder
  <2>2. \A x \in judged' : x[1] = g => x[2].ts < clock
    BY <1>6, <2>1 DEF GateSound, Past
  <2>3. QED
    BY <1>1, <2>2 DEF GateSound, Past
<1>12. Kept(g)'
  BY <1>1, <1>6 DEF GateSound, Kept
<1>13. Ordered(g)'
  <2> SUFFICES ASSUME NEW x \in judged', NEW y \in released,
                      x[1] = g, y[1] = g, y[2].ts < x[2].ts
               PROVE  y \in judged'
    BY <1>1 DEF Ordered
  <2>1. CASE x \in judged
    BY <1>6, <2>1 DEF GateSound, Ordered
  <2>2. ASSUME NEW i \in DOMAIN r.batch, x = <<g, r.batch[i]>> PROVE y \in judged'
    <3>1. y[2].ts < r.batch[i].ts
      BY <2>2
    <3>2. y \in judged \/ \E j \in DOMAIN r.batch : r.batch[j] = y[2]
      BY <1>3, <3>1 DEF GateSound, InOrder
    <3>3. y = <<g, y[2]>>
      BY PairOf DEF Typed
    <3>4. QED
      BY <1>6, <3>2, <3>3
  <2>3. QED
    BY <1>6, <2>1, <2>2
<1>14. QED
  BY <1>7, <1>8, <1>9, <1>10, <1>11, <1>12, <1>13 DEF GateSound

\* A replay that ends without taking lines off: its answer does not fit, the file cannot be
\* rewritten, or nobody waits any more.
LEMMA GiveUpSound ==
  ASSUME Typed, NEW g \in Gates, LinkSound(g), GateSound(g), NEW c \in Callers,
         queue'[g] = queue[g], cached'[g] = cached[g], clock' = clock,
         released' = released, judged' = judged,
         awaiting'[g] = [awaiting[g] EXCEPT ![c] = 0],
         answers'[g] = answers[g] \ {c},
         DOMAIN wire'[g] = DOMAIN wire[g],
         \A k \in DOMAIN wire[g] : /\ wire'[g][k].batch = wire[g][k].batch
                                   /\ wire'[g][k].to \in {wire[g][k].to, "nobody"}
  PROVE  GateSound(g)'
<1>1. /\ \A d \in Callers \ {c} : awaiting'[g][d] = awaiting[g][d]
      /\ awaiting'[g][c] = 0
      /\ "timer" \in Callers /\ "start" \in Callers /\ "nobody" \notin Callers
  BY DEF Typed, Callers
<1>2. Prefix(g)'
  <2> SUFFICES ASSUME NEW d \in Callers, Fresh(g, d)'
               PROVE  /\ \A k \in DOMAIN wire'[g] : wire'[g][k].to = d =>
                           \A i \in DOMAIN wire'[g][k].batch \cap DOMAIN queue[g] :
                              queue[g][i].event = wire'[g][k].batch[i]
                      /\ d \in answers'[g] =>
                           \A i \in DOMAIN queue[g] : i <= awaiting'[g][d] =>
                              <<g, queue[g][i].event>> \in judged
    <3>1. queue'[g] = queue[g] /\ judged' = judged
      OBVIOUS
    <3>2. QED
      BY <3>1 DEF Prefix
  <2>a. awaiting'[g][d] > 0 /\ awaiting'[g][d] <= cached[g]
    BY DEF Fresh
  <2>b. d # c
    BY <1>1, <2>a
  <2>1. d # c /\ awaiting'[g][d] = awaiting[g][d] /\ Fresh(g, d)
    BY <1>1, <2>a, <2>b DEF Fresh
  <2>2. /\ \A k \in DOMAIN wire[g] : wire[g][k].to = d =>
             \A i \in DOMAIN wire[g][k].batch \cap DOMAIN queue[g] :
                queue[g][i].event = wire[g][k].batch[i]
        /\ d \in answers[g] =>
             \A i \in DOMAIN queue[g] : i <= awaiting[g][d] => <<g, queue[g][i].event>> \in judged
    BY <2>1 DEF GateSound, Prefix
  <2>3. ASSUME NEW k \in DOMAIN wire'[g], wire'[g][k].to = d,
               NEW i \in DOMAIN wire'[g][k].batch \cap DOMAIN queue[g]
        PROVE  queue[g][i].event = wire'[g][k].batch[i]
    <3>1. k \in DOMAIN wire[g] /\ wire[g][k].to = d /\ wire'[g][k].batch = wire[g][k].batch
      BY <1>1, <2>3
    <3>2. QED
      BY <2>2, <2>3, <3>1
  <2>4. d \in answers'[g] => d \in answers[g]
    OBVIOUS
  <2>5. QED
    BY <2>1, <2>2, <2>3, <2>4
<1>3. Overlap(g)'
  BY <1>1 DEF GateSound, Overlap, Fresh
<1>4. InOrder(g)'
  BY DEF GateSound, InOrder
<1>5. QED
  BY <1>2, <1>3, <1>4, FileStays DEF GateSound

\* An answer takes off judged lines, and makes the replay it overlaps with stale.
LEMMA AcknowledgeSound ==
  ASSUME Typed, NEW g \in Gates, LinkSound(g), GateSound(g), ShortWhenTwoWait,
         NEW c \in Callers, Acknowledge(g, c)
  PROVE  GateSound(g)'
<1> DEFINE n == awaiting[g][c]
<1>1. /\ c \in answers[g] /\ (c = "start" => awaiting[g]["timer"] = 0)
      /\ awaiting' = [awaiting EXCEPT ![g][c] = 0] /\ answers' = [answers EXCEPT ![g] = @ \ {c}]
      /\ clock' = clock /\ released' = released /\ judged' = judged /\ wire' = wire
      /\ \/ /\ n <= cached[g] /\ n <= Len(queue[g])
            /\ queue' = [queue EXCEPT ![g] = Rest(@, n)]
            /\ cached' = [cached EXCEPT ![g] = @ - n]
         \/ queue' = queue /\ cached' = cached
  BY DEF Acknowledge, Innermost, serverVars, fileVars
<1>2. /\ awaiting'[g] = [awaiting[g] EXCEPT ![c] = 0]
      /\ answers'[g] = answers[g] \ {c}
      /\ \A d \in Callers \ {c} : awaiting'[g][d] = awaiting[g][d]
      /\ awaiting'[g][c] = 0
  BY <1>1 DEF Typed
<1>3. CASE queue' = queue /\ cached' = cached
  BY <1>1, <1>2, <1>3, GiveUpSound
<1>4. CASE /\ n <= cached[g] /\ n <= Len(queue[g])
           /\ queue' = [queue EXCEPT ![g] = Rest(@, n)]
           /\ cached' = [cached EXCEPT ![g] = @ - n]
  <2>1. n \in Nat /\ n > 0 /\ cached[g] \in Nat /\ cached'[g] = cached[g] - n
        /\ queue'[g] = Rest(queue[g], n)
    BY <1>1, <1>4, LimitAssumption DEF Typed, LinkSound
  <2>2. /\ queue[g] \in Seq(Lines) /\ Len(queue[g]) \in Nat
        /\ DOMAIN queue[g] = 1 .. Len(queue[g])
    BY LineTyped
  <2>3. /\ queue'[g] \in Seq(Lines) /\ Len(queue'[g]) = Len(queue[g]) - n
        /\ \A i \in 1 .. Len(queue'[g]) :
             /\ queue'[g][i].event = queue[g][n + i].event /\ queue'[g][i].is # "torn"
             /\ queue'[g][i].is = "good" => queue[g][n + i].is = "good"
    BY <1>4, <2>1, <2>2, RestLines
  <2>4. DOMAIN queue'[g] = 1 .. Len(queue[g]) - n
        /\ \A i \in DOMAIN queue'[g] : n + i \in DOMAIN queue[g]
    BY <2>1, <2>2, <2>3, LenProperties
  <2> HIDE DEF n
  <2>5. FileSound(g)'
    <3>1. \A i, j \in DOMAIN queue'[g] : i <= j => queue'[g][i].event.ts <= queue'[g][j].event.ts
      <4> SUFFICES ASSUME NEW i \in DOMAIN queue'[g], NEW j \in DOMAIN queue'[g], i <= j
                   PROVE  queue'[g][i].event.ts <= queue'[g][j].event.ts
        OBVIOUS
      <4>1. n + i \in DOMAIN queue[g] /\ n + j \in DOMAIN queue[g] /\ n + i <= n + j
        BY <2>1, <2>2, <2>4
      <4>2. queue[g][n + i].event.ts <= queue[g][n + j].event.ts
        BY <4>1 DEF GateSound, FileSound
      <4>3. QED
        BY <2>3, <2>4, <4>2
    <3>2. \A i \in DOMAIN queue'[g] :
            /\ queue'[g][i].event.ts <= clock
            /\ queue'[g][i].is = "good" => queue'[g][i].event.ts < clock
            /\ queue'[g][i].is # "torn"
      BY <2>3, <2>4 DEF GateSound, FileSound
    <3>3. QED
      BY <1>1, <3>1, <3>2 DEF FileSound
  <2>6. \A i \in DOMAIN queue[g] : i <= n => <<g, queue[g][i].event>> \in judged
    BY <1>1, <1>4, <2>1 DEF GateSound, Prefix, Fresh, n
  <2>7. Kept(g)'
    <3> SUFFICES ASSUME NEW x \in released, x[1] = g, x \notin judged
                 PROVE  \E i \in DOMAIN queue'[g] : queue'[g][i].event = x[2]
      BY <1>1 DEF Kept
    <3>1. PICK i \in DOMAIN queue[g] : queue[g][i].event = x[2]
      BY DEF GateSound, Kept
    <3>2. x = <<g, x[2]>>
      BY PairOf DEF Typed
    <3>3. ~(i <= n)
      BY <2>6, <3>1, <3>2
    <3>4. i - n \in DOMAIN queue'[g] /\ n + (i - n) = i
      BY <2>1, <2>2, <2>4, <3>3
    <3>5. QED
      BY <2>3, <2>4, <3>1, <3>4
  <2>8. ASSUME NEW d \in Callers PROVE ~Fresh(g, d)'
    <3>1. CASE d = c
      BY <1>2, <3>1 DEF Fresh
    <3>2. CASE d # c
      <4> SUFFICES ASSUME awaiting[g][d] > 0, awaiting[g][d] <= cached[g] - n
                   PROVE  FALSE
        BY <1>2, <2>1, <3>2 DEF Fresh
      <4>1. c = "timer" /\ d = "start"
        BY <1>1, <3>2 DEF Callers
      <4>2. awaiting[g]["start"] \in Nat /\ awaiting[g]["start"] <= cached[g]
        BY <2>1, <4>1, LimitAssumption DEF Typed
      <4>3. /\ cached[g] = Len(queue[g])
            /\ awaiting[g]["start"] \in {Len(queue[g]), BatchLimit}
            /\ n \in {0, awaiting[g]["start"]}
        BY <4>1, <4>2 DEF GateSound, Overlap, Fresh, n
      <4>4. cached[g] < 2 * BatchLimit
        BY <2>1, <4>1, <4>2 DEF ShortWhenTwoWait, n
      <4>5. QED
        BY <2>1, <2>2, <4>1, <4>2, <4>3, <4>4, LimitAssumption
    <3>3. QED
      BY <3>1, <3>2
  <2>9. Prefix(g)'
    BY <2>8 DEF Prefix
  <2>10. Overlap(g)'
    <3>1. "start" \in Callers
      BY DEF Callers
    <3>2. awaiting'[g]["start"] > 0 => awaiting[g]["start"] > 0
      BY <1>2, <3>1
    <3>3. awaiting'[g]["start"] > 0 => cached'[g] = Len(queue'[g])
      BY <2>1, <2>3, <3>2 DEF GateSound, Overlap
    <3>4. QED
      BY <2>8, <3>1, <3>3 DEF Overlap
  <2>11. InOrder(g)' /\ Past(g)' /\ Ordered(g)'
    BY <1>1 DEF GateSound, InOrder, Past, Ordered
  <2>12. QED
    BY <2>5, <2>7, <2>9, <2>10, <2>11 DEF GateSound
<1>5. QED
  BY <1>1, <1>3, <1>4

LEMMA TimeOutSound ==
  ASSUME Typed, NEW g \in Gates, LinkSound(g), GateSound(g), NEW c \in Callers, TimeOut(g, c)
  PROVE  GateSound(g)'
<1>1. /\ awaiting'[g] = [awaiting[g] EXCEPT ![c] = 0]
      /\ wire'[g] = [i \in DOMAIN wire[g] |-> IF wire[g][i].to = c
                                              THEN [wire[g][i] EXCEPT !.to = "nobody"]
                                              ELSE wire[g][i]]
      /\ answers'[g] = answers[g] \ {c}
      /\ queue' = queue /\ cached' = cached /\ clock' = clock
      /\ released' = released /\ judged' = judged
  BY DEF TimeOut, Typed, serverVars, fileVars
<1>2. \A r \in Request : /\ [r EXCEPT !.to = "nobody"].to = "nobody"
                         /\ [r EXCEPT !.to = "nobody"].batch = r.batch
  BY DEF Request
<1>3. \A k \in DOMAIN wire[g] : wire[g][k] \in Request
  BY WireTyped
<1>4. DOMAIN wire'[g] = DOMAIN wire[g]
      /\ \A k \in DOMAIN wire[g] : /\ wire'[g][k].batch = wire[g][k].batch
                                   /\ wire'[g][k].to \in {wire[g][k].to, "nobody"}
  BY <1>1, <1>2, <1>3
<1>5. QED
  BY <1>1, <1>4, GiveUpSound

LEMMA GiveUpInAckSound ==
  ASSUME Typed, NEW g \in Gates, LinkSound(g), GateSound(g), NEW c \in Callers,
         AcknowledgeFails(g, c)
  PROVE  GateSound(g)'
<1>1. /\ awaiting'[g] = [awaiting[g] EXCEPT ![c] = 0] /\ answers'[g] = answers[g] \ {c}
      /\ wire' = wire /\ queue' = queue /\ cached' = cached /\ clock' = clock
      /\ released' = released /\ judged' = judged
  BY DEF AcknowledgeFails, Typed, serverVars, fileVars
<1>2. QED
  BY <1>1, GiveUpSound

\* A connection that breaks, or a terminal that stops, leaves the file.
LEMMA BreakSound ==
  ASSUME Typed, NEW g \in Gates, LinkSound(g), GateSound(g), Drop(g) \/ Stop(g)
  PROVE  GateSound(g)'
<1>1. /\ queue' = queue /\ clock' = clock /\ released' = released /\ judged' = judged
      /\ wire'[g] = <<>> /\ answers'[g] = {}
      /\ \/ awaiting' = awaiting /\ cached' = cached
         \/ \A c \in Callers : awaiting'[g][c] = 0
  BY DEF Drop, Stop, Typed, serverVars, fileVars
<1>2. DOMAIN wire'[g] = {} /\ "start" \in Callers
  BY <1>1 DEF Callers
<1>3. Prefix(g)' /\ InOrder(g)'
  BY <1>1, <1>2 DEF Prefix, InOrder
<1>4. Overlap(g)'
  BY <1>1, <1>2 DEF GateSound, Overlap, Fresh
<1>5. QED
  BY <1>1, <1>3, <1>4, FileStays DEF GateSound

-----------------------------------------------------------------------------
(***************************************************************************)
(* The theorems.                                                           *)
(***************************************************************************)
IInv == Linked /\ \A g \in Gates : GateSound(g)

LEMMA SoundInit == Init => IInv
<1> SUFFICES ASSUME Init PROVE IInv
  OBVIOUS
<1>1. Linked
  BY LinkedInit
<1>2. ASSUME NEW g \in Gates PROVE GateSound(g)
  <2>1. /\ queue[g] = <<>> /\ wire[g] = <<>> /\ DOMAIN queue[g] = {} /\ DOMAIN wire[g] = {}
        /\ \A c \in Callers : awaiting[g][c] = 0
        /\ answers[g] = {} /\ released = {} /\ judged = {} /\ "start" \in Callers
    BY DEF Init, Callers
  <2>2. FileSound(g) /\ Prefix(g) /\ Overlap(g) /\ InOrder(g)
    BY <2>1 DEF FileSound, Prefix, Overlap, InOrder, Fresh
  <2>3. Past(g) /\ Kept(g) /\ Ordered(g)
    BY <2>1 DEF Past, Kept, Ordered
  <2>4. QED
    BY <2>2, <2>3 DEF GateSound
<1>3. QED
  BY <1>1, <1>2 DEF IInv

LEMMA SoundNext == IInv /\ ShortWhenTwoWait /\ [Next]_vars => IInv'
<1> SUFFICES ASSUME IInv, ShortWhenTwoWait, [Next]_vars PROVE IInv'
  OBVIOUS
<1>1. Linked' /\ Typed /\ Typed' /\ \A g \in Gates : LinkSound(g) /\ GateSound(g)
  BY LinkedNext DEF IInv, Linked
<1>2. ASSUME NEW g \in Gates, StepOf(g) PROVE \A h \in Gates : GateSound(h)'
  <2>1. \A h \in Gates \ {g} : GateSound(h)'
    BY <1>1, <1>2, StepAside, SoundAside
  <2>2. ASSUME NEW p \in Plates, RecordOffline(g, p) \/ AppendFails(g, p) PROVE GateSound(g)'
    BY <1>1, <2>2, RecordSound, FailSound
  <2>3. ASSUME ReconnectTimer(g) \/ Start(g) \/ Serve(g) \/ Drop(g) \/ Stop(g)
        PROVE  GateSound(g)'
    <3>1. CASE ReconnectTimer(g)
      BY <1>1, <3>1, TimerSound
    <3>2. CASE Start(g)
      BY <1>1, <3>2, StartSound
    <3>3. CASE Serve(g)
      BY <1>1, <3>3, ServeSound
    <3>4. CASE Drop(g) \/ Stop(g)
      BY <1>1, <3>4, BreakSound
    <3>5. QED
      BY <2>3, <3>1, <3>2, <3>3, <3>4
  <2>4. ASSUME NEW c \in Callers, Acknowledge(g, c) \/ AcknowledgeFails(g, c) \/ TimeOut(g, c)
        PROVE  GateSound(g)'
    BY <1>1, <2>4, AcknowledgeSound, GiveUpInAckSound, TimeOutSound
  <2>5. GateSound(g)'
    BY <1>2, <2>2, <2>3, <2>4 DEF StepOf
  <2>6. QED
    BY <2>1, <2>5
<1>3. CASE UNCHANGED vars
  <2> SUFFICES ASSUME NEW g \in Gates PROVE GateSound(g)'
    BY <1>1 DEF IInv
  <2>1. GateSound(g)
    BY <1>1
  <2>2. FileSound(g)' /\ Past(g)' /\ Kept(g)' /\ Ordered(g)'
    BY <1>3, <2>1, FileStays DEF vars
  <2>3. Prefix(g)' /\ Overlap(g)'
    BY <1>3, <2>1 DEF vars, GateSound, Prefix, Overlap, Fresh
  <2>4. InOrder(g)'
    BY <1>3, <2>1 DEF vars, GateSound, InOrder
  <2>5. QED
    BY <2>2, <2>3, <2>4 DEF GateSound
<1>4. QED
  BY <1>1, <1>2, <1>3 DEF IInv, Next, StepOf

LEMMA SoundKeepsAll == IInv => NothingDropped /\ JudgedInOrder
<1> SUFFICES ASSUME IInv PROVE NothingDropped /\ JudgedInOrder
  OBVIOUS
<1>1. Typed /\ TypeOK /\ \A g \in Gates : GateSound(g)
  BY LinkedTypeOK DEF IInv, Linked
<1>2. \A x \in released \cup judged : x[1] \in Gates
  BY <1>1, PairOf DEF Typed
<1>3. NothingDropped
  BY <1>1, <1>2 DEF NothingDropped, GateSound, Kept
<1>4. JudgedInOrder
  <2> SUFFICES ASSUME NEW x \in judged, NEW y \in released, x[1] = y[1], y[2].ts < x[2].ts
               PROVE  y \in judged
    BY DEF JudgedInOrder
  <2>1. Ordered(x[1])
    BY <1>1, <1>2 DEF GateSound
  <2>2. QED
    BY <2>1 DEF Ordered
<1>5. QED
  BY <1>3, <1>4

\* Whatever is lost, stopped or retried, a vehicle let through stays on file until its event
\* has a verdict, as long as no two replays of a gate wait while it has two full
\* batches on file.
THEOREM ReplayKeepsWhatIsNotJudged == Spec /\ []ShortWhenTwoWait => []NothingDropped
<1>1. IInv => NothingDropped
  BY SoundKeepsAll
<1>2. QED
  BY <1>1, SoundInit, SoundNext, PTL DEF Spec

\* Under the same condition the server judges the events of a gate in the order they were
\* recorded.
THEOREM ReplayJudgesInOrder == Spec /\ []ShortWhenTwoWait => []JudgedInOrder
<1>1. IInv => JudgedInOrder
  BY SoundKeepsAll
<1>2. QED
  BY <1>1, SoundInit, SoundNext, PTL DEF Spec

-----------------------------------------------------------------------------
(***************************************************************************)
(* What leaves the file.                                                   *)
(***************************************************************************)

\* A line that can be read is about a vehicle the barrier was opened for.
GoodLines == \A g \in Gates : \A i \in DOMAIN queue[g] :
                queue[g][i].is = "good" => <<g, queue[g][i].event>> \in released

\* A step brings no good line into a file but that of a vehicle it lets through.
LEMMA GoodStep ==
  ASSUME Typed, NEW g \in Gates, StepOf(g)
  PROVE  /\ released \subseteq released'
         /\ \A i \in DOMAIN queue'[g] : queue'[g][i].is = "good" =>
              \/ <<g, queue'[g][i].event>> \in released'
              \/ \E k \in DOMAIN queue[g] : queue[g][k].is = "good"
                                            /\ queue[g][k].event = queue'[g][i].event
<1>0. /\ queue[g] \in Seq(Lines) /\ Len(queue[g]) \in Nat
      /\ DOMAIN queue[g] = 1 .. Len(queue[g])
  BY LineTyped
<1>1. ASSUME NEW p \in Plates, RecordOffline(g, p)
      PROVE  /\ released \subseteq released'
             /\ \A i \in DOMAIN queue'[g] : queue'[g][i].is = "good" =>
                  \/ <<g, queue'[g][i].event>> \in released'
                  \/ \E k \in DOMAIN queue[g] : queue[g][k].is = "good"
                                                /\ queue[g][k].event = queue'[g][i].event
  <2> DEFINE e == [kind |-> Kind[g], plate |-> p, ts |-> clock]
  <2>1. /\ queue' = [queue EXCEPT ![g] = Appended(@, e)]
        /\ released' = released \cup {<<g, e>>} /\ clock <= MaxEvents
    BY <1>1 DEF RecordOffline
  <2>2. e \in Events
    BY <2>1, EventAtClock
  <2> HIDE DEF e
  <2>3. queue'[g] = Appended(queue[g], e)
    BY <2>1 DEF Typed
  <2>4. /\ queue'[g] \in Seq(Lines) /\ Len(queue'[g]) \in {Len(queue[g]), Len(queue[g]) + 1}
        /\ queue'[g][Len(queue'[g])].event = e
        /\ \A i \in 1 .. Len(queue'[g]) - 1 : queue'[g][i] = queue[g][i]
    BY <1>0, <2>2, <2>3, AppendedLines
  <2>5. DOMAIN queue'[g] = 1 .. Len(queue'[g])
    BY <2>4, LenProperties
  <2>6. ASSUME NEW i \in DOMAIN queue'[g], i # Len(queue'[g])
        PROVE  i \in DOMAIN queue[g] /\ queue'[g][i] = queue[g][i]
    BY <1>0, <2>4, <2>5, <2>6
  <2>7. QED
    BY <2>1, <2>4, <2>6
<1>2. ASSUME NEW p \in Plates, AppendFails(g, p)
      PROVE  /\ released \subseteq released'
             /\ \A i \in DOMAIN queue'[g] : queue'[g][i].is = "good" =>
                  i \in DOMAIN queue[g] /\ queue[g][i] = queue'[g][i]
  <2> DEFINE e == [kind |-> Kind[g], plate |-> p, ts |-> clock]
  <2>1. /\ queue' = [queue EXCEPT ![g] = Broken(@, e)]
        /\ released' = released /\ clock <= MaxEvents
    BY <1>2 DEF AppendFails
  <2>2. e \in Events
    BY <2>1, EventAtClock
  <2> HIDE DEF e
  <2>3. queue'[g] = Broken(queue[g], e)
    BY <2>1 DEF Typed
  <2>4. \/ queue'[g] = queue[g]
        \/ /\ queue'[g] \in Seq(Lines) /\ Len(queue'[g]) = Len(queue[g]) + 1
           /\ queue'[g][Len(queue'[g])] = [event |-> e, is |-> "torn"]
           /\ \A i \in 1 .. Len(queue[g]) : queue'[g][i] = queue[g][i]
    BY <1>0, <2>2, <2>3, BrokenLines
  <2>5. CASE queue'[g] = queue[g]
    BY <2>1, <2>5
  <2>6. CASE /\ queue'[g] \in Seq(Lines) /\ Len(queue'[g]) = Len(queue[g]) + 1
             /\ queue'[g][Len(queue'[g])] = [event |-> e, is |-> "torn"]
             /\ \A i \in 1 .. Len(queue[g]) : queue'[g][i] = queue[g][i]
    <3>1. DOMAIN queue'[g] = 1 .. Len(queue[g]) + 1
      BY <2>6, LenProperties
    <3>2. queue'[g][Len(queue[g]) + 1].is # "good"
      BY <2>6
    <3>3. QED
      BY <1>0, <2>1, <2>6, <3>1, <3>2
  <2>7. QED
    BY <2>4, <2>5, <2>6
<1>3. ASSUME NEW c \in Callers, Acknowledge(g, c)
      PROVE  /\ released \subseteq released'
             /\ \A i \in DOMAIN queue'[g] : queue'[g][i].is = "good" =>
                  \E k \in DOMAIN queue[g] : queue[g][k].is = "good"
                                             /\ queue[g][k].event = queue'[g][i].event
  <2> DEFINE n == awaiting[g][c]
  <2>1. /\ released' = released
        /\ \/ n <= Len(queue[g]) /\ queue' = [queue EXCEPT ![g] = Rest(@, n)]
           \/ queue' = queue
    BY <1>3 DEF Acknowledge, fileVars
  <2>2. n \in Nat
    BY LimitAssumption DEF Typed
  <2> HIDE DEF n
  <2>3. CASE n <= Len(queue[g]) /\ queue' = [queue EXCEPT ![g] = Rest(@, n)]
    <3>1. queue'[g] = Rest(queue[g], n)
      BY <2>3 DEF Typed
    <3>2. /\ queue'[g] \in Seq(Lines) /\ Len(queue'[g]) = Len(queue[g]) - n
          /\ \A i \in 1 .. Len(queue'[g]) :
               /\ queue'[g][i].event = queue[g][n + i].event
               /\ queue'[g][i].is = "good" => queue[g][n + i].is = "good"
      BY <1>0, <2>2, <2>3, <3>1, RestLines
    <3>3. DOMAIN queue'[g] = 1 .. Len(queue'[g])
      BY <3>2, LenProperties
    <3>4. \A i \in 1 .. Len(queue'[g]) : n + i \in DOMAIN queue[g]
      BY <1>0, <2>2, <3>2
    <3>5. QED
      BY <2>1, <3>2, <3>3, <3>4
  <2>4. QED
    BY <2>1, <2>3
<1>4. ASSUME \/ ReconnectTimer(g) \/ Start(g) \/ Serve(g) \/ Drop(g) \/ Stop(g)
             \/ \E c \in Callers : AcknowledgeFails(g, c) \/ TimeOut(g, c)
      PROVE  released' = released /\ queue' = queue
  BY <1>4 DEF ReconnectTimer, Start, Serve, Drop, Stop, AcknowledgeFails, TimeOut, fileVars
<1>5. QED
  BY <1>1, <1>2, <1>3, <1>4 DEF StepOf

LEMMA GoodLinesNext == Typed /\ GoodLines /\ [Next]_vars => GoodLines'
<1> SUFFICES ASSUME Typed, GoodLines, [Next]_vars PROVE GoodLines'
  OBVIOUS
<1>1. CASE UNCHANGED vars
  BY <1>1 DEF vars, GoodLines
<1>2. ASSUME NEW g \in Gates, StepOf(g) PROVE GoodLines'
  <2>1. \A h \in Gates \ {g} : queue'[h] = queue[h]
    BY <1>2, StepAside DEF Aside
  <2>2. released \subseteq released'
    BY <1>2, GoodStep
  <2>3. ASSUME NEW i \in DOMAIN queue'[g], queue'[g][i].is = "good"
        PROVE  <<g, queue'[g][i].event>> \in released'
    BY <1>2, <2>2, <2>3, GoodStep DEF GoodLines
  <2>4. QED
    BY <2>1, <2>2, <2>3 DEF GoodLines
<1>3. QED
  BY <1>1, <1>2 DEF Next, StepOf

\* The server judges, or a file changes.
LEMMA JudgesOrWrites ==
  [Next]_vars => judged' = judged \/ queue' = queue
<1> SUFFICES ASSUME [Next]_vars PROVE judged' = judged \/ queue' = queue
  OBVIOUS
<1>1. ASSUME NEW g \in Gates, NEW p \in Plates, RecordOffline(g, p) \/ AppendFails(g, p)
      PROVE  judged' = judged
  BY <1>1 DEF RecordOffline, AppendFails, serverVars
<1>2. ASSUME NEW g \in Gates, ReconnectTimer(g) \/ Start(g) \/ Serve(g) \/ Drop(g) \/ Stop(g)
      PROVE  queue' = queue
  BY <1>2 DEF ReconnectTimer, Start, Serve, Drop, Stop, fileVars
<1>3. ASSUME NEW g \in Gates, NEW c \in Callers,
             Acknowledge(g, c) \/ AcknowledgeFails(g, c) \/ TimeOut(g, c)
      PROVE  judged' = judged
  BY <1>3 DEF Acknowledge, AcknowledgeFails, TimeOut, serverVars
<1>4. CASE UNCHANGED vars
  BY <1>4 DEF vars
<1>5. QED
  BY <1>1, <1>2, <1>3, <1>4 DEF Next

\* What the terminal takes off its file has a verdict of the server, and nothing else ever
\* leaves it, as long as no two replays of a gate wait while it has two full
\* batches on file.
THEOREM OnlyJudgedIsTakenOff == Spec /\ []ShortWhenTwoWait => OnlyJudgedLeaves
<1> DEFINE Left == \A g \in Gates : \A i \in DOMAIN queue[g] :
                     queue[g][i].is = "good" =>
                        \/ <<g, queue[g][i].event>> \in judged
                        \/ \E k \in DOMAIN queue'[g] : queue'[g][k].event = queue[g][i].event
<1>1. Init => GoodLines
  <2>1. ASSUME Init, NEW g \in Gates PROVE DOMAIN queue[g] = {}
    BY <2>1 DEF Init
  <2>2. QED
    BY <2>1 DEF GoodLines
<1>2. IInv /\ GoodLines /\ [Next]_vars => GoodLines'
  BY GoodLinesNext DEF IInv, Linked
<1>3. IInv /\ GoodLines /\ [Next]_vars /\ NothingDropped' => [Left]_vars
  <2> SUFFICES ASSUME IInv, GoodLines, [Next]_vars, NothingDropped',
                      NEW g \in Gates, NEW i \in DOMAIN queue[g], queue[g][i].is = "good",
                      <<g, queue[g][i].event>> \notin judged
               PROVE  \E k \in DOMAIN queue'[g] : queue'[g][k].event = queue[g][i].event
    OBVIOUS
  <2> DEFINE e == queue[g][i].event
  <2>1. <<g, e>> \in released
    BY DEF GoodLines
  <2>2. CASE queue' = queue
    BY <2>2
  <2>3. CASE judged' = judged
    <3>1. released \subseteq released'
      <4>1. Typed
        BY DEF IInv, Linked
      <4>2. CASE UNCHANGED vars
        BY <4>2 DEF vars
      <4>3. ASSUME NEW h \in Gates, StepOf(h) PROVE released \subseteq released'
        BY <4>1, <4>3, GoodStep
      <4>4. QED
        BY <4>2, <4>3 DEF Next, StepOf
    <3>2. <<g, e>> \in released' /\ <<g, e>> \notin judged'
      BY <2>1, <2>3, <3>1
    <3> HIDE DEF e
    <3>3. \E k \in DOMAIN queue'[g] : queue'[g][k].event = e
      BY <3>2 DEF NothingDropped
    <3>4. QED
      BY <3>3 DEF e
  <2>4. QED
    BY <2>2, <2>3, JudgesOrWrites
<1>4. IInv => NothingDropped
  BY SoundKeepsAll
<1>5. QED
  BY <1>1, <1>2, <1>3, <1>4, SoundInit, SoundNext, PTL DEF Spec, OnlyJudgedLeaves
=============================================================================
