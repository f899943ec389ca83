------------------------ MODULE LprSchedulerProofs ------------------------
(***************************************************************************)
(* Proofs about LprScheduler, for any number of jobs, callers and workers  *)
(* and any length of the queue: the load stays bounded and the books agree *)
(* (LoadSound), no worker idles while a job waits (WorkConserving), and    *)
(* the scheduler implements the safety part of AnswerOnce.                 *)
(*                                                                         *)
(* The calls in progress matter through two facts only: who is in the      *)
(* stack, and that startNext is there at most once.  The lemmas on the     *)
(* stack say what pushing and popping does to these, those on the queue    *)
(* what appending and removing does to its set of jobs.                    *)
(***************************************************************************)
EXTENDS LprScheduler, SequenceTheorems, FiniteSetTheorems, TLAPS

-----------------------------------------------------------------------------
(***************************************************************************)
(* What sequence operators do to the set of elements.                      *)
(***************************************************************************)

\* Appending adds one element.
LEMMA AppendSet ==
  ASSUME NEW S, NEW s \in Seq(S), NEW e \in S
  PROVE  /\ Append(s, e) \in Seq(S)
         /\ Len(Append(s, e)) = Len(s) + 1
         /\ ToSet(Append(s, e)) = ToSet(s) \union {e}
         /\ IsInjective(s) /\ e \notin ToSet(s) => IsInjective(Append(s, e))
         /\ \A i \in DOMAIN s : i \in DOMAIN Append(s, e) /\ Append(s, e)[i] = s[i]
         /\ \A i \in DOMAIN Append(s, e) :
               i \in DOMAIN s \/ (i = Len(s) + 1 /\ Append(s, e)[i] = e)
<1> DEFINE t == Append(s, e)
<1>1. /\ t \in Seq(S) /\ Len(t) = Len(s) + 1
      /\ \A i \in 1 .. Len(s) : t[i] = s[i]
      /\ t[Len(s) + 1] = e
  BY AppendProperties
<1>2. /\ Len(s) \in Nat /\ DOMAIN s = 1 .. Len(s) /\ DOMAIN t = 1 .. Len(s) + 1
  BY <1>1, LenProperties
<1> HIDE DEF t
<1>3. ToSet(t) = ToSet(s) \union {e}
  <2>1. \A i \in DOMAIN s : i \in DOMAIN t /\ t[i] = s[i]
    BY <1>1, <1>2
  <2>2. \A i \in DOMAIN t : i \in DOMAIN s \/ i = Len(s) + 1
    BY <1>2
  <2>3. Len(s) + 1 \in DOMAIN t
    BY <1>2
  <2>4. QED
    BY <1>1, <2>1, <2>2, <2>3 DEF ToSet
<1>4. IsInjective(s) /\ e \notin ToSet(s) => IsInjective(t)
  BY <1>1, <1>2 DEF IsInjective, ToSet
<1>5. /\ \A i \in DOMAIN s : i \in DOMAIN t /\ t[i] = s[i]
      /\ \A i \in DOMAIN t : i \in DOMAIN s \/ (i = Len(s) + 1 /\ t[i] = e)
  BY <1>1, <1>2
<1>6. QED
  BY <1>1, <1>3, <1>4, <1>5 DEF t

\* The head of a queue without repetitions is not in its tail.
LEMMA TailSet ==
  ASSUME NEW S, NEW s \in Seq(S), s # <<>>, IsInjective(s)
  PROVE  /\ Head(s) \in ToSet(s)
         /\ Tail(s) \in Seq(S)
         /\ Len(Tail(s)) = Len(s) - 1
         /\ ToSet(Tail(s)) = ToSet(s) \ {Head(s)}
         /\ IsInjective(Tail(s))
<1> DEFINE t == Tail(s)
<1>1. /\ t \in Seq(S) /\ Len(t) = Len(s) - 1
      /\ \A i \in 1 .. Len(t) : t[i] = s[i + 1]
  BY HeadTailProperties
<1>2. /\ Len(s) \in Nat \ {0} /\ DOMAIN s = 1 .. Len(s) /\ DOMAIN t = 1 .. Len(s) - 1
  BY <1>1, LenProperties, EmptySeq
<1>3. Head(s) = s[1]
  BY <1>2
<1> HIDE DEF t
<1>4. Head(s) \in ToSet(s)
  BY <1>2, <1>3 DEF ToSet
<1>5. ToSet(t) = ToSet(s) \ {Head(s)}
  <2>1. \A i \in DOMAIN t : i + 1 \in DOMAIN s /\ t[i] = s[i + 1] /\ i + 1 # 1
    BY <1>1, <1>2
  <2>2. \A i \in DOMAIN s : i = 1 \/ (i - 1 \in DOMAIN t /\ t[i - 1] = s[i])
    BY <1>1, <1>2
  <2>3. 1 \in DOMAIN s
    BY <1>2
  <2>4. QED
    BY <1>3, <2>1, <2>2, <2>3 DEF ToSet, IsInjective
<1>6. IsInjective(t)
  BY <1>1, <1>2 DEF IsInjective
<1>7. QED
  BY <1>1, <1>4, <1>5, <1>6 DEF t

\* Taking a job out of a queue without repetitions.
LEMMA RemoveSet ==
  ASSUME NEW S, NEW s \in Seq(S), IsInjective(s), NEW k \in DOMAIN s
  PROVE  /\ RemoveAt(s, k) \in Seq(S)
         /\ Len(RemoveAt(s, k)) = Len(s) - 1
         /\ ToSet(RemoveAt(s, k)) = ToSet(s) \ {s[k]}
         /\ IsInjective(RemoveAt(s, k))
<1> DEFINE a == SubSeq(s, 1, k - 1)
           b == SubSeq(s, k + 1, Len(s))
           t == a \o b
<1>1. Len(s) \in Nat /\ DOMAIN s = 1 .. Len(s) /\ k \in 1 .. Len(s)
      /\ \A i \in 1 .. Len(s) : s[i] \in S
  BY LenProperties, ElementOfSeq
<1>2. /\ a \in Seq(S) /\ Len(a) = k - 1
      /\ \A i \in 1 .. k - 1 : a[i] = s[i]
  <2>1. \A i \in 1 .. k - 1 : s[i] \in S
    BY <1>1
  <2>2. QED
    BY <1>1, <2>1, SubSeqProperties
<1>3. /\ b \in Seq(S) /\ Len(b) = Len(s) - k
      /\ \A i \in 1 .. Len(s) - k : b[i] = s[k + i]
  <2>1. \A i \in k + 1 .. Len(s) : s[i] \in S
    BY <1>1
  <2>2. /\ b \in Seq(S)
        /\ Len(b) = IF k + 1 <= Len(s) THEN Len(s) - (k + 1) + 1 ELSE 0
        /\ \A i \in 1 .. Len(s) - (k + 1) + 1 : b[i] = s[(k + 1) + i - 1]
    BY <1>1, <2>1, SubSeqProperties
  <2> HIDE DEF b
  <2>3. \A i \in 1 .. Len(s) - k : (k + 1) + i - 1 = k + i
    BY <1>1
  <2>4. QED
    BY <1>1, <2>2, <2>3
<1> HIDE DEF a, b
<1>4. /\ t \in Seq(S) /\ Len(t) = Len(s) - 1
      /\ \A i \in 1 .. Len(s) - 1 : t[i] = IF i <= k - 1 THEN a[i] ELSE b[i - (k - 1)]
  <2>1. /\ t \in Seq(S) /\ Len(t) = Len(a) + Len(b)
        /\ \A i \in 1 .. Len(a) + Len(b) : t[i] = IF i <= Len(a) THEN a[i] ELSE b[i - Len(a)]
    BY <1>2, <1>3, ConcatProperties
  <2>2. Len(a) = k - 1 /\ Len(a) + Len(b) = Len(s) - 1
    BY <1>1, <1>2, <1>3
  <2> HIDE DEF t
  <2>3. QED
    BY <2>1, <2>2
<1> HIDE DEF t
<1>5. \A i \in 1 .. Len(s) - 1 : t[i] = IF i < k THEN s[i] ELSE s[i + 1]
  <2> SUFFICES ASSUME NEW i \in 1 .. Len(s) - 1
               PROVE  t[i] = IF i < k THEN s[i] ELSE s[i + 1]
    OBVIOUS
  <2>1. CASE i < k
    BY <1>1, <1>2, <1>4, <2>1
  <2>2. CASE i >= k
    <3>1. i - (k - 1) \in 1 .. Len(s) - k /\ k + (i - (k - 1)) = i + 1
      BY <1>1, <2>2
    <3>2. ~(i <= k - 1)
      BY <1>1, <2>2
    <3>3. t[i] = b[i - (k - 1)]
      BY <1>4, <3>2
    <3>4. b[i - (k - 1)] = s[k + (i - (k - 1))]
      BY <1>3, <3>1
    <3>5. QED
      BY <1>1, <2>2, <3>1, <3>3, <3>4
  <2>3. QED
    BY <1>1, <2>1, <2>2
<1>6. DOMAIN t = 1 .. Len(s) - 1
  BY <1>4, LenProperties
<1>7. ToSet(t) = ToSet(s) \ {s[k]}
  <2>1. \A i \in DOMAIN t : \E m \in DOMAIN s : m # k /\ t[i] = s[m]
    BY <1>1, <1>5, <1>6
  <2>2. \A m \in DOMAIN s : m # k => \E i \in DOMAIN t : t[i] = s[m]
    <3> SUFFICES ASSUME NEW m \in DOMAIN s, m # k
                 PROVE  \E i \in DOMAIN t : t[i] = s[m]
      OBVIOUS
    <3>1. CASE m < k
      BY <1>1, <1>5, <1>6, <3>1
    <3>2. CASE m > k
      <4>1. m - 1 \in DOMAIN t /\ ~(m - 1 < k) /\ (m - 1) + 1 = m
        BY <1>1, <1>6, <3>2
      <4>2. QED
        BY <1>5, <1>6, <4>1
    <3>3. QED
      BY <1>1, <3>1, <3>2
  <2>3. QED
    BY <2>1, <2>2 DEF ToSet, IsInjective
<1>8. IsInjective(t)
  BY <1>1, <1>5, <1>6 DEF IsInjective
<1>9. QED
  BY <1>4, <1>7, <1>8 DEF t, a, b, RemoveAt

\* The last element and what comes before it.
LEMMA FrontSet ==
  ASSUME NEW S, NEW s \in Seq(S), s # <<>>
  PROVE  /\ Last(s) \in ToSet(s)
         /\ Last(s) \in S
         /\ Front(s) \in Seq(S)
         /\ ToSet(Front(s)) \subseteq ToSet(s)
         /\ ToSet(s) \subseteq ToSet(Front(s)) \union {Last(s)}
         /\ \A i \in DOMAIN Front(s) : /\ i \in DOMAIN s /\ i # Len(s)
                                       /\ Front(s)[i] = s[i]
<1> DEFINE t == Front(s)
<1>1. Len(s) \in Nat \ {0} /\ DOMAIN s = 1 .. Len(s) /\ \A i \in 1 .. Len(s) : s[i] \in S
  BY LenProperties, ElementOfSeq, EmptySeq
<1>2. /\ t \in Seq(S) /\ Len(t) = Len(s) - 1
      /\ \A i \in 1 .. Len(s) - 1 : t[i] = s[i]
  <2>1. \A i \in 1 .. Len(s) - 1 : s[i] \in S
    BY <1>1
  <2>2. QED
    BY <1>1, <2>1, SubSeqProperties DEF Front
<1>3. DOMAIN t = 1 .. Len(s) - 1
  BY <1>2, LenProperties
<1> HIDE DEF t
<1>4. Last(s) \in ToSet(s) /\ Last(s) \in S
  BY <1>1 DEF ToSet, Last
<1>5. \A i \in DOMAIN t : i \in DOMAIN s /\ t[i] = s[i]
  BY <1>1, <1>2, <1>3
<1>6. \A i \in DOMAIN s : i \in DOMAIN t \/ i = Len(s)
  BY <1>1, <1>3
<1>7. ToSet(t) \subseteq ToSet(s)
  BY <1>5 DEF ToSet
<1>8. ToSet(s) \subseteq ToSet(t) \union {Last(s)}
  BY <1>5, <1>6 DEF ToSet, Last
<1>9. \A i \in DOMAIN t : i \in DOMAIN s /\ i # Len(s) /\ t[i] = s[i]
  BY <1>1, <1>3, <1>5
<1>10. QED
  BY <1>2, <1>4, <1>7, <1>8, <1>9 DEF t

-----------------------------------------------------------------------------

Pump == <<"Pump">>

OnePump(s) == \A i, k \in DOMAIN s : s[i] = Pump /\ s[k] = Pump => i = k

\* Somebody in the stack will look for the next job before the loop goes on.
Looks(s) == Pump \in ToSet(s) \/ <<"Callback">> \in ToSet(s)

Typed ==
    /\ submitted \in 0 .. MaxJobs
    /\ contextOf \in [Jobs -> Contexts]
    /\ contexts \subseteq Contexts
    /\ fate \in [Jobs -> Fates]
    /\ calls \in [Jobs -> Nat]
    /\ running \subseteq Jobs
    /\ tree \in [Jobs -> Trees]
    /\ shuttingDown \in BOOLEAN

QueueSound ==
    /\ pending \in Seq(Jobs)
    /\ IsInjective(pending)
    /\ ToSet(pending) = {j \in Jobs : fate[j] = "Queued"}
    /\ Len(pending) <= QueueLimit

WorkersSound ==
    /\ running = {j \in Jobs : fate[j] = "Running"}
    /\ Cardinality(running) <= MaxConcurrency

\* A script runs for a running job only; only a job that was started has left something.
TreesSound ==
    \A j \in Jobs : /\ tree[j] = "Script" => fate[j] = "Running"
                    /\ fate[j] \in {"New", "Queued", "Posted", "Dropped"} => tree[j] = "None"

Unasked == \A j \in Jobs : j > submitted => fate[j] = "New"

StackSound ==
    /\ stack \in Seq(Frames)
    /\ OnePump(stack)
    /\ shuttingDown => stack = <<>> /\ running = {} /\ pending = <<>>

\* A job that could start will.
PumpAhead == CanStart => Looks(stack)

\* The destruction of a caller is in progress until its last job is off the books.
DestroyAhead ==
    /\ \A c \in Contexts : <<"Destroy", c>> \in ToSet(stack) => c \notin contexts
    /\ \A j \in Jobs : fate[j] \in {"Queued", "Running"} /\ contextOf[j] \notin contexts
                          => <<"Destroy", contextOf[j]>> \in ToSet(stack)

IInv ==
    /\ Typed /\ QueueSound /\ WorkersSound /\ TreesSound /\ Unasked
    /\ StackSound /\ PumpAhead /\ DestroyAhead

-----------------------------------------------------------------------------
(***************************************************************************)
(* The stack, the queue and the workers.                                   *)
(***************************************************************************)

\* The first word of a frame says what it is.
LEMMA FrameKinds ==
  /\ \A f \in Frames : /\ f[1] = "Pump" => f = Pump
                       /\ f[1] = "Callback" => f = <<"Callback">>
                       /\ f[1] = "Notice" => f = <<"Notice">>
                       /\ f[1] = "Destroy" => f[2] \in Contexts /\ f = <<"Destroy", f[2]>>
  /\ Pump \in Frames /\ <<"Callback">> \in Frames /\ <<"Notice">> \in Frames
  /\ \A c \in Contexts : <<"Destroy", c>> \in Frames
  /\ Pump # <<"Callback">> /\ Pump # <<"Notice">> /\ <<"Callback">> # <<"Notice">>
  /\ \A c : /\ <<"Destroy", c>> # Pump /\ <<"Destroy", c>> # <<"Callback">>
            /\ <<"Destroy", c>> # <<"Notice">>
<1>1. Pump[1] = "Pump" /\ <<"Callback">>[1] = "Callback" /\ <<"Notice">>[1] = "Notice"
  BY DEF Pump
<1>2. \A c : <<"Destroy", c>>[1] = "Destroy" /\ <<"Destroy", c>>[2] = c
  OBVIOUS
<1>3. QED
  BY <1>1, <1>2 DEF Frames, Pump

\* At most one call of startNext: pushing something else keeps it so, popping too.
LEMMA OnePumpKept ==
  ASSUME NEW s \in Seq(Frames), OnePump(s)
  PROVE  /\ \A f \in Frames : (f = Pump => Pump \notin ToSet(s)) => OnePump(Append(s, f))
         /\ s # <<>> => OnePump(Front(s))
<1>1. ASSUME NEW f \in Frames, f = Pump => Pump \notin ToSet(s)
      PROVE  OnePump(Append(s, f))
  <2> DEFINE P == Pump
             t == Append(s, f)
  <2>1. /\ \A i \in DOMAIN s : t[i] = s[i]
        /\ \A i \in DOMAIN t : i \in DOMAIN s \/ (i = Len(s) + 1 /\ t[i] = f)
    BY AppendSet
  <2>2. /\ \A i, k \in DOMAIN s : s[i] = P /\ s[k] = P => i = k
        /\ f = P => \A i \in DOMAIN s : s[i] # P
    BY <1>1 DEF OnePump, ToSet
  <2> HIDE DEF P, t
  <2>3. \A i, k \in DOMAIN t : t[i] = P /\ t[k] = P => i = k
    BY <2>1, <2>2
  <2>4. QED
    BY <2>3 DEF OnePump, P, t
<1>2. s # <<>> => OnePump(Front(s))
  BY FrontSet DEF OnePump
<1>3. QED
  BY <1>1, <1>2

\* startNext is in the stack afterwards, and once.
LEMMA PumpedSet ==
  ASSUME NEW s \in Seq(Frames), OnePump(s)
  PROVE  /\ Pumped(s) \in Seq(Frames)
         /\ OnePump(Pumped(s))
         /\ ToSet(Pumped(s)) = ToSet(s) \union {Pump}
<1>1. Pump \in Frames
  BY FrameKinds
<1>2. CASE Pump \in ToSet(s)
  BY <1>2 DEF Pumped, Pump
<1>3. CASE Pump \notin ToSet(s)
  <2>1. Pumped(s) = Append(s, Pump)
    BY <1>3 DEF Pumped, Pump
  <2>2. QED
    BY <1>1, <1>3, <2>1, AppendSet, OnePumpKept
<1>4. QED
  BY <1>2, <1>3

\* A call that is made goes on top.
LEMMA PushSet ==
  ASSUME NEW s \in Seq(Frames), OnePump(s), NEW f \in Frames, f # Pump
  PROVE  /\ Append(s, f) \in Seq(Frames)
         /\ OnePump(Append(s, f))
         /\ ToSet(Append(s, f)) = ToSet(s) \union {f}
  BY AppendSet, OnePumpKept

LEMMA WorkersFinite ==
  ASSUME NEW R, R \subseteq Jobs
  PROVE  /\ IsFiniteSet(R) /\ Cardinality(R) \in Nat
         /\ \A j : /\ Cardinality(R \ {j}) <= Cardinality(R)
                   /\ Cardinality(R \union {j}) <= Cardinality(R) + 1
<1>1. IsFiniteSet(Jobs)
  BY LprAssumption, FS_Interval DEF Jobs
<1>2. IsFiniteSet(R)
  BY <1>1, FS_Subset
<1>3. Cardinality(R) \in Nat
  BY <1>2, FS_CardinalityType
<1>4. ASSUME NEW j
      PROVE  /\ Cardinality(R \ {j}) <= Cardinality(R)
             /\ Cardinality(R \union {j}) <= Cardinality(R) + 1
  <2>1. Cardinality(R \ {j}) = IF j \in R THEN Cardinality(R) - 1 ELSE Cardinality(R)
    BY <1>2, FS_RemoveElement
  <2>2. Cardinality(R \union {j}) = IF j \in R THEN Cardinality(R) ELSE Cardinality(R) + 1
    BY <1>2, FS_AddElement
  <2>3. QED
    BY <1>3, <2>1, <2>2
<1>5. QED
  BY <1>2, <1>3, <1>4

\* removeOne takes the job off the queue and nothing else.
LEMMA WithoutSet ==
  ASSUME pending \in Seq(Jobs), IsInjective(pending), NEW j
  PROVE  /\ Without(j) \in Seq(Jobs)
         /\ IsInjective(Without(j))
         /\ ToSet(Without(j)) = ToSet(pending) \ {j}
         /\ Len(Without(j)) \in Nat /\ Len(Without(j)) <= Len(pending)
         /\ Without(j) # <<>> => pending # <<>>
<1>1. Len(pending) \in Nat
  BY LenProperties
<1>2. CASE j \in ToSet(pending)
  <2> DEFINE k == CHOOSE i \in DOMAIN pending : pending[i] = j
  <2>1. k \in DOMAIN pending /\ pending[k] = j
    BY <1>2 DEF ToSet
  <2>2. Without(j) = RemoveAt(pending, k)
    BY <1>2 DEF Without
  <2> HIDE DEF k
  <2>3. /\ Without(j) \in Seq(Jobs)
        /\ IsInjective(Without(j))
        /\ ToSet(Without(j)) = ToSet(pending) \ {j}
        /\ Len(Without(j)) = Len(pending) - 1
    BY <2>1, <2>2, RemoveSet
  <2>4. pending # <<>>
    BY <2>1
  <2>5. Len(Without(j)) \in Nat
    BY <2>3, LenProperties
  <2>6. QED
    BY <1>1, <2>3, <2>4, <2>5
<1>3. CASE j \notin ToSet(pending)
  <2>1. Without(j) = pending
    BY <1>3 DEF Without
  <2>2. ToSet(pending) \ {j} = ToSet(pending)
    BY <1>3
  <2>3. QED
    BY <1>1, <2>1, <2>2
<1>4. QED
  BY <1>2, <1>3

LEMMA EmptySet == ToSet(<<>>) = {} /\ IsInjective(<<>>)
  BY DEF ToSet, IsInjective

-----------------------------------------------------------------------------
(***************************************************************************)
(* Every action keeps the invariant.                                       *)
(***************************************************************************)

LEMMA InvInit == Init => IInv
<1> SUFFICES ASSUME Init
             PROVE  IInv
  OBVIOUS
<1>1. Typed
  <2>1. 0 \in 0 .. MaxJobs
    BY LprAssumption
  <2>2. QED
    BY <2>1 DEF Init, Typed, Fates, Trees
<1>2. QueueSound
  <2>1. pending = <<>> /\ \A j \in Jobs : fate[j] # "Queued"
    BY DEF Init
  <2>2. Len(pending) = 0 /\ pending \in Seq(Jobs)
    BY <2>1, EmptySeq
  <2>3. QED
    BY <2>1, <2>2, EmptySet, LprAssumption DEF QueueSound
<1>3. WorkersSound
  <2>1. running = {} /\ \A j \in Jobs : fate[j] # "Running"
    BY DEF Init
  <2>2. QED
    BY <2>1, FS_EmptySet, LprAssumption DEF WorkersSound
<1>4. TreesSound /\ Unasked
  BY DEF Init, TreesSound, Unasked
<1>5. StackSound
  BY EmptySeq DEF Init, StackSound, OnePump
<1>6. PumpAhead
  BY DEF Init, PumpAhead, CanStart
<1>7. DestroyAhead
  BY EmptySet DEF Init, DestroyAhead
<1>8. QED
  BY <1>1, <1>2, <1>3, <1>4, <1>5, <1>6, <1>7 DEF IInv

LEMMA SubmitStep == IInv /\ Submit => IInv'
<1> SUFFICES ASSUME IInv, NEW j \in Jobs, Asked(j), submitted' = j,
                    IF QueueFull
                    THEN /\ fate' = [fate EXCEPT ![j] = "Posted"]
                         /\ UNCHANGED <<pending, stack>>
                    ELSE /\ fate' = [fate EXCEPT ![j] = "Queued"]
                         /\ pending' = Append(pending, j)
                         /\ stack' = Pumped(stack),
                    UNCHANGED <<contextOf, contexts, calls, running, tree, shuttingDown>>
             PROVE  IInv'
  BY DEF Submit
<1> USE DEF IInv
<1>1. /\ fate[j] = "New" /\ contextOf[j] \in contexts /\ ~shuttingDown
      /\ submitted \in Nat /\ j = submitted + 1 /\ j \in 0 .. MaxJobs
  BY DEF Asked, MayCall, Unasked, Typed, Jobs
<1>2. fate' \in [Jobs -> Fates] /\ \A i \in Jobs : i # j => fate'[i] = fate[i]
  BY DEF Typed, Fates
<1>3. Typed'
  BY <1>1, <1>2 DEF Typed
<1>4. fate'[j] \in {"Posted", "Queued"}
  BY DEF Typed
<1>5. WorkersSound' /\ TreesSound'
  BY <1>1, <1>2, <1>4 DEF WorkersSound, TreesSound, Typed
<1>6. Unasked'
  <2>1. \A i \in Jobs : i > j => i # j /\ i > submitted
    BY <1>1 DEF Jobs
  <2>2. QED
    BY <1>2, <2>1 DEF Unasked
<1>7. CASE QueueFull
  <2>1. pending' = pending /\ stack' = stack /\ fate'[j] = "Posted"
    BY <1>7 DEF Typed
  <2>2. QueueSound'
    BY <1>1, <1>2, <2>1 DEF QueueSound
  <2>3. StackSound'
    BY <2>1 DEF StackSound
  <2>4. PumpAhead'
    BY <2>1 DEF PumpAhead, CanStart
  <2>5. DestroyAhead'
    BY <1>1, <1>2, <2>1 DEF DestroyAhead
  <2>6. QED
    BY <1>3, <1>5, <1>6, <2>2, <2>3, <2>4, <2>5
<1>8. CASE ~QueueFull
  <2>1. pending' = Append(pending, j) /\ stack' = Pumped(stack) /\ fate'[j] = "Queued"
    BY <1>8 DEF Typed
  <2>2. QueueSound'
    <3>1. /\ pending' \in Seq(Jobs) /\ Len(pending') = Len(pending) + 1
          /\ ToSet(pending') = ToSet(pending) \union {j}
          /\ j \notin ToSet(pending)
          /\ IsInjective(pending')
      BY <1>1, <2>1, AppendSet DEF QueueSound
    <3>2. Len(pending') <= QueueLimit
      <4>1. Len(pending) \in Nat /\ Len(pending) < QueueLimit
        BY <1>8, LprAssumption, LenProperties DEF QueueSound, QueueFull
      <4>2. QED
        BY <3>1, <4>1, LprAssumption
    <3>3. {i \in Jobs : fate'[i] = "Queued"} = {i \in Jobs : fate[i] = "Queued"} \union {j}
      BY <1>2, <2>1
    <3>4. QED
      BY <3>1, <3>2, <3>3 DEF QueueSound
  <2>3. /\ stack' \in Seq(Frames) /\ OnePump(stack')
        /\ ToSet(stack') = ToSet(stack) \union {Pump}
    BY <2>1, PumpedSet DEF StackSound
  <2>4. StackSound' /\ PumpAhead'
    BY <1>1, <2>3 DEF StackSound, PumpAhead, Looks
  <2>5. DestroyAhead'
    BY <1>1, <1>2, <2>3, FrameKinds DEF DestroyAhead
  <2>6. QED
    BY <1>3, <1>5, <1>6, <2>2, <2>4, <2>5
<1>9. QED
  BY <1>7, <1>8

LEMMA DestroyStep ==
  ASSUME IInv, NEW c \in Contexts, Destroy(c)
  PROVE  IInv'
<1> USE DEF IInv
<1>1. /\ contexts' = contexts \ {c} /\ stack' = Append(stack, <<"Destroy", c>>)
      /\ ~shuttingDown
      /\ UNCHANGED <<submitted, contextOf, fate, calls, pending, running, tree, shuttingDown>>
  BY DEF Destroy, MayCall
<1>2. Typed' /\ QueueSound' /\ WorkersSound' /\ TreesSound' /\ Unasked'
  BY <1>1 DEF Typed, QueueSound, WorkersSound, TreesSound, Unasked
<1>3. /\ stack' \in Seq(Frames) /\ OnePump(stack')
      /\ ToSet(stack') = ToSet(stack) \union {<<"Destroy", c>>}
  BY <1>1, PushSet, FrameKinds DEF StackSound
<1>4. StackSound'
  BY <1>1, <1>3 DEF StackSound
<1>5. PumpAhead'
  BY <1>1, <1>3 DEF PumpAhead, CanStart, Looks
<1>6. DestroyAhead'
  <2>1. \A a, b : <<"Destroy", a>> = <<"Destroy", b>> => a = b
    OBVIOUS
  <2>2. QED
    BY <1>1, <1>3, <2>1 DEF DestroyAhead, Typed
<1>7. QED
  BY <1>2, <1>4, <1>5, <1>6

\* Taking a job off the books when its caller is destroyed.
LEMMA CancelStep == IInv /\ CancelTask => IInv'
<1> SUFFICES ASSUME IInv, Top("Destroy"),
                    NEW j \in Connected(Last(stack)[2]),
                    fate' = [fate EXCEPT ![j] = "Dropped"],
                    pending' = Without(j), running' = Freed(j), tree' = Killed(j),
                    stack' = IF j \in running THEN Pumped(stack) ELSE stack,
                    UNCHANGED <<submitted, contextOf, contexts, calls, shuttingDown>>
             PROVE  IInv'
  BY DEF CancelTask
<1> USE DEF IInv
<1>1. j \in Jobs /\ fate[j] \in {"Queued", "Running"} /\ fate'[j] = "Dropped"
      /\ fate' \in [Jobs -> Fates] /\ \A i \in Jobs : i # j => fate'[i] = fate[i]
  BY DEF Connected, Typed, Fates
<1>2. running' = running \ {j} /\ running' \subseteq Jobs
  BY DEF Freed, Typed
<1>3. tree' \in [Jobs -> Trees] /\ tree'[j] = "None" /\ \A i \in Jobs : i # j => tree'[i] = tree[i]
  BY <1>1 DEF Killed, Typed, Trees
<1>4. Typed'
  BY <1>1, <1>2, <1>3 DEF Typed
<1>5. /\ pending' \in Seq(Jobs) /\ IsInjective(pending') /\ ToSet(pending') = ToSet(pending) \ {j}
      /\ Len(pending') \in Nat /\ Len(pending') <= Len(pending)
      /\ pending' # <<>> => pending # <<>>
  BY WithoutSet DEF QueueSound
<1>6. QueueSound'
  <2>1. {i \in Jobs : fate'[i] = "Queued"} = {i \in Jobs : fate[i] = "Queued"} \ {j}
    BY <1>1
  <2>2. Len(pending') <= QueueLimit
    BY <1>5, LprAssumption, LenProperties DEF QueueSound
  <2>3. QED
    BY <1>5, <2>1, <2>2 DEF QueueSound
<1>7. WorkersSound'
  <2>1. {i \in Jobs : fate'[i] = "Running"} = {i \in Jobs : fate[i] = "Running"} \ {j}
    BY <1>1
  <2>2. Cardinality(running') <= MaxConcurrency
    <3>1. /\ Cardinality(running) \in Nat /\ Cardinality(running') \in Nat
          /\ Cardinality(running') <= Cardinality(running)
      BY <1>2, WorkersFinite DEF Typed
    <3>2. QED
      BY <3>1, LprAssumption DEF WorkersSound
  <2>3. QED
    BY <1>2, <2>1, <2>2 DEF WorkersSound
<1>8. TreesSound'
  BY <1>1, <1>3 DEF TreesSound
<1>9. Unasked'
  BY <1>1 DEF Unasked
<1>10. ~shuttingDown
  BY DEF Top, Idle, StackSound
<1>11. /\ stack' \in Seq(Frames) /\ OnePump(stack')
       /\ ToSet(stack) \subseteq ToSet(stack')
       /\ ToSet(stack') \subseteq ToSet(stack) \union {Pump}
       /\ j \in running => Pump \in ToSet(stack')
  BY PumpedSet DEF StackSound
<1>12. StackSound'
  BY <1>10, <1>11 DEF StackSound
<1>13. PumpAhead'
  <2>1. CASE j \in running
    BY <1>11, <2>1 DEF PumpAhead, Looks
  <2>2. CASE j \notin running
    <3>1. running' = running
      BY <1>2, <2>2
    <3>2. QED
      BY <1>5, <1>11, <3>1 DEF PumpAhead, CanStart, Looks
  <2>3. QED
    BY <2>1, <2>2
<1>14. DestroyAhead'
  BY <1>1, <1>11, FrameKinds DEF DestroyAhead
<1>15. QED
  BY <1>4, <1>6, <1>7, <1>8, <1>9, <1>12, <1>13, <1>14

LEMMA DestroyedStep == IInv /\ Destroyed => IInv'
<1> SUFFICES ASSUME IInv, Destroyed
             PROVE  IInv'
  OBVIOUS
<1> USE DEF IInv
<1> DEFINE c == Last(stack)[2]
<1>1. /\ Top("Destroy") /\ Connected(c) = {}
      /\ fate' = [j \in Jobs |-> IF contextOf[j] = c /\ fate[j] = "Posted" THEN "Dropped"
                                 ELSE fate[j]]
      /\ stack' = Front(stack)
      /\ UNCHANGED <<submitted, contextOf, contexts, calls, pending, running, tree, shuttingDown>>
  BY DEF Destroyed
<1>2. /\ fate' \in [Jobs -> Fates]
      /\ \A j \in Jobs : fate'[j] = fate[j] \/ (fate[j] = "Posted" /\ fate'[j] = "Dropped")
  BY <1>1 DEF Typed, Fates
<1>3. Typed'
  BY <1>1, <1>2 DEF Typed
<1>4. QueueSound' /\ WorkersSound'
  <2>1. /\ {j \in Jobs : fate'[j] = "Queued"} = {j \in Jobs : fate[j] = "Queued"}
        /\ {j \in Jobs : fate'[j] = "Running"} = {j \in Jobs : fate[j] = "Running"}
    BY <1>2
  <2>2. QED
    BY <1>1, <2>1 DEF QueueSound, WorkersSound
<1>5. TreesSound' /\ Unasked'
  BY <1>1, <1>2 DEF TreesSound, Unasked
<1>6. stack # <<>> /\ stack \in Seq(Frames) /\ OnePump(stack)
  BY <1>1 DEF Top, Idle, StackSound
<1>7. Last(stack) = <<"Destroy", c>> /\ c \in Contexts
  BY <1>1, <1>6, FrontSet, FrameKinds DEF Top
<1>8. /\ stack' \in Seq(Frames) /\ OnePump(stack')
      /\ ToSet(stack') \subseteq ToSet(stack)
      /\ ToSet(stack) \subseteq ToSet(stack') \union {<<"Destroy", c>>}
  BY <1>1, <1>6, <1>7, FrontSet, OnePumpKept
<1> HIDE DEF c
<1>9. StackSound'
  BY <1>1, <1>6, <1>8 DEF StackSound
<1>10. PumpAhead'
  BY <1>1, <1>8, FrameKinds DEF PumpAhead, CanStart, Looks
<1>11. DestroyAhead'
  <2>1. \A a, b : <<"Destroy", a>> = <<"Destroy", b>> => a = b
    OBVIOUS
  <2>2. \A j \in Jobs : fate[j] \in {"Queued", "Running"} => contextOf[j] # c
    BY <1>1 DEF Connected
  <2>3. QED
    BY <1>1, <1>2, <1>8, <2>1, <2>2 DEF DestroyAhead
<1>12. QED
  BY <1>3, <1>4, <1>5, <1>9, <1>10, <1>11

\* The head of the queue leaves it, whatever becomes of it.
LEMMA StartQueue ==
  ASSUME IInv, Top("Pump"), CanStart, pending' = Tail(pending)
  PROVE  /\ Head(pending) \in Jobs /\ fate[Head(pending)] = "Queued"
         /\ pending' \in Seq(Jobs) /\ IsInjective(pending')
         /\ ToSet(pending') = ToSet(pending) \ {Head(pending)}
         /\ Len(pending') <= QueueLimit
         /\ ~shuttingDown /\ stack # <<>> /\ Pump \in ToSet(stack)
         /\ Cardinality(running) < MaxConcurrency
<1> USE DEF IInv
<1>1. /\ pending # <<>> /\ pending \in Seq(Jobs) /\ IsInjective(pending)
      /\ Cardinality(running) < MaxConcurrency
  BY DEF CanStart, QueueSound
<1>2. /\ Head(pending) \in ToSet(pending)
      /\ pending' \in Seq(Jobs) /\ IsInjective(pending')
      /\ Len(pending') = Len(pending) - 1
      /\ ToSet(pending') = ToSet(pending) \ {Head(pending)}
  BY <1>1, TailSet
<1>3. Head(pending) \in Jobs /\ fate[Head(pending)] = "Queued"
  BY <1>2 DEF QueueSound
<1>4. Len(pending') <= QueueLimit
  <2>1. Len(pending) \in Nat /\ Len(pending) <= QueueLimit
    BY <1>1, LenProperties DEF QueueSound
  <2>2. QED
    BY <1>2, <2>1, LprAssumption
<1>5. stack # <<>> /\ ~shuttingDown
  BY DEF Top, Idle, StackSound
<1>6. Pump \in ToSet(stack)
  <2>1. Last(stack) \in ToSet(stack) /\ Last(stack) \in Frames
    BY <1>5, FrontSet DEF StackSound
  <2>2. QED
    BY <2>1, FrameKinds DEF Top
<1>7. QED
  BY <1>1, <1>2, <1>3, <1>4, <1>5, <1>6

LEMMA StartStep == IInv /\ StartTask => IInv'
<1> DEFINE j == Head(pending)
<1> SUFFICES ASSUME IInv, Top("Pump"), CanStart, pending' = Tail(pending),
                    StartDead(j) \/ StartWithoutImage(j) \/ StartRefused(j) \/ StartScript(j),
                    UNCHANGED <<submitted, contextOf, contexts, shuttingDown>>
             PROVE  IInv'
  BY DEF StartTask
<1> USE DEF IInv
<1>1. /\ j \in Jobs /\ fate[j] = "Queued"
      /\ pending' \in Seq(Jobs) /\ IsInjective(pending')
      /\ ToSet(pending') = ToSet(pending) \ {j}
      /\ Len(pending') <= QueueLimit
      /\ ~shuttingDown /\ stack # <<>> /\ Pump \in ToSet(stack)
      /\ Cardinality(running) < MaxConcurrency
  BY StartQueue
<1> HIDE DEF j
<1>2. /\ fate'[j] \in {"Dropped", "Posted", "Answered", "Running"}
      /\ fate' \in [Jobs -> Fates]
      /\ \A i \in Jobs : i # j => fate'[i] = fate[i]
  BY <1>1 DEF StartDead, StartWithoutImage, StartRefused, StartScript, Typed, Fates
<1>3. calls' \in [Jobs -> Nat]
  BY <1>1 DEF StartDead, StartWithoutImage, StartRefused, StartScript, Typed
<1>4. QueueSound'
  <2>1. {i \in Jobs : fate'[i] = "Queued"} = {i \in Jobs : fate[i] = "Queued"} \ {j}
    BY <1>1, <1>2
  <2>2. QED
    BY <1>1, <2>1 DEF QueueSound
<1>5. Unasked'
  BY <1>1, <1>2 DEF Unasked
<1>6. /\ stack' \in Seq(Frames) /\ OnePump(stack')
      /\ ToSet(stack) \subseteq ToSet(stack')
      /\ ToSet(stack') \subseteq ToSet(stack) \union {<<"Callback">>}
  <2>1. stack' = stack \/ stack' = Append(stack, <<"Callback">>)
    BY DEF StartDead, StartWithoutImage, StartRefused, StartScript
  <2>2. QED
    BY <2>1, PushSet, FrameKinds DEF StackSound
<1>7. StackSound' /\ PumpAhead'
  BY <1>1, <1>6 DEF StackSound, PumpAhead, Looks
<1>8. CASE StartScript(j)
  <2>1. /\ fate'[j] = "Running" /\ running' = running \union {j} /\ running' \subseteq Jobs
        /\ contextOf[j] \in contexts
        /\ tree' \in [Jobs -> Trees] /\ tree'[j] = "Script"
        /\ \A i \in Jobs : i # j => tree'[i] = tree[i]
    BY <1>1, <1>8 DEF StartScript, Typed, Trees
  <2>2. WorkersSound'
    <3>1. {i \in Jobs : fate'[i] = "Running"} = {i \in Jobs : fate[i] = "Running"} \union {j}
      BY <1>1, <1>2, <2>1
    <3>2. Cardinality(running') <= MaxConcurrency
      <4>1. /\ Cardinality(running) \in Nat /\ Cardinality(running') \in Nat
            /\ Cardinality(running') <= Cardinality(running) + 1
        BY <2>1, WorkersFinite DEF Typed
      <4>2. QED
        BY <1>1, <4>1, LprAssumption
    <3>3. QED
      BY <2>1, <3>1, <3>2 DEF WorkersSound
  <2>3. Typed' /\ TreesSound'
    BY <1>1, <1>2, <1>3, <2>1 DEF Typed, TreesSound
  <2>4. DestroyAhead'
    BY <1>1, <1>2, <1>6, <2>1, FrameKinds DEF DestroyAhead
  <2>5. QED
    BY <1>4, <1>5, <1>7, <2>2, <2>3, <2>4
<1>9. CASE ~StartScript(j)
  <2>1. fate'[j] \in {"Dropped", "Posted", "Answered"} /\ UNCHANGED <<running, tree>>
    BY <1>1, <1>9 DEF StartDead, StartWithoutImage, StartRefused, Typed
  <2>2. WorkersSound'
    <3>1. {i \in Jobs : fate'[i] = "Running"} = {i \in Jobs : fate[i] = "Running"}
      BY <1>1, <1>2, <2>1
    <3>2. QED
      BY <2>1, <3>1 DEF WorkersSound
  <2>3. Typed' /\ TreesSound'
    BY <1>1, <1>2, <1>3, <2>1 DEF Typed, TreesSound
  <2>4. DestroyAhead'
    BY <1>1, <1>2, <1>6, <2>1, FrameKinds DEF DestroyAhead
  <2>5. QED
    BY <1>4, <1>5, <1>7, <2>2, <2>3, <2>4
<1>10. QED
  BY <1>8, <1>9

\* Returning from a call that is not the destruction of a caller.
LEMMA ReturnStep ==
  ASSUME IInv, stack # <<>>, Last(stack) \in {Pump, <<"Callback">>, <<"Notice">>},
         Last(stack) = Pump => ~CanStart /\ stack' = Front(stack),
         Last(stack) = <<"Callback">> => stack' = Pumped(Front(stack)),
         Last(stack) = <<"Notice">> => stack' = Front(stack),
         UNCHANGED <<submitted, contextOf, contexts, fate, calls, pending, running, tree,
                     shuttingDown>>
  PROVE  IInv'
<1> USE DEF IInv
<1>1. Typed' /\ QueueSound' /\ WorkersSound' /\ TreesSound' /\ Unasked'
  BY DEF Typed, QueueSound, WorkersSound, TreesSound, Unasked
<1>2. /\ Front(stack) \in Seq(Frames) /\ OnePump(Front(stack))
      /\ ToSet(Front(stack)) \subseteq ToSet(stack)
      /\ ToSet(stack) \subseteq ToSet(Front(stack)) \union {Last(stack)}
  BY FrontSet, OnePumpKept DEF StackSound
<1>3. /\ stack' \in Seq(Frames) /\ OnePump(stack')
      /\ ToSet(stack') \subseteq ToSet(stack) \union {Pump}
      /\ ToSet(stack) \subseteq ToSet(stack') \union {Last(stack)}
      /\ Last(stack) = <<"Callback">> => Pump \in ToSet(stack')
  BY <1>2, PumpedSet, FrameKinds
<1>4. StackSound'
  BY <1>3 DEF StackSound
<1>5. PumpAhead'
  BY <1>3, FrameKinds DEF PumpAhead, CanStart, Looks
<1>6. DestroyAhead'
  BY <1>3, FrameKinds DEF DestroyAhead
<1>7. QED
  BY <1>1, <1>4, <1>5, <1>6

LEMMA TopIs ==
  ASSUME StackSound, NEW k \in {"Pump", "Callback", "Notice"}, Top(k)
  PROVE  /\ stack # <<>> /\ ~shuttingDown
         /\ k = "Pump" => Last(stack) = Pump
         /\ k = "Callback" => Last(stack) = <<"Callback">>
         /\ k = "Notice" => Last(stack) = <<"Notice">>
<1>1. stack # <<>> /\ ~shuttingDown
  BY DEF Top, Idle, StackSound
<1>2. Last(stack) \in Frames
  BY <1>1, FrontSet DEF StackSound
<1>3. QED
  BY <1>1, <1>2, FrameKinds DEF Top

LEMMA PumpDoneStep == IInv /\ PumpDone => IInv'
<1> SUFFICES ASSUME IInv, PumpDone
             PROVE  IInv'
  OBVIOUS
<1>1. stack # <<>> /\ Last(stack) = Pump
  BY TopIs DEF PumpDone, IInv
<1>2. QED
  BY <1>1, ReturnStep, FrameKinds DEF PumpDone

LEMMA CallbackStep == IInv /\ Return => IInv'
<1> SUFFICES ASSUME IInv, Return
             PROVE  IInv'
  OBVIOUS
<1>1. CASE Top("Callback")
  <2>1. stack # <<>> /\ Last(stack) = <<"Callback">>
    BY <1>1, TopIs DEF IInv
  <2>2. QED
    BY <1>1, <2>1, ReturnStep, FrameKinds DEF Return, Resumed
<1>2. CASE Top("Notice") /\ ~Top("Callback")
  <2>1. stack # <<>> /\ Last(stack) = <<"Notice">>
    BY <1>2, TopIs DEF IInv
  <2>2. QED
    BY <1>2, <2>1, ReturnStep, FrameKinds DEF Return
<1>3. QED
  BY <1>1, <1>2 DEF Return

LEMMA ScriptEndsStep ==
  ASSUME IInv, NEW j \in Jobs, ScriptEnds(j)
  PROVE  IInv'
<1> USE DEF IInv
<1>1. /\ tree' \in [Jobs -> Trees] /\ tree[j] = "Script" /\ tree'[j] # "Script"
      /\ \A i \in Jobs : i # j => tree'[i] = tree[i]
  BY DEF ScriptEnds, Typed, Trees
<1>2. UNCHANGED <<submitted, contextOf, contexts, fate, calls, pending, running, stack,
                  shuttingDown>>
  BY DEF ScriptEnds
<1>3. fate[j] = "Running"
  BY <1>1 DEF TreesSound
<1>4. TreesSound'
  BY <1>1, <1>2, <1>3 DEF TreesSound
<1>5. QED
  BY <1>1, <1>2, <1>4
  DEF Typed, QueueSound, WorkersSound, Unasked, StackSound, PumpAhead, DestroyAhead, CanStart

\* A job leaves its worker, and its callback goes on the empty stack.
LEMMA FinishStep ==
  ASSUME IInv, Idle, NEW j \in running, FinishTask(j),
         tree' \in [Jobs -> Trees], tree'[j] # "Script",
         \A i \in Jobs : i # j => tree'[i] = tree[i]
  PROVE  IInv'
<1> USE DEF IInv
<1>1. /\ j \in Jobs /\ fate'[j] = "Answered"
      /\ fate' \in [Jobs -> Fates] /\ \A i \in Jobs : i # j => fate'[i] = fate[i]
      /\ fate[j] = "Running"
  BY DEF FinishTask, Typed, Fates, WorkersSound
<1>2. running' = running \ {j} /\ running' \subseteq Jobs
  BY DEF FinishTask, Freed, Typed
<1>3. /\ calls' \in [Jobs -> Nat]
      /\ UNCHANGED <<submitted, contextOf, contexts, pending, shuttingDown>>
      /\ stack' = Append(stack, <<"Callback">>)
  BY <1>1 DEF FinishTask, Typed
<1>4. Typed' /\ TreesSound' /\ Unasked'
  BY <1>1, <1>2, <1>3 DEF Typed, TreesSound, Unasked
<1>5. QueueSound'
  <2>1. {i \in Jobs : fate'[i] = "Queued"} = {i \in Jobs : fate[i] = "Queued"}
    BY <1>1
  <2>2. QED
    BY <1>3, <2>1 DEF QueueSound
<1>6. WorkersSound'
  <2>1. {i \in Jobs : fate'[i] = "Running"} = {i \in Jobs : fate[i] = "Running"} \ {j}
    BY <1>1
  <2>2. /\ Cardinality(running) \in Nat /\ Cardinality(running') \in Nat
        /\ Cardinality(running') <= Cardinality(running)
    BY <1>2, WorkersFinite DEF Typed
  <2>3. Cardinality(running') <= MaxConcurrency
    BY <2>2, LprAssumption DEF WorkersSound
  <2>4. QED
    BY <1>2, <2>1, <2>3 DEF WorkersSound
<1>7. ~shuttingDown
  BY DEF StackSound
<1>8. /\ stack' \in Seq(Frames) /\ OnePump(stack')
      /\ ToSet(stack') = ToSet(stack) \union {<<"Callback">>}
  BY <1>3, PushSet, FrameKinds DEF StackSound
<1>9. StackSound' /\ PumpAhead'
  BY <1>3, <1>7, <1>8 DEF StackSound, PumpAhead, Looks
<1>10. DestroyAhead'
  BY <1>1, <1>3, <1>8, FrameKinds DEF DestroyAhead
<1>11. QED
  BY <1>4, <1>5, <1>6, <1>9, <1>10

LEMMA FinishedStep ==
  ASSUME IInv, NEW j \in Jobs, Finished(j)
  PROVE  IInv'
<1>1. tree' = tree /\ tree \in [Jobs -> Trees] /\ tree[j] # "Script"
  BY DEF Finished, IInv, Typed
<1>2. QED
  BY <1>1, FinishStep DEF Finished

LEMMA WatchdogStep ==
  ASSUME IInv, NEW j \in Jobs, Watchdog(j)
  PROVE  IInv'
<1>1. /\ tree' \in [Jobs -> Trees] /\ tree'[j] # "Script"
      /\ \A i \in Jobs : i # j => tree'[i] = tree[i]
  BY DEF Watchdog, Killed, IInv, Typed, Trees
<1>2. QED
  BY <1>1, FinishStep DEF Watchdog

LEMMA DeliverStep ==
  ASSUME IInv, NEW j \in Jobs, Deliver(j)
  PROVE  IInv'
<1> USE DEF IInv
<1>1. /\ fate[j] = "Posted" /\ fate'[j] = "Answered"
      /\ fate' \in [Jobs -> Fates] /\ \A i \in Jobs : i # j => fate'[i] = fate[i]
      /\ calls' \in [Jobs -> Nat]
      /\ stack' = Append(stack, <<"Notice">>) /\ ~shuttingDown
      /\ UNCHANGED <<submitted, contextOf, contexts, pending, running, tree, shuttingDown>>
  BY DEF Deliver, Typed, Fates
<1>2. Typed' /\ TreesSound' /\ Unasked'
  BY <1>1 DEF Typed, TreesSound, Unasked
<1>3. QueueSound' /\ WorkersSound'
  <2>1. /\ {i \in Jobs : fate'[i] = "Queued"} = {i \in Jobs : fate[i] = "Queued"}
        /\ {i \in Jobs : fate'[i] = "Running"} = {i \in Jobs : fate[i] = "Running"}
    BY <1>1
  <2>2. QED
    BY <1>1, <2>1 DEF QueueSound, WorkersSound
<1>4. /\ stack' \in Seq(Frames) /\ OnePump(stack')
      /\ ToSet(stack') = ToSet(stack) \union {<<"Notice">>}
  BY <1>1, PushSet, FrameKinds DEF StackSound
<1>5. StackSound' /\ PumpAhead'
  BY <1>1, <1>4 DEF StackSound, PumpAhead, CanStart, Looks
<1>6. DestroyAhead'
  BY <1>1, <1>4, FrameKinds DEF DestroyAhead
<1>7. QED
  BY <1>2, <1>3, <1>5, <1>6

LEMMA ShutdownStep == IInv /\ Shutdown => IInv'
<1> SUFFICES ASSUME IInv, Shutdown
             PROVE  IInv'
  OBVIOUS
<1> USE DEF IInv
<1>1. /\ shuttingDown' = TRUE /\ pending' = <<>> /\ running' = {} /\ stack = <<>>
      /\ fate' = [j \in Jobs |-> IF fate[j] \in {"Queued", "Running", "Posted"} THEN "Dropped"
                                 ELSE fate[j]]
      /\ tree' = [j \in Jobs |-> IF j \in running THEN "None" ELSE tree[j]]
      /\ UNCHANGED <<submitted, contextOf, contexts, calls, stack>>
  BY DEF Shutdown, Idle
<1>2. /\ fate' \in [Jobs -> Fates]
      /\ \A j \in Jobs : fate'[j] \notin {"Queued", "Running", "Posted"}
      /\ \A j \in Jobs : fate[j] = "New" => fate'[j] = "New"
  BY <1>1 DEF Typed, Fates
<1>3. Typed'
  BY <1>1, <1>2 DEF Typed, Trees
<1>4. QueueSound'
  <2>1. {j \in Jobs : fate'[j] = "Queued"} = {}
    BY <1>2
  <2>2. QED
    BY <1>1, <2>1, EmptySet, EmptySeq, LprAssumption DEF QueueSound
<1>5. WorkersSound'
  <2>1. {j \in Jobs : fate'[j] = "Running"} = {}
    BY <1>2
  <2>2. QED
    BY <1>1, <2>1, FS_EmptySet, LprAssumption DEF WorkersSound
<1>6. TreesSound'
  BY <1>1, <1>2 DEF TreesSound, WorkersSound, Typed
<1>7. Unasked'
  BY <1>1, <1>2 DEF Unasked
<1>8. StackSound' /\ PumpAhead'
  BY <1>1 DEF StackSound, PumpAhead, CanStart
<1>9. DestroyAhead'
  BY <1>1, <1>2, EmptySet DEF DestroyAhead
<1>10. QED
  BY <1>3, <1>4, <1>5, <1>6, <1>7, <1>8, <1>9

LEMMA InvStep == IInv /\ [Next]_vars => IInv'
<1> SUFFICES ASSUME IInv, [Next]_vars
             PROVE  IInv'
  OBVIOUS
<1>1. CASE UNCHANGED vars
  BY <1>1 DEF vars, IInv, Typed, QueueSound, WorkersSound, TreesSound, Unasked,
              StackSound, PumpAhead, DestroyAhead, CanStart
<1>2. QED
  BY <1>1, SubmitStep, DestroyStep, CancelStep, DestroyedStep, StartStep, PumpDoneStep,
     CallbackStep, ScriptEndsStep, FinishedStep, WatchdogStep, DeliverStep, ShutdownStep
  DEF Next

LEMMA Inductive == Spec => []IInv
  BY InvInit, InvStep, PTL DEF Spec

-----------------------------------------------------------------------------
(***************************************************************************)
(* What follows.                                                           *)
(***************************************************************************)

\* However submissions, callbacks, time-outs and destroyed callers nest, the number of
\* scripts and the length of the queue stay within the settings, no script runs without
\* a worker, and the queue, the workers and the jobs agree.
THEOREM LoadStaysBounded == Spec => []LoadSound
<1>1. IInv => LoadSound
  <2> SUFFICES ASSUME IInv
               PROVE  LoadSound
    OBVIOUS
  <2>1. TypeOK
    BY DEF IInv, Typed, QueueSound, StackSound, TypeOK, OnePump, Pump
  <2>2. BoundedLoad
    BY DEF IInv, Typed, QueueSound, WorkersSound, TreesSound, BoundedLoad, Fates
  <2>3. BooksAgree
    BY DEF IInv, QueueSound, WorkersSound, BooksAgree
  <2>4. QED
    BY <2>1, <2>2, <2>3 DEF LoadSound
<1>2. QED
  BY <1>1, Inductive, PTL

\* When the event loop goes on, every worker is busy or the queue is empty.
THEOREM NoWorkerIdles == Spec => []WorkConserving
<1>1. IInv => WorkConserving
  <2> SUFFICES ASSUME IInv, Idle, pending # <<>>
               PROVE  Cardinality(running) = MaxConcurrency
    BY DEF WorkConserving
  <2>1. ~Looks(stack)
    BY EmptySet DEF Looks, Idle
  <2>2. ~(Cardinality(running) < MaxConcurrency)
    BY <2>1 DEF IInv, PumpAhead, CanStart
  <2>3. Cardinality(running) \in Nat /\ Cardinality(running) <= MaxConcurrency
    BY WorkersFinite DEF IInv, Typed, WorkersSound
  <2>4. QED
    BY <2>2, <2>3, LprAssumption
<1>2. QED
  BY <1>1, Inductive, PTL

-----------------------------------------------------------------------------
(***************************************************************************)
(* The scheduler implements AnswerOnce.                                    *)
(***************************************************************************)

Open == {"Queued", "Running", "Posted"}

LEMMA AbstractOf ==
  /\ \A j \in Jobs : AbstractFate[j] = IF fate[j] \in Open THEN "Waiting" ELSE fate[j]
  /\ \A j \in Jobs : AbstractFate'[j] = IF fate'[j] \in Open THEN "Waiting" ELSE fate'[j]
  BY DEF AbstractFate, Open

\* A callback runs for one job whose caller is there.
LEMMA Answers ==
  ASSUME Typed, NEW j \in Jobs, fate[j] \in Open, j \notin Gone,
         fate' = [fate EXCEPT ![j] = "Answered"],
         calls' = [calls EXCEPT ![j] = @ + 1],
         UNCHANGED <<contextOf, contexts, shuttingDown>>
  PROVE  Service!Next
<1>1. Gone' = Gone
  BY DEF Gone
<1>2. AbstractFate[j] = "Waiting"
  BY AbstractOf
<1>3. AbstractFate' = [r \in Jobs |-> IF r \in {j} THEN "Answered" ELSE AbstractFate[r]]
  BY DEF Typed, AbstractFate
<1>4. calls' = [r \in Jobs |-> IF r \in {j} THEN calls[r] + 1 ELSE calls[r]]
  BY DEF Typed
<1>5. Service!Answer({j})
  BY <1>1, <1>2, <1>3, <1>4 DEF Service!Answer
<1>6. QED
  BY <1>5 DEF Service!Next

\* Callers leave or jobs whose caller has left are given up.
LEMMA Leaves ==
  ASSUME NEW R \in SUBSET Jobs, \A j \in R : fate[j] \in Open /\ j \in Gone',
         \A j \in Jobs : AbstractFate'[j] = IF j \in R THEN "Dropped" ELSE AbstractFate[j],
         Gone \subseteq Gone', UNCHANGED calls
  PROVE  Service!Next
<1>1. \A r \in R : AbstractFate[r] = "Waiting" /\ r \in Gone'
  BY AbstractOf
<1>2. AbstractFate' = [r \in Jobs |-> IF r \in R THEN "Dropped" ELSE AbstractFate[r]]
  BY DEF AbstractFate
<1>3. Gone' \in SUBSET Jobs /\ Gone' = Gone \union Gone'
  BY DEF Gone
<1>4. Service!Leave(Gone', R)
  BY <1>1, <1>2, <1>3 DEF Service!Leave
<1>5. QED
  BY <1>3, <1>4 DEF Service!Next

\* What happens inside the scheduler is not seen.
LEMMA Unseen ==
  ASSUME \A j \in Jobs : AbstractFate'[j] = AbstractFate[j],
         UNCHANGED <<calls, contextOf, contexts, shuttingDown>>
  PROVE  UNCHANGED Service!vars
<1>1. AbstractFate' = AbstractFate
  BY DEF AbstractFate
<1>2. QED
  BY <1>1 DEF Service!vars, Gone

LEMMA SubmitServes == IInv /\ Submit => Service!Next
<1> SUFFICES ASSUME IInv, NEW j \in Jobs, Asked(j),
                    fate' = [fate EXCEPT ![j] = "Posted"] \/ fate' = [fate EXCEPT ![j] = "Queued"],
                    UNCHANGED <<contextOf, contexts, calls, shuttingDown>>
             PROVE  Service!Next
  BY DEF Submit
<1>1. fate[j] = "New"
  BY DEF Asked, IInv, Unasked, Typed, Jobs
<1>2. AbstractFate[j] = "New"
  BY <1>1 DEF AbstractFate
<1>3. AbstractFate' = [AbstractFate EXCEPT ![j] = "Waiting"]
  BY DEF IInv, Typed, AbstractFate
<1>4. Service!Submit(j)
  BY <1>2, <1>3 DEF Service!Submit, Gone
<1>5. QED
  BY <1>4 DEF Service!Next

LEMMA CancelServes == IInv /\ CancelTask => Service!Next
<1> SUFFICES ASSUME IInv, Top("Destroy"),
                    NEW j \in Connected(Last(stack)[2]),
                    fate' = [fate EXCEPT ![j] = "Dropped"],
                    UNCHANGED <<contextOf, contexts, calls, shuttingDown>>
             PROVE  Service!Next
  BY DEF CancelTask
<1>1. stack # <<>>
  BY DEF Top, Idle
<1>2. Last(stack) \in ToSet(stack) /\ Last(stack) \in Frames
  BY <1>1, FrontSet DEF IInv, StackSound
<1>3. Last(stack)[2] \notin contexts
  BY <1>2, FrameKinds DEF Top, IInv, DestroyAhead
<1>4. j \in Jobs /\ fate[j] \in Open /\ contextOf[j] = Last(stack)[2]
  BY DEF Connected, Open
<1>5. j \in Gone' /\ Gone' = Gone
  BY <1>3, <1>4 DEF Gone
<1>6. \A i \in Jobs : AbstractFate'[i] = IF i \in {j} THEN "Dropped" ELSE AbstractFate[i]
  BY <1>4 DEF IInv, Typed, AbstractFate
<1>7. QED
  BY <1>4, <1>5, <1>6, Leaves

LEMMA DestroyedServes == IInv /\ Destroyed => Service!Next
<1> SUFFICES ASSUME IInv, Destroyed
             PROVE  Service!Next
  OBVIOUS
<1> DEFINE c == Last(stack)[2]
           R == {j \in Jobs : contextOf[j] = c /\ fate[j] = "Posted"}
<1>1. /\ Top("Destroy")
      /\ fate' = [j \in Jobs |-> IF contextOf[j] = c /\ fate[j] = "Posted" THEN "Dropped"
                                 ELSE fate[j]]
      /\ UNCHANGED <<contextOf, contexts, calls, shuttingDown>>
  BY DEF Destroyed
<1>2. stack # <<>>
  BY <1>1 DEF Top, Idle
<1>3. Last(stack) \in ToSet(stack) /\ Last(stack) \in Frames
  BY <1>2, FrontSet DEF IInv, StackSound
<1>4. c \notin contexts
  BY <1>1, <1>3, FrameKinds DEF Top, IInv, DestroyAhead
<1> HIDE DEF c
<1>5. Gone' = Gone /\ \A j \in R : fate[j] \in Open /\ j \in Gone'
  BY <1>1, <1>4 DEF Gone, Open
<1>6. \A j \in Jobs : AbstractFate'[j] = IF j \in R THEN "Dropped" ELSE AbstractFate[j]
  BY <1>1 DEF AbstractFate
<1>7. QED
  BY <1>1, <1>5, <1>6, Leaves

LEMMA StartServes == IInv /\ StartTask => Service!Next \/ UNCHANGED Service!vars
<1> DEFINE j == Head(pending)
<1> SUFFICES ASSUME IInv, Top("Pump"), CanStart, pending' = Tail(pending),
                    StartDead(j) \/ StartWithoutImage(j) \/ StartRefused(j) \/ StartScript(j),
                    UNCHANGED <<submitted, contextOf, contexts, shuttingDown>>
             PROVE  Service!Next \/ UNCHANGED Service!vars
  BY DEF StartTask
<1>1. j \in Jobs /\ fate[j] = "Queued" /\ ~shuttingDown /\ fate[j] \in Open /\ Typed
  BY StartQueue DEF IInv, Open
<1> HIDE DEF j
<1>2. CASE StartDead(j)
  <2>1. fate' = [fate EXCEPT ![j] = "Dropped"] /\ contextOf[j] \notin contexts /\ calls' = calls
    BY <1>2 DEF StartDead
  <2>2. j \in Gone' /\ Gone' = Gone
    BY <1>1, <2>1 DEF Gone
  <2>3. \A i \in Jobs : AbstractFate'[i] = IF i \in {j} THEN "Dropped" ELSE AbstractFate[i]
    BY <1>1, <2>1 DEF Typed, AbstractFate
  <2>4. QED
    BY <1>1, <2>1, <2>2, <2>3, Leaves
<1>3. CASE StartWithoutImage(j)
  <2>1. fate' = [fate EXCEPT ![j] = "Posted"] /\ calls' = calls
    BY <1>3 DEF StartWithoutImage
  <2>2. \A i \in Jobs : AbstractFate'[i] = AbstractFate[i]
    BY <1>1, <2>1 DEF Typed, AbstractFate
  <2>3. QED
    BY <2>1, <2>2, Unseen
<1>4. CASE StartRefused(j)
  <2>1. j \notin Gone
    BY <1>1, <1>4 DEF StartRefused, Gone
  <2>2. QED
    BY <1>1, <1>4, <2>1, Answers DEF StartRefused
<1>5. CASE StartScript(j)
  <2>1. fate' = [fate EXCEPT ![j] = "Running"] /\ calls' = calls
    BY <1>5 DEF StartScript
  <2>2. \A i \in Jobs : AbstractFate'[i] = AbstractFate[i]
    BY <1>1, <2>1 DEF Typed, AbstractFate
  <2>3. QED
    BY <2>1, <2>2, Unseen
<1>6. QED
  BY <1>2, <1>3, <1>4, <1>5

\* A running job whose caller is gone is being cancelled: no event finds one.
LEMMA RunningHasCaller ==
  ASSUME IInv, Idle, NEW j \in running
  PROVE  j \in Jobs /\ fate[j] \in Open /\ j \notin Gone
<1>1. j \in Jobs /\ fate[j] = "Running" /\ ~shuttingDown
  BY DEF IInv, Typed, WorkersSound, StackSound
<1>2. contextOf[j] \in contexts
  BY <1>1, EmptySet DEF Idle, IInv, DestroyAhead
<1>3. QED
  BY <1>1, <1>2 DEF Gone, Open

\* To its callers the scheduler is the service of AnswerOnce, as far as safety goes: no
\* callback runs twice, and none for a caller that has been destroyed.
THEOREM SchedulerServes == Spec => Service!SafeSpec
<1>1. Init => Service!Init
  <2> SUFFICES ASSUME Init
               PROVE  Service!Init
    OBVIOUS
  <2>1. AbstractFate = [r \in Jobs |-> "New"] /\ calls = [r \in Jobs |-> 0]
    BY DEF Init, AbstractFate
  <2>2. Gone = {}
    BY DEF Init, Gone
  <2>3. QED
    BY <2>1, <2>2 DEF Service!Init
<1>2. IInv /\ [Next]_vars => [Service!Next]_(Service!vars)
  <2> SUFFICES ASSUME IInv, [Next]_vars
               PROVE  Service!Next \/ UNCHANGED Service!vars
    OBVIOUS
  <2>1. ASSUME NEW c \in Contexts, Destroy(c)
        PROVE  Service!Next
    <3>1. UNCHANGED <<fate, calls, contextOf, shuttingDown>> /\ contexts' = contexts \ {c}
      BY <2>1 DEF Destroy
    <3>2. Gone \subseteq Gone'
      BY <3>1 DEF Gone
    <3> DEFINE R == {j \in Jobs : FALSE}
    <3>3. \A j \in Jobs : AbstractFate'[j] = IF j \in R THEN "Dropped" ELSE AbstractFate[j]
      BY <3>1 DEF AbstractFate
    <3>4. QED
      BY <3>1, <3>2, <3>3, Leaves
  <2>2. ASSUME NEW j \in Jobs, Finished(j) \/ Watchdog(j)
        PROVE  Service!Next
    BY <2>2, RunningHasCaller, Answers DEF Finished, Watchdog, FinishTask, IInv
  <2>3. ASSUME NEW j \in Jobs, Deliver(j)
        PROVE  Service!Next
    <3>1. fate[j] \in Open /\ j \notin Gone
      BY <2>3 DEF Deliver, Open, Gone
    <3>2. QED
      BY <2>3, <3>1, Answers DEF Deliver, IInv
  <2>4. CASE Shutdown
    <3> DEFINE R == {j \in Jobs : fate[j] \in Open}
    <3>1. /\ fate' = [j \in Jobs |-> IF fate[j] \in Open THEN "Dropped" ELSE fate[j]]
          /\ shuttingDown' = TRUE /\ calls' = calls
      BY <2>4 DEF Shutdown, Open
    <3>2. Gone' = Jobs /\ Gone \subseteq Jobs
      BY <3>1 DEF Gone
    <3>3. \A j \in Jobs : AbstractFate'[j] = IF j \in R THEN "Dropped" ELSE AbstractFate[j]
      BY <3>1 DEF AbstractFate, Open
    <3>4. QED
      BY <3>1, <3>2, <3>3, Leaves
  <2>5. CASE PumpDone \/ Return \/ (\E j \in Jobs : ScriptEnds(j)) \/ UNCHANGED vars
    <3>1. UNCHANGED <<fate, calls, contextOf, contexts, shuttingDown>>
      BY <2>5 DEF PumpDone, Return, ScriptEnds, vars
    <3>2. QED
      BY <3>1, Unseen DEF AbstractFate
  <2>6. QED
    BY <2>1, <2>2, <2>3, <2>4, <2>5, SubmitServes, CancelServes, DestroyedServes, StartServes
    DEF Next
<1>3. QED
  BY <1>1, <1>2, Inductive, PTL DEF Spec, Service!SafeSpec

\* What follows from the promise of AnswerOnce, whoever keeps it.
LEMMA PromiseTyped == Service!TypeOK /\ [Service!Next]_(Service!vars) => Service!TypeOK'
<1> SUFFICES ASSUME Service!TypeOK, [Service!Next]_(Service!vars)
             PROVE  Service!TypeOK'
  OBVIOUS
<1>1. ASSUME NEW j \in Jobs, Service!Submit(j)
      PROVE  Service!TypeOK'
  BY <1>1 DEF Service!TypeOK, Service!Submit, Service!Fates
<1>2. ASSUME NEW R \in SUBSET Jobs, Service!Answer(R)
      PROVE  Service!TypeOK'
  BY <1>2 DEF Service!TypeOK, Service!Answer, Service!Fates
<1>3. ASSUME NEW G \in SUBSET Jobs, NEW R \in SUBSET Jobs, Service!Leave(G, R)
      PROVE  Service!TypeOK'
  BY <1>3 DEF Service!TypeOK, Service!Leave, Service!Fates
<1>4. CASE UNCHANGED Service!vars
  BY <1>4 DEF Service!TypeOK, Service!vars
<1>5. QED
  BY <1>1, <1>2, <1>3, <1>4 DEF Service!Next

LEMMA PromiseCounted ==
  Service!TypeOK /\ Service!AtMostOnce /\ [Service!Next]_(Service!vars) => Service!AtMostOnce'
<1> SUFFICES ASSUME Service!TypeOK, Service!AtMostOnce, [Service!Next]_(Service!vars)
             PROVE  Service!AtMostOnce'
  OBVIOUS
<1>1. ASSUME NEW j \in Jobs, Service!Submit(j)
      PROVE  Service!AtMostOnce'
  BY <1>1 DEF Service!TypeOK, Service!AtMostOnce, Service!Submit
<1>2. ASSUME NEW R \in SUBSET Jobs, Service!Answer(R)
      PROVE  Service!AtMostOnce'
  BY <1>2 DEF Service!TypeOK, Service!AtMostOnce, Service!Answer
<1>3. ASSUME NEW G \in SUBSET Jobs, NEW R \in SUBSET Jobs, Service!Leave(G, R)
      PROVE  Service!AtMostOnce'
  BY <1>3 DEF Service!TypeOK, Service!AtMostOnce, Service!Leave
<1>4. CASE UNCHANGED Service!vars
  BY <1>4 DEF Service!AtMostOnce, Service!vars
<1>5. QED
  BY <1>1, <1>2, <1>3, <1>4 DEF Service!Next

\* No recognition calls its caller back twice, whatever is cancelled, destroyed or shut
\* down in between.
THEOREM CalledBackAtMostOnce == Spec => []Service!AtMostOnce
<1>1. Service!Init => Service!TypeOK /\ Service!AtMostOnce
  BY DEF Service!Init, Service!TypeOK, Service!AtMostOnce, Service!Fates
<1>2. QED
  BY <1>1, SchedulerServes, PromiseTyped, PromiseCounted, PTL DEF Service!SafeSpec
=============================================================================
