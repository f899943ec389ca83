------------------------ MODULE PaymentOrdersProofs ------------------------
(***************************************************************************)
(* Proofs about PaymentOrders, for any users, plates, tariff, number of    *)
(* orders and losses: the row of an order follows the memory, an order     *)
(* pays for one exit, and nobody pays more than the exit costs.            *)
(*                                                                         *)
(* What an order has to satisfy is stated of one order (OrderSound, which  *)
(* speaks of memory, row and history; Priced, of its amount and the stay). *)
(* Most actions close a set of pending orders, some of whose rows are not  *)
(* written: one lemma (ClosingInv) treats them all.                        *)
(***************************************************************************)
EXTENDS PaymentOrders, FiniteSetTheorems, WellFoundedInduction, TLAPS

Details ==
    [kind : {"none", "deposit", "parking_fee"}, user : Users \union {System},
     plate : Plates \union {"none"}, amount : 0 .. DailyCap]

Typed ==
    /\ stay \in [Plates -> Away .. MaxStay]
    /\ booked \subseteq Plates
    /\ details \in [Ids -> Details]
    /\ left \in [Ids -> Expired .. OrderTimeout]
    /\ orders \in [Ids -> Statuses]
    /\ rows \in [Ids -> Statuses]
    /\ thisVisit \subseteq Ids
    /\ paysFor \in [Ids -> 0 .. 2]
    /\ lost \subseteq Ids
    /\ failures \in 0 .. MaxFailures

\* An order that was not created is nowhere; a deposit is never pending; the row follows
\* the memory; an order that has paid is paid for good, unless a write was lost.
OrderSound(o) ==
    /\ details[o] = NoDetails =>
           orders[o] = "absent" /\ rows[o] = "absent" /\ paysFor[o] = 0 /\ o \notin thisVisit
    /\ details[o] # NoDetails =>
           details[o].plate \in Plates /\ details[o].kind # "none"
    /\ details[o].kind = "deposit" => /\ orders[o] \in {"absent", "paid", "refunded"}
                                      /\ rows[o] \in {"absent", "paid", "refunded"}
    /\ orders[o] # "absent" => /\ rows[o] \in {orders[o], "pending"}
                               /\ rows[o] # orders[o] => o \in lost
    /\ paysFor[o] > 0 => \/ o \in lost
                         \/ rows[o] = "paid" /\ orders[o] \in {"absent", "paid"}
    /\ paysFor[o] = 2 => o \in lost

\* The vehicle of an order of the present visit is on the site, and the order asks no
\* more than the exit would cost by now.
Priced(o) ==
    o \in thisVisit => /\ details[o].plate \in Plates
                       /\ OnSite(details[o].plate)
                       /\ details[o].amount <= CalculateFee(stay[details[o].plate])

IInv == Typed /\ \A o \in Ids : OrderSound(o) /\ Priced(o)

-----------------------------------------------------------------------------
(***************************************************************************)
(* The fee.                                                                *)
(***************************************************************************)
LEMMA DivisionGrows ==
  ASSUME NEW a \in Nat, NEW b \in Nat, NEW n \in Nat, n > 0, a <= b
  PROVE  a \div n \in Nat /\ a \div n <= b \div n
<1>1. a \div n \in Nat
  OBVIOUS
<1>2. a \div n <= b \div n
  BY SMTT(30)
<1>3. QED
  BY <1>1, <1>2

LEMMA ProductGrows ==
  ASSUME NEW a \in Nat, NEW b \in Nat, NEW n \in Nat, a <= b
  PROVE  a * n <= b * n
<1>1. b - a \in Nat /\ (b - a) * n \in Nat /\ a * n \in Nat /\ b * n \in Nat
  OBVIOUS
<1>2. b * n = a * n + (b - a) * n
  OBVIOUS
<1>3. QED
  BY <1>1, <1>2

\* Rounding up: the last unit has begun and is not over.
LEMMA RoundedUp ==
  ASSUME NEW x \in Nat, NEW n \in Nat, x > 0, n > 0
  PROVE  LET u == (x + n - 1) \div n
         IN  u \in Nat /\ u > 0 /\ (u - 1) * n < x /\ x <= u * n
<1> DEFINE y == x + n - 1
           u == y \div n
<1>1. y \in Nat /\ n <= y
  OBVIOUS
<1> HIDE DEF y
<1>2. y = n * u + (y % n) /\ y % n \in 0 .. n - 1 /\ u \in Nat
  BY <1>1, SMTT(30)
<1> HIDE DEF u
<1>3. y < (u + 1) * n /\ u * n <= y
  <2>1. (u + 1) * n = n * u + n /\ u * n = n * u /\ n * u \in Nat
    BY <1>2
  <2>2. QED
    BY <1>1, <1>2, <2>1
<1>4. u # 0
  BY <1>1, <1>3
<1>5. (u - 1) * n = u * n - n /\ (u + 1) * n = u * n + n /\ u * n \in Nat
  BY <1>2
<1>6. (u - 1) * n < x /\ x <= u * n
  BY <1>1, <1>3, <1>5 DEF y
<1>7. QED
  BY <1>2, <1>4, <1>6 DEF u, y

\* The fee is the rule: nothing before the free period is over, then the minimum for the
\* first unit begun and the unit fee for each other, up to the cap; for every tariff and
\* every stay.
THEOREM FeeByUnitsBegun ==
  ASSUME NEW d \in Nat
  PROVE  CalculateFee(d) = Cost(d)
<1>0. /\ FreeDuration \in Nat /\ BillingUnit \in Nat
      /\ MinimumFee \in Nat /\ UnitFee \in Nat /\ DailyCap \in Nat
  BY BillingAssumption
<1>1. CASE BillingUnit = 0
  BY <1>1 DEF CalculateFee, Cost
<1>2. CASE BillingUnit # 0 /\ d <= FreeDuration
  <2>1. ASSUME NEW k \in 0 .. d PROVE ~(FreeDuration + k * BillingUnit < d)
    <3>1. k * BillingUnit \in Nat
      BY <1>0
    <3>2. QED
      BY <1>0, <1>2, <3>1
  <2>2. UnitsBegun(d) = {}
    BY <2>1 DEF UnitsBegun
  <2>3. CalculateFee(d) = 0
    BY <1>2 DEF CalculateFee
  <2>4. QED
    BY <2>2, <2>3, FS_EmptySet DEF Cost
<1>3. CASE BillingUnit # 0 /\ d > FreeDuration
  <2> DEFINE x == d - FreeDuration
             u == Units(d)
  <2>1. x \in Nat /\ x > 0 /\ u = (x + BillingUnit - 1) \div BillingUnit
    BY <1>0, <1>3 DEF Units
  <2> HIDE DEF u
  <2>2. u \in Nat /\ u > 0 /\ (u - 1) * BillingUnit < x /\ x <= u * BillingUnit
    <3> HIDE DEF x
    <3>1. QED
      BY <1>0, <1>3, <2>1, RoundedUp
  <2>3. ASSUME NEW k \in Nat
        PROVE  FreeDuration + k * BillingUnit < d <=> k <= u - 1
    <3>1. k * BillingUnit \in Nat /\ u * BillingUnit \in Nat /\ (u - 1) * BillingUnit \in Nat
      BY <1>0, <2>2
    <3>2. CASE k <= u - 1
      <4>1. k * BillingUnit <= (u - 1) * BillingUnit
        BY <1>0, <2>2, <3>2, ProductGrows
      <4>2. QED
        BY <1>0, <2>1, <2>2, <3>1, <3>2, <4>1
    <3>3. CASE ~(k <= u - 1)
      <4>1. u * BillingUnit <= k * BillingUnit
        BY <1>0, <2>2, <3>3, ProductGrows
      <4>2. QED
        BY <1>0, <2>1, <2>2, <3>1, <3>3, <4>1
    <3>4. QED
      BY <3>2, <3>3
  <2>4. u - 1 <= d
    <3>1. u - 1 \in Nat /\ (u - 1) * 1 <= (u - 1) * BillingUnit
      <4>1. u - 1 \in Nat /\ (u - 1) * BillingUnit = (u - 1) + (u - 1) * (BillingUnit - 1)
        BY <1>0, <2>2
      <4>2. BillingUnit - 1 \in Nat
        BY <1>0, <1>3
      <4>3. (u - 1) * (BillingUnit - 1) \in Nat
        BY <4>1, <4>2
      <4>4. QED
        BY <4>1, <4>3
    <3>2. (u - 1) * BillingUnit \in Nat
      BY <1>0, <3>1
    <3>3. QED
      BY <1>0, <2>1, <2>2, <3>1, <3>2
  <2>5. UnitsBegun(d) = 0 .. u - 1
    BY <2>2, <2>3, <2>4 DEF UnitsBegun
  <2>6. Cardinality(UnitsBegun(d)) = u
    BY <2>2, <2>5, FS_Interval
  <2>7. CalculateFee(d) = IF u <= 1 THEN Lesser(MinimumFee, DailyCap)
                          ELSE Lesser(MinimumFee + (u - 1) * UnitFee, DailyCap)
    BY <1>0, <1>3 DEF CalculateFee, u
  <2>8. u <= 1 => MinimumFee + (u - 1) * UnitFee = MinimumFee
    BY <1>0, <2>2
  <2>9. QED
    BY <1>3, <2>2, <2>6, <2>7, <2>8 DEF Cost
<1>4. QED
  BY <1>0, <1>1, <1>2, <1>3

\* The fee of a stay is between nothing and the cap, and does not fall as time goes on.
LEMMA FeeGrows ==
  ASSUME NEW d \in Nat
  PROVE  /\ CalculateFee(d) \in 0 .. DailyCap
         /\ CalculateFee(d) <= CalculateFee(d + 1)
<1>0. /\ FreeDuration \in Nat /\ BillingUnit \in Nat
      /\ MinimumFee \in Nat /\ UnitFee \in Nat /\ DailyCap \in Nat
  BY BillingAssumption
<1>1. ASSUME NEW e \in Nat, e > FreeDuration, BillingUnit # 0
      PROVE  Units(e) \in Nat /\ Units(e) <= Units(e + 1)
  <2>1. /\ e - FreeDuration + BillingUnit - 1 \in Nat
        /\ (e + 1) - FreeDuration + BillingUnit - 1 \in Nat
        /\ e - FreeDuration + BillingUnit - 1 <= (e + 1) - FreeDuration + BillingUnit - 1
    BY <1>0, <1>1
  <2>2. QED
    BY <1>0, <1>1, <2>1, DivisionGrows DEF Units
<1>2. ASSUME NEW u \in Nat, NEW v \in Nat, 1 <= u, u <= v
      PROVE  (u - 1) * UnitFee \in Nat /\ (u - 1) * UnitFee <= (v - 1) * UnitFee
  <2>1. u - 1 \in Nat /\ v - 1 \in Nat /\ v - u \in Nat
    BY <1>2
  <2>2. (v - 1) * UnitFee = (u - 1) * UnitFee + (v - u) * UnitFee
    BY <1>0, <2>1
  <2>3. (u - 1) * UnitFee \in Nat /\ (v - u) * UnitFee \in Nat
    BY <1>0, <2>1
  <2>4. QED
    BY <2>2, <2>3
<1>3. CASE BillingUnit = 0 \/ d <= FreeDuration
  <2>1. CalculateFee(d) = 0
    BY <1>3 DEF CalculateFee
  <2>2. CalculateFee(d + 1) >= 0
    <3>1. CASE BillingUnit = 0 \/ d + 1 <= FreeDuration
      BY <3>1 DEF CalculateFee
    <3>2. CASE ~(BillingUnit = 0 \/ d + 1 <= FreeDuration) /\ Units(d + 1) <= 1
      BY <1>0, <3>2 DEF CalculateFee, Lesser
    <3>3. CASE ~(BillingUnit = 0 \/ d + 1 <= FreeDuration) /\ ~(Units(d + 1) <= 1)
      <4>1. Units(d + 1) \in Nat /\ 1 <= Units(d + 1)
        BY <1>0, <1>1, <3>3
      <4>2. (Units(d + 1) - 1) * UnitFee \in Nat
        BY <1>2, <4>1
      <4>3. QED
        BY <1>0, <3>3, <4>2 DEF CalculateFee, Lesser
    <3>4. QED
      BY <3>1, <3>2, <3>3
  <2>3. QED
    BY <1>0, <2>1, <2>2
<1>4. CASE ~(BillingUnit = 0 \/ d <= FreeDuration)
  <2> DEFINE u == Units(d)
             v == Units(d + 1)
  <2>1. d > FreeDuration /\ BillingUnit # 0 /\ ~(BillingUnit = 0 \/ d + 1 <= FreeDuration)
        /\ d + 1 \in Nat /\ d + 1 > FreeDuration
    BY <1>0, <1>4
  <2>2. u \in Nat /\ u <= v
    BY <1>1, <2>1
  <2>3. v \in Nat
    BY <1>1, <2>1
  <2>4. /\ CalculateFee(d) = IF u <= 1 THEN Lesser(MinimumFee, DailyCap)
                             ELSE Lesser(MinimumFee + (u - 1) * UnitFee, DailyCap)
        /\ CalculateFee(d + 1) = IF v <= 1 THEN Lesser(MinimumFee, DailyCap)
                                 ELSE Lesser(MinimumFee + (v - 1) * UnitFee, DailyCap)
    BY <1>4, <2>1 DEF CalculateFee
  <2> HIDE DEF u, v
  <2>5. CASE v <= 1
    BY <1>0, <2>2, <2>3, <2>4, <2>5 DEF Lesser
  <2>6. CASE u <= 1 /\ ~(v <= 1)
    <3>1. (v - 1) * UnitFee \in Nat
      BY <1>2, <2>3, <2>6
    <3>2. QED
      BY <1>0, <2>4, <2>6, <3>1 DEF Lesser
  <2>7. CASE ~(u <= 1)
    <3>1. (u - 1) * UnitFee \in Nat /\ (v - 1) * UnitFee \in Nat
          /\ (u - 1) * UnitFee <= (v - 1) * UnitFee
      BY <1>2, <2>2, <2>3, <2>7
    <3>2. ~(v <= 1)
      BY <2>2, <2>3, <2>7
    <3>3. QED
      BY <1>0, <2>4, <2>7, <3>1, <3>2 DEF Lesser
  <2>8. QED
    BY <2>5, <2>6, <2>7
<1>5. QED
  BY <1>3, <1>4

-----------------------------------------------------------------------------
(***************************************************************************)
(* One order.                                                              *)
(***************************************************************************)

\* Nothing new is known of what the order is for, and a lost write stays lost.
Keeps(o) ==
    /\ details'[o] = details[o]
    /\ o \in thisVisit' => o \in thisVisit
    /\ o \in lost => o \in lost'

LEMMA SameOrder ==
  ASSUME NEW o \in Ids, OrderSound(o), Keeps(o), orders'[o] = orders[o],
         rows'[o] = rows[o], paysFor'[o] = paysFor[o]
  PROVE  OrderSound(o)'
BY DEF OrderSound, Keeps

\* A pending order is closed, and pays for an exit if it becomes paid.
LEMMA ClosedOrder ==
  ASSUME NEW o \in Ids, NEW v \in {"cancelled", "expired", "paid"}, Typed, OrderSound(o), Keeps(o),
         orders[o] = "pending", orders'[o] = v,
         rows'[o] = v \/ (rows'[o] = rows[o] /\ o \in lost'),
         \/ paysFor'[o] = paysFor[o]
         \/ v = "paid" /\ paysFor'[o] = IF paysFor[o] < 2 THEN paysFor[o] + 1 ELSE paysFor[o]
  PROVE  OrderSound(o)'
<1>1. paysFor[o] \in 0 .. 2
  BY DEF Typed
<1>2. /\ details'[o] = details[o] /\ details[o] # NoDetails /\ details[o].kind # "deposit"
      /\ details[o].plate \in Plates /\ details[o].kind # "none"
  BY DEF OrderSound, Keeps
<1>3. rows[o] = "pending"
  BY DEF OrderSound
<1>4. paysFor[o] > 0 => o \in lost'
  BY DEF OrderSound, Keeps
<1>5. paysFor'[o] > 0 => o \in lost' \/ (v = "paid" /\ rows'[o] = "paid")
  BY <1>1, <1>4
<1>6. paysFor'[o] = 2 => o \in lost'
  BY <1>1, <1>4
<1>7. rows'[o] \in {v, "pending"} /\ (rows'[o] # v => o \in lost')
  BY <1>3
<1>8. QED
  BY <1>2, <1>5, <1>6, <1>7 DEF OrderSound

\* Writes that fail are counted.
LEMMA LossesCounted ==
  ASSUME Typed, NEW W \in SUBSET Ids, NEW L \in Losses(W)
  PROVE  /\ L \subseteq W /\ L \subseteq Ids
         /\ Cardinality(L) \in Nat
         /\ failures + Cardinality(L) \in 0 .. MaxFailures
<1>1. L \subseteq W /\ failures + Cardinality(L) <= MaxFailures
  BY DEF Losses
<1>2. IsFiniteSet(Ids)
  BY OrdersAssumption, FS_Interval DEF Ids
<1>3. Cardinality(L) \in Nat
  BY <1>1, <1>2, FS_Subset, FS_CardinalityType
<1>4. failures \in Nat /\ MaxFailures \in Nat
  BY OrdersAssumption DEF Typed
<1>5. QED
  BY <1>1, <1>3, <1>4

\* The orders of S become v and those of T become w, but for rows that are lost.
Closes(S, v, T, w, L) ==
    /\ orders' \in [Ids -> Statuses] /\ rows' \in [Ids -> Statuses]
    /\ lost' = lost \union L /\ lost' \subseteq Ids /\ failures' \in 0 .. MaxFailures
    /\ \A o \in Ids :
           /\ orders'[o] = IF o \in T THEN w ELSE IF o \in S THEN v ELSE orders[o]
           /\ rows'[o] = IF o \in T \ L THEN w ELSE IF o \in S \ L THEN v ELSE rows[o]

LEMMA Updated ==
  ASSUME Typed, NEW S \in SUBSET Ids, NEW T \in SUBSET Ids, NEW L \in Losses(S \union T),
         NEW v \in Statuses, NEW w \in Statuses, Update(S, v, T, w, L)
  PROVE  Closes(S, v, T, w, L)
<1>1. L \subseteq Ids /\ failures + Cardinality(L) \in 0 .. MaxFailures
  BY LossesCounted
<1>2. /\ orders' = Put(Put(orders, S, v), T, w) /\ rows' = Put(Put(rows, S \ L, v), T \ L, w)
      /\ lost' = lost \union L /\ failures' = failures + Cardinality(L)
      /\ DOMAIN orders = Ids /\ DOMAIN rows = Ids
  BY DEF Update, Typed
<1>3. /\ orders' = [o \in Ids |-> IF o \in T THEN w ELSE IF o \in S THEN v ELSE orders[o]]
      /\ rows' = [o \in Ids |-> IF o \in T \ L THEN w ELSE IF o \in S \ L THEN v ELSE rows[o]]
  BY <1>2 DEF Put
<1>4. QED
  BY <1>1, <1>2, <1>3 DEF Typed, Closes

\* The vehicle of p leaves: what is left of the orders of this visit is priced as before.
LEMMA DepartPriced ==
  ASSUME IInv, NEW p \in Plates, Depart(p), details' = details
  PROVE  /\ stay' \in [Plates -> Away .. MaxStay] /\ thisVisit' \subseteq thisVisit
         /\ booked' = booked
         /\ \A o \in Ids : Priced(o)'
<1>1. /\ stay' = [stay EXCEPT ![p] = Away] /\ booked' = booked
      /\ thisVisit' = {o \in thisVisit : details[o].plate # p}
      /\ stay \in [Plates -> Away .. MaxStay] /\ Away \in Away .. MaxStay
  BY OrdersAssumption DEF Depart, IInv, Typed, Away
<1>2. ASSUME NEW o \in Ids
      PROVE  Priced(o)'
  BY <1>1 DEF Priced, OnSite, IInv
<1>3. QED
  BY <1>1, <1>2

-----------------------------------------------------------------------------
(***************************************************************************)
(* The actions.                                                            *)
(***************************************************************************)

\* The orders of S are closed as v, those of T are paid, by an action that leaves the
\* rest of them as it was.
LEMMA ClosingInv ==
  ASSUME IInv, NEW S \in SUBSET Ids, NEW T \in SUBSET Ids, NEW L \in Losses(S \union T),
         NEW v \in {"cancelled", "expired"}, NEW w \in {"absent", "paid"},
         Update(S, v, T, w, L), w = "absent" => T = {},
         \A o \in S \union T : orders[o] = "pending",
         UNCHANGED <<details, left>>, thisVisit' \subseteq thisVisit,
         stay' \in [Plates -> Away .. MaxStay], booked' \subseteq Plates,
         paysFor' \in [Ids -> 0 .. 2],
         \A o \in Ids : \/ paysFor'[o] = paysFor[o]
                        \/ o \in T /\ paysFor'[o] = IF paysFor[o] < 2 THEN paysFor[o] + 1
                                                    ELSE paysFor[o],
         \A o \in Ids : Priced(o)'
  PROVE  IInv'
<1>1. Typed /\ v \in Statuses /\ w \in Statuses /\ L \subseteq S \union T
  BY DEF IInv, Statuses, Losses
<1>2. /\ orders' \in [Ids -> Statuses] /\ rows' \in [Ids -> Statuses]
      /\ lost' = lost \union L /\ lost' \subseteq Ids /\ failures' \in 0 .. MaxFailures
      /\ \A o \in Ids :
             /\ orders'[o] = IF o \in T THEN w ELSE IF o \in S THEN v ELSE orders[o]
             /\ rows'[o] = IF o \in T \ L THEN w ELSE IF o \in S \ L THEN v ELSE rows[o]
  <2>1. Closes(S, v, T, w, L)
    BY <1>1, Updated
  <2>2. QED
    BY <2>1 DEF Closes
<1>3. Typed'
  <2>1. details' \in [Ids -> Details] /\ left' \in [Ids -> Expired .. OrderTimeout]
    BY <1>1 DEF Typed
  <2>2. thisVisit' \subseteq Ids
    BY <1>1 DEF Typed
  <2>3. QED
    BY <1>2, <2>1, <2>2 DEF Typed
<1>4. ASSUME NEW o \in Ids
      PROVE  OrderSound(o)'
  <2>1. OrderSound(o) /\ Keeps(o)
    BY <1>2 DEF IInv, Keeps
  <2>2. CASE o \in T
    <3>1. w = "paid" /\ orders[o] = "pending" /\ orders'[o] = "paid"
      BY <1>2, <2>2
    <3>2. rows'[o] = "paid" \/ (rows'[o] = rows[o] /\ o \in lost')
      <4>1. CASE o \in L
        <5>1. o \in lost'
          BY <1>2, <4>1
        <5>2. rows'[o] = rows[o]
          BY <1>2, <4>1
        <5>3. QED
          BY <5>1, <5>2
      <4>2. CASE o \notin L
        BY <1>2, <2>2, <3>1, <4>2
      <4>3. QED
        BY <4>1, <4>2
    <3>3. QED
      BY <1>1, <2>1, <3>1, <3>2, ClosedOrder
  <2>3. CASE o \in S /\ o \notin T
    <3>1. orders[o] = "pending" /\ orders'[o] = v /\ paysFor'[o] = paysFor[o]
      BY <1>2, <2>3
    <3>2. rows'[o] = v \/ (rows'[o] = rows[o] /\ o \in lost')
      BY <1>2, <2>3
    <3>3. QED
      BY <1>1, <2>1, <3>1, <3>2, ClosedOrder
  <2>4. CASE o \notin S \union T
    <3>1. orders'[o] = orders[o] /\ rows'[o] = rows[o] /\ paysFor'[o] = paysFor[o]
      BY <1>2, <2>4
    <3>2. QED
      BY <2>1, <3>1, SameOrder
  <2>5. QED
    BY <2>2, <2>3, <2>4
<1>5. QED
  BY <1>3, <1>4 DEF IInv

LEMMA LeaveInv ==
  ASSUME IInv, NEW p \in Plates, Leave(p)
  PROVE  IInv'
<1> DEFINE S == Unpaid(p, {})
           none == {}
<1>1. PICK L \in Losses(S) : Update(S, "cancelled", none, "absent", L)
  BY DEF Leave
<1>2. Depart(p) /\ UNCHANGED <<details, left, paysFor>>
  BY DEF Leave
<1>3. S \in SUBSET Ids /\ none \in SUBSET Ids /\ S \union none = S
      /\ \A o \in S : orders[o] = "pending"
  BY DEF Unpaid
<1>4. /\ stay' \in [Plates -> Away .. MaxStay] /\ thisVisit' \subseteq thisVisit
      /\ booked' = booked /\ \A o \in Ids : Priced(o)'
  BY <1>2, DepartPriced
<1>5. booked' \subseteq Plates /\ paysFor' \in [Ids -> 0 .. 2]
      /\ \A o \in Ids : paysFor'[o] = paysFor[o]
  BY <1>2, <1>4 DEF IInv, Typed
<1> HIDE DEF S
<1>6. L \in Losses(S \union none) /\ \A o \in S \union none : orders[o] = "pending"
  BY <1>3
<1>7. UNCHANGED <<details, left>>
  BY <1>2
<1>8. QED
  BY <1>1, <1>3, <1>4, <1>5, <1>6, <1>7, ClosingInv

LEMMA SweepInv ==
  ASSUME IInv, Sweep
  PROVE  IInv'
<1> DEFINE S == Overdue
           none == {}
<1>1. PICK L \in Losses(S) : Update(S, "expired", none, "absent", L)
  BY DEF Sweep
<1>2. UNCHANGED <<stay, booked, details, left, thisVisit, paysFor>>
  BY DEF Sweep
<1>3. S \in SUBSET Ids /\ none \in SUBSET Ids /\ S \union none = S
      /\ \A o \in S : orders[o] = "pending"
  BY DEF Overdue
<1>4. \A o \in Ids : Priced(o)'
  BY <1>2 DEF IInv, Priced, OnSite
<1>5. /\ booked' \subseteq Plates /\ paysFor' \in [Ids -> 0 .. 2]
      /\ stay' \in [Plates -> Away .. MaxStay] /\ thisVisit' \subseteq thisVisit
      /\ \A o \in Ids : paysFor'[o] = paysFor[o]
  BY <1>2 DEF IInv, Typed
<1> HIDE DEF S
<1>6. L \in Losses(S \union none) /\ \A o \in S \union none : orders[o] = "pending"
  BY <1>3
<1>7. UNCHANGED <<details, left>>
  BY <1>2
<1>8. QED
  BY <1>1, <1>3, <1>4, <1>5, <1>6, <1>7, ClosingInv

LEMMA ConfirmInv ==
  ASSUME IInv, NEW u \in Users, NEW o \in Ids, Confirm(u, o)
  PROVE  IInv'
<1> DEFINE p == details[o].plate
           S == Unpaid(p, {o})
           T == {o}
<1>1. PICK L \in Losses(S \union T) : Update(S, "cancelled", T, "paid", L)
  BY DEF Confirm
<1>2. /\ Depart(p) /\ orders[o] = "pending" /\ UNCHANGED <<details, left>>
      /\ paysFor' = [paysFor EXCEPT ![o] = IF @ < 2 THEN @ + 1 ELSE @]
  BY DEF Confirm, Payable
<1>3. p \in Plates
  BY <1>2 DEF IInv, OrderSound
<1>4. S \in SUBSET Ids /\ T \in SUBSET Ids /\ \A x \in S \union T : orders[x] = "pending"
  BY <1>2 DEF Unpaid
<1>5. /\ stay' \in [Plates -> Away .. MaxStay] /\ thisVisit' \subseteq thisVisit
      /\ booked' = booked /\ \A x \in Ids : Priced(x)'
  BY <1>2, <1>3, DepartPriced
<1>6. /\ paysFor \in [Ids -> 0 .. 2] /\ paysFor' \in [Ids -> 0 .. 2]
      /\ booked' \subseteq Plates
      /\ \A x \in Ids : \/ paysFor'[x] = paysFor[x]
                        \/ x \in T /\ paysFor'[x] = IF paysFor[x] < 2 THEN paysFor[x] + 1
                                                    ELSE paysFor[x]
  BY <1>2, <1>5 DEF IInv, Typed
<1> HIDE DEF S, T, p
<1>7. UNCHANGED <<details, left>>
  BY <1>2
<1>8. QED
  BY <1>1, <1>4, <1>5, <1>6, <1>7, ClosingInv

LEMMA ConfirmRefusedInv ==
  ASSUME IInv, NEW u \in Users, NEW o \in Ids, ConfirmRefused(u, o)
  PROVE  IInv'
<1> DEFINE exitFails == IF OnSite(details[o].plate) THEN 1 ELSE 0
<1>1. PICK L \in Losses({o}) :
          /\ failures + exitFails + Cardinality(L) <= MaxFailures
          /\ orders' = [orders EXCEPT ![o] = "cancelled"]
          /\ rows' = Put(rows, {o} \ L, "cancelled")
          /\ lost' = lost \union L
          /\ failures' = failures + exitFails + Cardinality(L)
  BY DEF ConfirmRefused
<1>2. /\ orders[o] = "pending" /\ UNCHANGED <<stay, booked, details, left, thisVisit, paysFor>>
      /\ Typed
  BY DEF ConfirmRefused, Payable, IInv
<1>3. L \subseteq {o} /\ L \subseteq Ids /\ Cardinality(L) \in Nat
  BY <1>2, LossesCounted
<1>4. failures' \in 0 .. MaxFailures
  <2>1. exitFails \in Nat /\ failures \in Nat
    BY <1>2 DEF Typed
  <2> HIDE DEF exitFails
  <2>2. QED
    BY <1>1, <1>3, <2>1, OrdersAssumption
<1>5. /\ orders' \in [Ids -> Statuses] /\ rows' \in [Ids -> Statuses] /\ lost' \subseteq Ids
      /\ \A x \in Ids : /\ orders'[x] = IF x = o THEN "cancelled" ELSE orders[x]
                        /\ rows'[x] = IF x \in {o} \ L THEN "cancelled" ELSE rows[x]
  BY <1>1, <1>2, <1>3 DEF Typed, Put, Statuses
<1>6. Typed'
  BY <1>2, <1>4, <1>5 DEF Typed
<1>7. ASSUME NEW x \in Ids
      PROVE  OrderSound(x)' /\ Priced(x)'
  <2>1. OrderSound(x) /\ Keeps(x) /\ Priced(x) /\ paysFor'[x] = paysFor[x]
    BY <1>1, <1>2 DEF IInv, Keeps
  <2>2. CASE x = o
    <3>1. rows'[x] = "cancelled" \/ (rows'[x] = rows[x] /\ x \in lost')
      BY <1>1, <1>5, <2>2
    <3>2. QED
      BY <1>2, <1>5, <2>1, <2>2, <3>1, ClosedOrder DEF Priced, OnSite
  <2>3. CASE x # o
    <3>1. orders'[x] = orders[x] /\ rows'[x] = rows[x]
      BY <1>5, <2>3
    <3>2. QED
      BY <1>2, <2>1, <3>1, SameOrder DEF Priced, OnSite
  <2>4. QED
    BY <2>2, <2>3
<1>8. QED
  BY <1>6, <1>7 DEF IInv

\* A set of numbers that is not empty has a least one, so that there is a next order.
LEMMA Least ==
  ASSUME NEW S \in SUBSET Nat, S # {}
  PROVE  \E m \in S : \A x \in S : m <= x
<1>1. PICK m \in S : \A x \in S : ~(<<x, m>> \in OpToRel(<, Nat))
  BY NatLessThanWellFounded, WFMin
<1>2. \A x \in S : ~(x < m)
  BY <1>1 DEF OpToRel
<1>3. QED
  BY <1>2

LEMMA NewOrderUnused ==
  ASSUME Unused # {}
  PROVE  NewOrder \in Ids /\ details[NewOrder] = NoDetails
<1>1. Unused \in SUBSET Nat
  BY OrdersAssumption DEF Unused, Ids
<1>2. \E o \in Unused : \A x \in Unused : o <= x
  BY <1>1, Least
<1>3. NewOrder \in Unused
  BY <1>2 DEF NewOrder
<1>4. QED
  BY <1>3 DEF Unused

\* An order is created: a deposit that is settled, or a fee of a car on the site.
LEMMA InsertInv ==
  ASSUME IInv, Unused # {}, NEW stored \in BOOLEAN, NEW kind, NEW user \in Users \union {System},
         NEW plate \in Plates, NEW amount \in 0 .. DailyCap, NEW status,
         NEW timeout \in Expired .. OrderTimeout,
         InsertOrder(NewOrder, stored, kind, user, plate, amount, status, timeout),
         \/ kind = "deposit" /\ status \in {"paid", "refunded"}
         \/ /\ kind = "parking_fee" /\ status = "pending"
            /\ OnSite(plate) /\ amount <= CalculateFee(stay[plate]),
         stay' = stay, lost' = lost, booked' \subseteq Plates
  PROVE  IInv'
<1>0. PICK n \in Ids : n = NewOrder /\ details[n] = NoDetails
  BY NewOrderUnused
<1> DEFINE d == [kind |-> kind, user |-> user, plate |-> plate, amount |-> amount]
<1>1. d \in Details /\ d # NoDetails /\ d.kind = kind /\ d.plate = plate /\ d.amount = amount
      /\ status \in Statuses
  BY DEF Details, NoDetails, Statuses
<1>2. Typed /\ paysFor' = paysFor /\ orders' = Kept(n, stored, status)
  BY <1>0 DEF IInv, InsertOrder
<1>3. CASE ~stored
  <2>1. UNCHANGED <<details, left, orders, rows, thisVisit>> /\ failures' = failures + 1
        /\ failures < MaxFailures
    BY <1>2, <1>3 DEF InsertOrder, Kept
  <2>2. Typed'
    <3>1. failures' \in 0 .. MaxFailures
      BY <1>2, <2>1, OrdersAssumption DEF Typed
    <3>2. QED
      BY <1>2, <2>1, <3>1 DEF Typed
  <2>3. ASSUME NEW o \in Ids
        PROVE  OrderSound(o)' /\ Priced(o)'
    <3>1. OrderSound(o) /\ Priced(o)
      BY DEF IInv
    <3>2. QED
      BY <1>2, <2>1, <3>1 DEF OrderSound, Priced, OnSite
  <2>4. QED
    BY <2>2, <2>3 DEF IInv
<1>4. CASE stored
  <2>1. /\ orders' = [orders EXCEPT ![n] = status] /\ rows' = [rows EXCEPT ![n] = status]
        /\ details' = [details EXCEPT ![n] = d] /\ left' = [left EXCEPT ![n] = timeout]
        /\ thisVisit' = IF kind = "parking_fee" THEN thisVisit \union {n} ELSE thisVisit
        /\ failures' = failures
    BY <1>0, <1>2, <1>4 DEF InsertOrder, Kept
  <2> HIDE DEF d
  <2>2. Typed'
    <3>1. details' \in [Ids -> Details]
      BY <1>0, <1>1, <1>2, <2>1 DEF Typed
    <3>2. orders' \in [Ids -> Statuses] /\ rows' \in [Ids -> Statuses]
      BY <1>0, <1>1, <1>2, <2>1 DEF Typed
    <3>3. left' \in [Ids -> Expired .. OrderTimeout]
      BY <1>0, <1>2, <2>1 DEF Typed
    <3>4. thisVisit' \subseteq Ids
      BY <1>0, <1>2, <2>1 DEF Typed
    <3>5. stay' = stay /\ lost' = lost /\ paysFor' = paysFor /\ failures' = failures
          /\ booked' \subseteq Plates
      BY <1>2, <2>1
    <3>6. QED
      BY <1>2, <3>1, <3>2, <3>3, <3>4, <3>5 DEF Typed
  <2>3. /\ orders'[n] = status /\ rows'[n] = status /\ details'[n] = d
        /\ \A o \in Ids : o # n => /\ orders'[o] = orders[o] /\ rows'[o] = rows[o]
                                   /\ details'[o] = details[o]
                                   /\ o \in thisVisit' <=> o \in thisVisit
    <3>1. orders'[n] = status /\ rows'[n] = status /\ details'[n] = d
      BY <1>0, <1>2, <2>1 DEF Typed
    <3>2. ASSUME NEW o \in Ids, o # n
          PROVE  orders'[o] = orders[o] /\ rows'[o] = rows[o] /\ details'[o] = details[o]
      BY <1>0, <1>2, <2>1, <3>2 DEF Typed
    <3>3. \A o \in Ids : o # n => (o \in thisVisit' <=> o \in thisVisit)
      BY <2>1, ZenonT(30)
    <3>4. QED
      BY <3>1, <3>2, <3>3
  <2>4. OrderSound(n) /\ n \notin thisVisit /\ paysFor[n] = 0
    BY <1>0 DEF IInv, OrderSound
  <2>5. OrderSound(n)'
    BY <1>0, <1>1, <1>2, <2>3, <2>4 DEF OrderSound
  <2>6. Priced(n)'
    <3>1. n \in thisVisit' => kind = "parking_fee"
      BY <2>1, <2>4
    <3>2. QED
      BY <1>1, <2>3, <3>1 DEF Priced, OnSite
  <2>7. ASSUME NEW o \in Ids, o # n
        PROVE  OrderSound(o)' /\ Priced(o)'
    <3>1. OrderSound(o) /\ Priced(o)
      BY DEF IInv
    <3>2. Keeps(o) /\ orders'[o] = orders[o] /\ rows'[o] = rows[o] /\ paysFor'[o] = paysFor[o]
      BY <1>2, <2>3, <2>7 DEF Keeps
    <3>3. OrderSound(o)'
      BY <3>1, <3>2, SameOrder
    <3>4. Priced(o)'
      BY <2>3, <2>7, <3>1 DEF Priced, OnSite
    <3>5. QED
      BY <3>3, <3>4
  <2>8. QED
    BY <2>2, <2>5, <2>6, <2>7 DEF IInv
<1>5. QED
  BY <1>3, <1>4

\* Nobody pays for nothing: what is quoted is the fee up to now.
LEMMA CreateInv ==
  ASSUME IInv, NEW u \in Users, NEW p \in Plates,
         OrderCreate(u, p) \/ ReservationCreate(u, p)
  PROVE  IInv'
<1>1. Typed /\ Unused # {} /\ UNCHANGED <<stay, lost>> /\ booked' \subseteq Plates
      /\ u \in Users \union {System}
  BY DEF IInv, Typed, OrderCreate, ReservationCreate
<1>2. OrderTimeout \in Nat /\ Expired \in Expired .. OrderTimeout
      /\ OrderTimeout \in Expired .. OrderTimeout
      /\ DailyCap \in Nat /\ 0 \in 0 .. DailyCap
  BY OrdersAssumption, BillingAssumption DEF Expired
<1>3. CASE OrderCreate(u, p)
  <2>1. PICK stored \in BOOLEAN :
            InsertOrder(NewOrder, stored, "parking_fee", u, p, Quoted(p), "pending", OrderTimeout)
    BY <1>3 DEF OrderCreate
  <2>2. OnSite(p) /\ stay[p] \in Nat
    BY <1>1, <1>3 DEF OrderCreate, OnSite, Typed, Away
  <2>3. Quoted(p) \in 0 .. DailyCap /\ Quoted(p) = CalculateFee(stay[p])
    BY <2>2, FeeGrows DEF Quoted
  <2>4. Quoted(p) <= CalculateFee(stay[p])
    BY <1>2, <2>3
  <2>5. QED
    BY <1>1, <1>2, <2>1, <2>2, <2>3, <2>4, InsertInv
<1>4. CASE ReservationCreate(u, p)
  <2>1. PICK stored \in BOOLEAN :
            InsertOrder(NewOrder, stored, "deposit", u, p, 0, "paid", Expired)
    BY <1>4 DEF ReservationCreate
  <2>2. QED
    BY <1>1, <1>2, <2>1, InsertInv
<1>5. QED
  BY <1>3, <1>4

LEMMA CancelInv ==
  ASSUME IInv, NEW p \in Plates, ReservationCancel(p)
  PROVE  IInv'
<1>1. Typed /\ Unused # {} /\ UNCHANGED <<stay, lost>> /\ booked' \subseteq Plates
      /\ System \in Users \union {System}
  BY DEF IInv, Typed, ReservationCancel
<1>2. Expired \in Expired .. OrderTimeout /\ 0 \in 0 .. DailyCap
  BY OrdersAssumption, BillingAssumption DEF Expired
<1>3. PICK stored \in BOOLEAN :
          InsertOrder(NewOrder, stored, "deposit", System, p, 0, "refunded", Expired)
  BY DEF ReservationCancel
<1>4. QED
  BY <1>1, <1>2, <1>3, InsertInv

\* Cars and reservations come and go elsewhere: no order is touched.
LEMMA ElsewhereInv ==
  ASSUME IInv, NEW p \in Plates,
         \/ LeaveElsewhere(p) \/ ReserveElsewhere(p) \/ EndElsewhere(p) \/ CheckIn(p) \/ Enter(p)
  PROVE  IInv'
<1>1. /\ Typed /\ UNCHANGED <<details, left, orders, rows, paysFor, lost, failures>>
      /\ booked' \subseteq Plates
  BY DEF IInv, Typed, LeaveElsewhere, Depart, ReserveElsewhere, EndElsewhere, CheckIn, Enter
<1>2. /\ stay' \in [Plates -> Away .. MaxStay] /\ thisVisit' \subseteq thisVisit
      /\ \A o \in Ids : Priced(o)'
  <2>1. CASE LeaveElsewhere(p)
    BY <1>1, <2>1, DepartPriced DEF LeaveElsewhere
  <2>2. CASE ReserveElsewhere(p) \/ EndElsewhere(p)
    BY <1>1, <2>2 DEF IInv, Typed, Priced, OnSite, ReserveElsewhere, EndElsewhere
  <2>3. CASE CheckIn(p) \/ Enter(p)
    <3>1. stay' = [stay EXCEPT ![p] = 0] /\ thisVisit' = thisVisit /\ ~OnSite(p)
      BY <2>3 DEF CheckIn, Enter
    <3>2. stay' \in [Plates -> Away .. MaxStay]
      BY <1>1, <3>1, OrdersAssumption DEF Typed, Away
    <3>3. ASSUME NEW o \in Ids
          PROVE  Priced(o)'
      <4>1. Priced(o)
        BY DEF IInv
      <4>2. o \in thisVisit => details[o].plate # p /\ details[o].plate \in Plates
        BY <3>1, <4>1 DEF Priced
      <4>3. o \in thisVisit => stay'[details[o].plate] = stay[details[o].plate]
        BY <1>1, <3>1, <4>2 DEF Typed
      <4>4. QED
        BY <1>1, <3>1, <4>1, <4>3 DEF Priced, OnSite
    <3>4. QED
      BY <3>1, <3>2, <3>3
  <2>4. QED
    BY <2>1, <2>2, <2>3
<1>3. Typed'
  BY <1>1, <1>2 DEF Typed
<1>4. ASSUME NEW o \in Ids
      PROVE  OrderSound(o)'
  BY <1>1, <1>2, SameOrder DEF IInv, Keeps
<1>5. QED
  BY <1>2, <1>3, <1>4 DEF IInv

\* Time goes on, and no fee falls.
LEMMA TickInv ==
  ASSUME IInv, Tick
  PROVE  IInv'
<1>1. /\ Typed /\ UNCHANGED <<booked, details, orders, rows, thisVisit, paysFor, lost, failures>>
      /\ stay' = [p \in Plates |-> IF stay[p] \in 0 .. MaxStay - 1 THEN stay[p] + 1 ELSE stay[p]]
      /\ left' = [o \in Ids |-> IF left[o] >= 0 THEN left[o] - 1 ELSE left[o]]
      /\ MaxStay \in Nat /\ OrderTimeout \in Nat
  BY OrdersAssumption DEF Tick, IInv
<1>2. stay' \in [Plates -> Away .. MaxStay]
  BY <1>1 DEF Typed, Away
<1>3. left' \in [Ids -> Expired .. OrderTimeout]
  BY <1>1 DEF Typed, Expired
<1>4. Typed'
  BY <1>1, <1>2, <1>3 DEF Typed
<1>5. ASSUME NEW o \in Ids, o \in thisVisit
      PROVE  Priced(o)'
  <2> DEFINE p == details[o].plate
             s == stay[p]
  <2>1. p \in Plates /\ s # Away /\ details[o].amount <= CalculateFee(s)
        /\ details[o].amount \in Nat
    BY <1>1, <1>5 DEF IInv, Priced, OnSite, Typed, Details
  <2>2. s \in Nat /\ stay'[p] \in {s, s + 1}
    BY <1>1, <2>1 DEF Typed, Away
  <2> HIDE DEF s
  <2>3. /\ CalculateFee(s) \in 0 .. DailyCap /\ CalculateFee(s + 1) \in 0 .. DailyCap
        /\ CalculateFee(s) <= CalculateFee(s + 1)
    BY <2>2, FeeGrows
  <2>4. details[o].amount <= CalculateFee(s + 1)
    BY <2>1, <2>3, BillingAssumption
  <2>5. stay'[p] # Away
    BY <2>2 DEF Away
  <2>6. QED
    BY <1>1, <2>1, <2>2, <2>4, <2>5 DEF Priced, OnSite
<1>6. ASSUME NEW o \in Ids
      PROVE  OrderSound(o)' /\ Priced(o)'
  <2>1. OrderSound(o)'
    BY <1>1, SameOrder DEF IInv, Keeps
  <2>2. Priced(o)'
    BY <1>1, <1>5 DEF Priced
  <2>3. QED
    BY <2>1, <2>2
<1>7. QED
  BY <1>4, <1>6 DEF IInv

\* The memory is what the table says, or empty.
LEMMA RestartInv ==
  ASSUME IInv, Restart
  PROVE  IInv'
<1>1. /\ Typed /\ failures < MaxFailures /\ failures' = failures + 1
      /\ orders' = rows \/ orders' = [o \in Ids |-> "absent"]
      /\ UNCHANGED <<stay, booked, details, left, rows, thisVisit, paysFor, lost>>
  BY DEF IInv, Restart
<1>2. Typed'
  <2>1. failures' \in 0 .. MaxFailures
    BY <1>1, OrdersAssumption DEF Typed
  <2>2. orders' \in [Ids -> Statuses]
    BY <1>1 DEF Typed, Statuses
  <2>3. QED
    BY <1>1, <2>1, <2>2 DEF Typed
<1>3. ASSUME NEW o \in Ids
      PROVE  OrderSound(o)' /\ Priced(o)'
  <2>1. OrderSound(o) /\ Priced(o)
    BY DEF IInv
  <2>2. orders'[o] \in {rows[o], "absent"}
    BY <1>1
  <2>3. OrderSound(o)'
    BY <1>1, <2>1, <2>2 DEF OrderSound
  <2>4. QED
    BY <1>1, <2>1, <2>3 DEF Priced, OnSite
<1>4. QED
  BY <1>2, <1>3 DEF IInv

LEMMA InvInit == Init => IInv
<1> SUFFICES ASSUME Init
             PROVE  IInv
  OBVIOUS
<1>1. NoDetails \in Details
  BY BillingAssumption DEF NoDetails, Details
<1>2. Typed
  BY <1>1, OrdersAssumption DEF Init, Typed, Away, Expired, Statuses
<1>3. ASSUME NEW o \in Ids
      PROVE  OrderSound(o) /\ Priced(o)
  <2>1. details[o] = NoDetails /\ orders[o] = "absent" /\ rows[o] = "absent" /\ paysFor[o] = 0
        /\ thisVisit = {} /\ NoDetails.kind = "none"
    BY DEF Init, NoDetails
  <2>2. QED
    BY <2>1 DEF OrderSound, Priced
<1>4. QED
  BY <1>2, <1>3 DEF IInv

LEMMA InvStep == IInv /\ [Next]_vars => IInv'
<1> SUFFICES ASSUME IInv, [Next]_vars
             PROVE  IInv'
  OBVIOUS
<1>1. CASE UNCHANGED vars
  BY <1>1 DEF vars, IInv, Typed, OrderSound, Priced, OnSite
<1>2. QED
  BY <1>1, LeaveInv, ElsewhereInv, CreateInv, CancelInv, ConfirmInv, ConfirmRefusedInv, SweepInv,
     TickInv, RestartInv DEF Next

-----------------------------------------------------------------------------

\* The row of an order is never ahead of the memory, and behind it only where a write
\* was lost; no order is in memory alone.
THEOREM RowsFollowMemory == Spec => []RowsFollow
<1>1. IInv => RowsFollow
  <2> SUFFICES ASSUME IInv
               PROVE  RowsFollow
    OBVIOUS
  <2>1. TypeOK
    BY DEF IInv, Typed, TypeOK, Details, OrderSound
  <2>2. QED
    BY <2>1 DEF IInv, OrderSound, RowsFollow
<1>2. QED
  BY <1>1, InvInit, InvStep, PTL DEF Spec

\* An order pays for one exit, however often it is confirmed, unless a write of its row
\* was lost.
THEOREM NoSecondCharge == Spec => []PaysForOneExit
<1>1. IInv => PaysForOneExit
  BY DEF IInv, OrderSound, PaysForOneExit
<1>2. QED
  BY <1>1, InvInit, InvStep, PTL DEF Spec

\* Whoever pays an order of the present visit never pays more than the rule asks of the
\* stay at the exit.
THEOREM NobodyOvercharged == Spec => NeverOvercharged
<1>1. IInv /\ [Next]_vars =>
        [\A o \in Ids : paysFor'[o] > paysFor[o] /\ o \in thisVisit =>
             details[o].amount <= Cost(stay[details[o].plate])]_vars
  <2> SUFFICES ASSUME IInv, NEW o \in Ids, o \in thisVisit
               PROVE  details[o].amount <= Cost(stay[details[o].plate])
    OBVIOUS
  <2>1. /\ details[o].amount <= CalculateFee(stay[details[o].plate])
        /\ stay[details[o].plate] \in Nat
    BY DEF IInv, Priced, OnSite, Typed, Away
  <2>2. QED
    BY <2>1, FeeByUnitsBegun
<1>2. QED
  BY <1>1, InvInit, InvStep, PTL DEF Spec, NeverOvercharged
=============================================================================
