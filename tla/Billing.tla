------------------------------ MODULE Billing ------------------------------
(***************************************************************************)
(* The fee of a stay (core/service/Billing.cpp): a free period, then a     *)
(* minimum fee for the first unit and a fee for every further unit begun,  *)
(* never more than the daily cap.  Durations and amounts are naturals in   *)
(* units of the reader's choice; the code's are seconds and doubles.       *)
(***************************************************************************)
EXTENDS Integers

CONSTANTS
    FreeDuration,  \* rule_.freeDuration
    BillingUnit,   \* rule_.billingUnit; with 0 nothing is ever charged
    MinimumFee,    \* rule_.minimumFee
    UnitFee,       \* rule_.unitFee
    DailyCap       \* rule_.dailyCap

ASSUME BillingAssumption ==
    /\ FreeDuration \in Nat /\ BillingUnit \in Nat
    /\ MinimumFee \in Nat /\ UnitFee \in Nat /\ DailyCap \in Nat

Lesser(a, b) == IF a <= b THEN a ELSE b

\* Mutant of Units: a unit counts from the moment the one before it is over.
UnitsAtTheEdge(d) == (d - FreeDuration + BillingUnit) \div BillingUnit

\* Units begun in a duration after the free period.
Units(d) == (d - FreeDuration + BillingUnit - 1) \div BillingUnit

\* calculateFee
CalculateFee(d) ==
    IF BillingUnit = 0 \/ d <= FreeDuration THEN 0
    ELSE IF Units(d) <= 1 THEN Lesser(MinimumFee, DailyCap)
    ELSE Lesser(MinimumFee + (Units(d) - 1) * UnitFee, DailyCap)
=============================================================================
