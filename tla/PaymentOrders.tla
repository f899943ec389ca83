--------------------------- MODULE PaymentOrders ---------------------------
(***************************************************************************)
(* The payment orders of the REST gateway (network/RestGateway.cpp): the   *)
(* gateway keeps every order in memory (orders_) and a row of it in the    *)
(* table payment_orders, writes both, and ignores most failures of the     *)
(* second.  Cars also come and go, and reservations begin and end, through *)
(* the TCP server and the gates, which do not know of orders.              *)
(*                                                                         *)
(* Handlers run one at a time on the thread of the event loop.  A failed   *)
(* write is lost alone; a crash inside a handler is the loss of its        *)
(* remaining writes followed by Restart.                                   *)
(*                                                                         *)
(* Abstracted: authentication (module Accounts), the trade number, time    *)
(* stamps but for the age of an order, events, spots and deposits          *)
(* (module ParkingCore): a plate is away or has been on the site for some  *)
(* time, and has a reservation for another stay or none.                   *)
(***************************************************************************)
EXTENDS Billing, FiniteSets

CONSTANTS
    Users, Admins,  \* who asks, and which of them are administrators
    Plates,
    MaxOrders,      \* bound on the orders created
    OrderTimeout,   \* options_.orderTimeoutMs
    MaxStay,        \* stays are told apart up to this length
    MaxFailures     \* bound on lost writes, failed exits and restarts

ASSUME OrdersAssumption ==
    /\ Admins \subseteq Users
    /\ MaxOrders \in Nat /\ OrderTimeout \in Nat /\ MaxStay \in Nat /\ MaxFailures \in Nat

VARIABLES
    stay,      \* how long a car has been on the site, or Away
    booked,    \* the plates with a confirmed time-slot reservation
    details,   \* kind, user, plate and amount of each order created
    left,      \* time until it expires; below 0 it has
    orders,    \* orders_: its status in memory
    rows,      \* its status in payment_orders
    thisVisit, \* history: it was made during the present visit of its plate
    paysFor,   \* history: the exits it has paid, up to 2
    lost,      \* history: the orders whose row missed a write
    failures   \* failures so far

vars == <<stay, booked, details, left, orders, rows, thisVisit, paysFor, lost, failures>>

Ids == 1 .. MaxOrders
Away == -1
Expired == -1
Statuses == {"absent", "pending", "paid", "expired", "refunded", "cancelled"}
System == "system"
NoDetails == [kind |-> "none", user |-> System, plate |-> "none", amount |-> 0]

Put(f, S, v) == [x \in DOMAIN f |-> IF x \in S THEN v ELSE f[x]]

Unused == {o \in Ids : details[o] = NoDetails}
NewOrder == CHOOSE o \in Unused : \A x \in Unused : o <= x

Init ==
    /\ stay = [p \in Plates |-> Away]
    /\ booked = {}
    /\ details = [o \in Ids |-> NoDetails]
    /\ left = [o \in Ids |-> Expired]
    /\ orders = [o \in Ids |-> "absent"]
    /\ rows = [o \in Ids |-> "absent"]
    /\ thisVisit = {}
    /\ paysFor = [o \in Ids |-> 0]
    /\ lost = {}
    /\ failures = 0

-----------------------------------------------------------------------------
(***************************************************************************)
(* The repository of orders.                                               *)
(***************************************************************************)

\* Which of the writes W fail.
Losses(W) == {L \in SUBSET W : failures + Cardinality(L) <= MaxFailures}

\* Mutant of Kept: the order is kept in memory although its row was refused.
KeptAnyway(o, stored, status) == [orders EXCEPT ![o] = status]

\* insertOrder: first the row, then, if it was written, the memory.
Kept(o, stored, status) == IF stored THEN [orders EXCEPT ![o] = status] ELSE orders

InsertOrder(o, stored, kind, user, plate, amount, status, timeout) ==
    /\ orders' = Kept(o, stored, status)
    /\ \/ /\ stored
          /\ details' = [details EXCEPT ![o] =
                 [kind |-> kind, user |-> user, plate |-> plate, amount |-> amount]]
          /\ left' = [left EXCEPT ![o] = timeout]
          /\ rows' = [rows EXCEPT ![o] = status]
          /\ thisVisit' = IF kind = "parking_fee" THEN thisVisit \union {o} ELSE thisVisit
          /\ UNCHANGED failures
       \/ /\ ~stored
          /\ failures < MaxFailures
          /\ failures' = failures + 1
          /\ UNCHANGED <<details, left, rows, thisVisit>>
    /\ UNCHANGED paysFor

\* The status of the orders S becomes v, and that of o becomes w; updateOrderStatus
\* fails for L and nobody looks at its result.
Update(S, v, T, w, L) ==
    /\ orders' = Put(Put(orders, S, v), T, w)
    /\ rows' = Put(Put(rows, S \ L, v), T \ L, w)
    /\ lost' = lost \union L
    /\ failures' = failures + Cardinality(L)

-----------------------------------------------------------------------------
(***************************************************************************)
(* Exits.                                                                  *)
(***************************************************************************)
OnSite(p) == stay[p] # Away

\* performLeave lets the car out; what it does to orders is Unpaid.
Depart(p) ==
    /\ stay' = [stay EXCEPT ![p] = Away]
    /\ thisVisit' = {o \in thisVisit : details[o].plate # p}
    /\ UNCHANGED booked

\* The orders performLeave closes at the exit.
Unpaid(p, exclude) ==
    {o \in Ids \ exclude : /\ orders[o] = "pending"
                           /\ details[o].kind = "parking_fee"
                           /\ details[o].plate = p}

\* handleLeave
Leave(p) ==
    /\ OnSite(p)
    /\ Depart(p)
    /\ \E L \in Losses(Unpaid(p, {})) : Update(Unpaid(p, {}), "cancelled", {}, "absent", L)
    /\ UNCHANGED <<details, left, paysFor>>

\* The TCP server, a gate or an eviction lets the car out.
LeaveElsewhere(p) ==
    /\ OnSite(p)
    /\ Depart(p)
    /\ UNCHANGED <<details, left, orders, rows, paysFor, lost, failures>>

-----------------------------------------------------------------------------
(***************************************************************************)
(* Orders for a parking fee.                                               *)
(***************************************************************************)

\* The fee up to now.
Quoted(p) == CalculateFee(stay[p])

\* handleOrderCreate
OrderCreate(u, p) ==
    /\ Unused # {}
    /\ OnSite(p)
    /\ \E stored \in BOOLEAN :
           InsertOrder(NewOrder, stored, "parking_fee", u, p, Quoted(p), "pending",
                       OrderTimeout)
    /\ UNCHANGED <<stay, booked, lost>>

\* Only the owner or an administrator sees an order (handleOrderGet, handleOrderConfirm).
Visible(u, o) == orders[o] # "absent" /\ (details[o].user = u \/ u \in Admins)

\* Mutant of Payable: a second confirmation of a paid order goes to the exit again.
PayableAgain(o) == orders[o] \in {"pending", "paid"} /\ details[o].kind # "deposit"

\* handleOrderConfirm answers a paid order as it is and refuses any other state.
Payable(o) == orders[o] = "pending" /\ details[o].kind # "deposit"

\* The car leaves and the order is paid.
Confirm(u, o) ==
    /\ Visible(u, o)
    /\ Payable(o)
    /\ LET p == details[o].plate
           closed == Unpaid(p, {o}) IN
       /\ OnSite(p)
       /\ Depart(p)
       /\ \E L \in Losses(closed \union {o}) : Update(closed, "cancelled", {o}, "paid", L)
    /\ paysFor' = [paysFor EXCEPT ![o] = IF @ < 2 THEN @ + 1 ELSE @]
    /\ UNCHANGED <<details, left>>

\* The car has gone, or its exit cannot be written: the order is cancelled.
ConfirmRefused(u, o) ==
    /\ Visible(u, o)
    /\ Payable(o)
    /\ LET exitFails == IF OnSite(details[o].plate) THEN 1 ELSE 0 IN
       \E L \in Losses({o}) :
           /\ failures + exitFails + Cardinality(L) <= MaxFailures
           /\ orders' = [orders EXCEPT ![o] = "cancelled"]
           /\ rows' = Put(rows, {o} \ L, "cancelled")
           /\ lost' = lost \union L
           /\ failures' = failures + exitFails + Cardinality(L)
    /\ UNCHANGED <<stay, booked, details, left, thisVisit, paysFor>>

\* Mutant of Overdue: an order is closed only if the scan meets its deadline.
OverdueOnTheDot == {o \in Ids : orders[o] = "pending" /\ left[o] = 0}

Overdue == {o \in Ids : orders[o] = "pending" /\ left[o] < 0}

\* sweep, every 15 seconds
Sweep ==
    /\ Overdue # {}
    /\ \E L \in Losses(Overdue) : Update(Overdue, "expired", {}, "absent", L)
    /\ UNCHANGED <<stay, booked, details, left, thisVisit, paysFor>>

-----------------------------------------------------------------------------
(***************************************************************************)
(* Deposits, entries, time and restarts.                                   *)
(***************************************************************************)

\* handleReservationCreate: a paid deposit order, if its row can be written.
ReservationCreate(u, p) ==
    /\ Unused # {}
    /\ p \notin booked /\ ~OnSite(p)
    /\ booked' = booked \union {p}
    /\ \E stored \in BOOLEAN :
           InsertOrder(NewOrder, stored, "deposit", u, p, 0, "paid", Expired)
    /\ UNCHANGED <<stay, lost>>

\* handleReservationCancel: a refunded deposit order, if its row can be written.
ReservationCancel(p) ==
    /\ Unused # {}
    /\ p \in booked
    /\ booked' = booked \ {p}
    /\ \E stored \in BOOLEAN :
           InsertOrder(NewOrder, stored, "deposit", System, p, 0, "refunded", Expired)
    /\ UNCHANGED <<stay, lost>>

\* The same through the TCP server, or the sweep of a no-show: no order is written.
ReserveElsewhere(p) ==
    /\ p \notin booked /\ ~OnSite(p)
    /\ booked' = booked \union {p}
    /\ UNCHANGED <<stay, details, left, orders, rows, thisVisit, paysFor, lost, failures>>

EndElsewhere(p) ==
    /\ p \in booked
    /\ booked' = booked \ {p}
    /\ UNCHANGED <<stay, details, left, orders, rows, thisVisit, paysFor, lost, failures>>

\* handleReservationCheckIn
CheckIn(p) ==
    /\ p \in booked /\ ~OnSite(p)
    /\ booked' = booked \ {p}
    /\ stay' = [stay EXCEPT ![p] = 0]
    /\ UNCHANGED <<details, left, orders, rows, thisVisit, paysFor, lost, failures>>

\* handleEnter, or any other entry; it checks a reservation in, if there is one that is
\* due.
Enter(p) ==
    /\ ~OnSite(p)
    /\ stay' = [stay EXCEPT ![p] = 0]
    /\ booked' \in {booked, booked \ {p}}
    /\ UNCHANGED <<details, left, orders, rows, thisVisit, paysFor, lost, failures>>

Tick ==
    /\ stay' = [p \in Plates |-> IF stay[p] \in 0 .. MaxStay - 1 THEN stay[p] + 1 ELSE stay[p]]
    /\ left' = [o \in Ids |-> IF left[o] >= 0 THEN left[o] - 1 ELSE left[o]]
    /\ UNCHANGED <<booked, details, orders, rows, thisVisit, paysFor, lost, failures>>

\* The program stops and starts again: loadOrders, which may fail and then leaves the
\* memory empty.
Restart ==
    /\ failures < MaxFailures
    /\ failures' = failures + 1
    /\ orders' \in {rows, [o \in Ids |-> "absent"]}
    /\ UNCHANGED <<stay, booked, details, left, rows, thisVisit, paysFor, lost>>

Next ==
    \/ \E p \in Plates : \/ Leave(p) \/ LeaveElsewhere(p) \/ ReservationCancel(p)
                         \/ ReserveElsewhere(p) \/ EndElsewhere(p) \/ CheckIn(p) \/ Enter(p)
    \/ \E u \in Users, p \in Plates : OrderCreate(u, p) \/ ReservationCreate(u, p)
    \/ \E u \in Users, o \in Ids : Confirm(u, o) \/ ConfirmRefused(u, o)
    \/ Sweep \/ Tick \/ Restart

\* Time goes on and the timer of the sweep fires.
Fairness == WF_vars(Tick) /\ WF_vars(Sweep)

Spec == Init /\ [][Next]_vars
FairSpec == Spec /\ Fairness

-----------------------------------------------------------------------------
(***************************************************************************)
(* Properties.                                                             *)
(***************************************************************************)

\* Every variable stays in its type, and a deposit is never waiting to be paid.
TypeOK ==
    /\ stay \in [Plates -> Away .. MaxStay]
    /\ booked \subseteq Plates
    /\ \A o \in Ids : /\ details[o].kind \in {"none", "deposit", "parking_fee"}
                      /\ details[o].amount \in 0 .. DailyCap
    /\ left \in [Ids -> Expired .. OrderTimeout]
    /\ orders \in [Ids -> Statuses]
    /\ rows \in [Ids -> Statuses]
    /\ \A o \in Ids : details[o].kind = "deposit" => orders[o] \in {"absent", "paid", "refunded"}
    /\ thisVisit \subseteq Ids
    /\ paysFor \in [Ids -> 0 .. 2]
    /\ lost \subseteq Ids
    /\ failures \in 0 .. MaxFailures

\* The row of an order is never ahead of the memory, it lags behind only where a
\* write was lost, and no order exists in memory alone (insertOrder).
RowsFollow ==
    /\ TypeOK
    /\ \A o \in Ids :
           orders[o] # "absent" =>
               /\ rows[o] \in {orders[o], "pending"}
               /\ rows[o] # orders[o] => o \in lost

\* An order pays for one exit only, however often it is confirmed and whatever happens
\* to its car in between, unless its row was never brought up to date ("no second
\* charge" in handleOrderConfirm).
PaysForOneExit == \A o \in Ids : paysFor[o] = 2 => o \in lost

\* The rule of core/service/Billing.h by counting: the minimum fee for the first unit begun
\* after the free period, the unit fee for each other, the cap.
UnitsBegun(d) == {k \in 0 .. d : FreeDuration + k * BillingUnit < d}
Cost(d) ==
    LET n == Cardinality(UnitsBegun(d))
    IN  IF BillingUnit = 0 \/ n = 0 THEN 0
        ELSE Lesser(MinimumFee + (n - 1) * UnitFee, DailyCap)

\* Whoever pays an order of the present visit never pays more than the rule asks of the
\* stay at the exit: no unit is counted before it has begun, and the fee only grows from
\* the order to the exit, over the free period, the units and the cap.
NeverOvercharged ==
    [][\A o \in Ids : paysFor'[o] > paysFor[o] /\ o \in thisVisit =>
           details[o].amount <= Cost(stay[details[o].plate])]_vars

\* No order waits to be paid for ever.
OrdersSettle == \A o \in Ids : orders[o] = "pending" ~> orders[o] # "pending"

\* What docs/rest-api.md says of an exit without payment: the unpaid orders of the
\* visit are cancelled, so that a pending order is always one of the present visit.
NoDanglingOrder == \A o \in Ids : orders[o] = "pending" => o \in thisVisit
=============================================================================
