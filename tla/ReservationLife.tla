--------------------------- MODULE ReservationLife --------------------------
(***************************************************************************)
(* What a reservation promises to the driver who paid for it, stated of    *)
(* what is kept in the database: the rows of the reservations, the         *)
(* receipts of their deposits, and the spots of the cars inside.           *)
(*                                                                         *)
(* A reservation is booked once and ends in one of three ways, each at its *)
(* time and with its receipt: the car arrives in time and departs, the     *)
(* driver withdraws before the start, or nobody came until the deadline.   *)
(* A call of the service may take several reservations one step further,   *)
(* none of them two steps.                                                 *)
(***************************************************************************)
EXTENDS Naturals

CONSTANTS
    Ids,              \* the reservations
    Plates,           \* number plates
    AccessibleSpots,  \* spots that are reserved without a deposit
    None,             \* no spot
    MinLead,          \* a reservation starts so long ahead at least
    MaxAdvance,       \* and at most
    Grace             \* how long after the start the driver may arrive

VARIABLES
    now,     \* the time
    up,      \* the program runs; while it is not it may repair at its next start
    rows,    \* the reservations
    ledger,  \* the receipts of each, by kind
    cars     \* the spot of each car inside

vars == <<now, up, rows, ledger, cars>>

Open(row) == row.st \in {"Confirmed", "CheckedIn"}

Init ==
    /\ now = 0 /\ up = TRUE
    /\ \A r \in Ids : /\ rows[r].st = "Absent"
                      /\ \A k \in {"charge", "refund", "forfeit", "apply"} : ledger[r][k] = 0
    /\ \A p \in Plates : cars[p] = None

Becomes(r, st)   == rows'[r] = [rows[r] EXCEPT !.st = st]
Receipt(r, kind) == ledger'[r] = [ledger[r] EXCEPT ![kind] = @ + 1]
NoReceipt(r)     == ledger'[r] = ledger[r]
Settle(r, kind)  == IF rows[r].charged THEN Receipt(r, kind) ELSE NoReceipt(r)

Stay(r) == rows'[r] = rows[r] /\ NoReceipt(r)

\* A car that is not inside, a plate and a spot that no open reservation has.
Book(r) ==
    LET new == rows'[r] IN
    /\ rows[r].st = "Absent" /\ new.st = "Confirmed"
    /\ new.start \in now + MinLead .. now + MaxAdvance
    /\ cars[new.plate] = None
    /\ \A q \in Ids \ {r} : Open(rows'[q]) => rows'[q].plate # new.plate
                                              /\ rows'[q].spot # new.spot
    /\ \/ /\ new.charged /\ new.deadline = new.start + Grace
          /\ Receipt(r, "charge")
       \/ /\ ~new.charged /\ new.deadline = new.start + 2 * Grace
          /\ new.spot \in AccessibleSpots
          /\ NoReceipt(r)

Arrive(r) ==
    /\ rows[r].st = "Confirmed" /\ now <= rows[r].deadline
    /\ cars[rows[r].plate] = None /\ cars'[rows[r].plate] = rows[r].spot
    /\ Becomes(r, "CheckedIn") /\ NoReceipt(r)

Depart(r) ==
    /\ rows[r].st = "CheckedIn"
    /\ cars[rows[r].plate] = rows[r].spot /\ cars'[rows[r].plate] = None
    /\ Becomes(r, "Completed") /\ Receipt(r, "apply")

Miss(r) ==
    /\ rows[r].st = "Confirmed" /\ now > rows[r].deadline
    /\ Becomes(r, "NoShow") /\ Settle(r, "forfeit")

\* The driver cancels before the start, or the program gives the reservation back when
\* it finds the spot taken at its own start.
Withdraw(r) ==
    /\ rows[r].st = "Confirmed" /\ (now < rows[r].start \/ ~up)
    /\ Becomes(r, "Cancelled") /\ Settle(r, "refund")

Hop(r) == Stay(r) \/ Book(r) \/ Arrive(r) \/ Depart(r) \/ Miss(r) \/ Withdraw(r)

Next ==
    \/ now' = now /\ \A r \in Ids : Hop(r)
    \/ now' = now + 1 /\ UNCHANGED <<up, rows, ledger, cars>>

Spec == Init /\ [][Next]_vars
=============================================================================
