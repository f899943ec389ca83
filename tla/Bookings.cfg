SPECIFICATION Spec
CONSTANTS
    car1 = car1
    car2 = car2
    None = None
    Plates <- MCPlates
    Leads <- MCLeads
    Bookers <- MCBookers
    NSpots = 2
    Grace = 1
    Ttl = 1
    MaxBookings = 2
    MaxTime = 3
    MaxFaults = 1
INVARIANTS
    BookingsSound
    StartsAgain
CHECK_DEADLOCK FALSE
