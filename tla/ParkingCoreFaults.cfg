SPECIFICATION Spec
CONSTANTS
    p1 = p1
    p2 = p2
    s1 = s1
    s2 = s2
    None = None
    Plates <- MCPlates
    Spots <- MCOneSpot
    AccessibleSpots <- MCAccessible
    Starts <- MCStarts
    Outages <- MCOutages
    MinLead = 1
    MaxAdvance = 2
    Grace = 1
    MaxReservations = 2
    MaxTime = 3
    MaxFaults = 3
SYMMETRY MCSymmetry
INVARIANT IInv
CHECK_DEADLOCK FALSE
