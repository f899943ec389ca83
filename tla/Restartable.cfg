SPECIFICATION Spec
CONSTANTS
    p1 = p1
    p2 = p2
    s1 = s1
    s2 = s2
    None = None
    Plates <- MCPlates
    Spots <- MCSpots
    AccessibleSpots <- MCAccessible
    Starts <- MCStarts
    Outages <- MCNoOutage
    MinLead = 1
    MaxAdvance = 2
    Grace = 1
    MaxReservations = 2
    MaxTime = 3
    MaxFaults = 0
INVARIANT Restartable
CHECK_DEADLOCK FALSE
