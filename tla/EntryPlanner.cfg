SPECIFICATION PlannerSpec
CONSTANTS
    p1 = p1
    p2 = p2
    s1 = s1
    None = None
    Plates <- MCPlates
    Spots <- MCOneSpot
    AccessibleSpots <- MCAccessible
    Starts <- MCStarts
    Outages <- MCOutages
    MinLead = 0
    MaxAdvance = 1
    Grace = 0
    MaxReservations = 1
    MaxTime = 1
    MaxFaults = 1
    QueueLimit = 2
    MaxRetries = 1
    MaxTurned = 1
INVARIANTS
    NobodyStranded
PROPERTIES
    EntersForWhoAsks
    RefusedForAReason
    EntersAtomically
    EverybodyAnswered
CHECK_DEADLOCK FALSE
