SPECIFICATION FairSpec
CONSTANTS
    p1 = p1
    Gates <- MCLanes
    Kind <- MCLanesKind
    Plates <- MCOnePlate
    Capacity = 1
    BatchLimit = 2
    MaxEvents = 3
    MaxFaults = 3
    MaxTorn = 1
INVARIANTS
    AppliedOnce
    NothingDropped
    JudgedInOrder
PROPERTIES
    Drained
CHECK_DEADLOCK FALSE
