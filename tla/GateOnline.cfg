SPECIFICATION GateSpec
CONSTANTS
    car = car
    Plates <- MCPlates
    OpeningTime = 1
    HoldTime = 2
    ClosingTime = 1
    AlarmTime = 1
    MaxCommands = 3
    MaxLosses = 1
INVARIANTS
    IInv
    GateHonest
PROPERTIES
    HoldIsFull
    ArmReverses
    LaneServes
CHECK_DEADLOCK FALSE
