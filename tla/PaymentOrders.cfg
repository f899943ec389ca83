SPECIFICATION FairSpec
CONSTANTS
    driver = driver
    p1 = p1
    p2 = p2
    Users <- MCUsers
    Admins <- MCAdmins
    Plates <- MCPlates
    MaxOrders = 2
    OrderTimeout = 0
    MaxStay = 2
    MaxFailures = 2
    FreeDuration = 1
    BillingUnit = 1
    MinimumFee = 1
    UnitFee = 1
    DailyCap = 2
INVARIANTS
    RowsFollow
    PaysForOneExit
PROPERTIES
    NeverOvercharged
    OrdersSettle
CHECK_DEADLOCK FALSE
