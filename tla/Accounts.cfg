SPECIFICATION Spec
CONSTANTS
    admin = admin
    ann = ann
    Names <- MCNames
    Seeds <- MCSeeds
    MaxLoginFailures = 2
    LockDuration = 2
    TokenTtl = 2
    MaxTokens = 2
    MaxFaults = 2
    MaxRows = 2
INVARIANTS
    LockHolds
    OneTokenPerLogin
    VerifyFindsFault
PROPERTIES
    RefreshKeepsClient
CHECK_DEADLOCK FALSE
