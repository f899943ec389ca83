SPECIFICATION FairSpec
CONSTANTS
    r1 = r1
    l1 = l1
    l2 = l2
    None = None
    Requests <- MCRequests
    Links <- MCLinks
    MaxChanges = 1
    MaxStarts = 2
    MaxFaults = 1
INVARIANTS
    SessionSound
    AnswerTrue
PROPERTIES
    AnswersOnce
    Reconnects
    CatchesUp
CHECK_DEADLOCK FALSE
