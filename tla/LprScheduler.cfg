SPECIFICATION FairSpec
CONSTANTS
    rest = rest
    tcp = tcp
    Contexts <- MCContexts
    MaxJobs = 4
    MaxConcurrency = 2
    QueueLimit = 1
INVARIANTS
    LoadSound
    WorkConserving
PROPERTIES
    AnswersOnce
CHECK_DEADLOCK FALSE
