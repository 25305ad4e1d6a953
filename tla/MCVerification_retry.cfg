SPECIFICATION FairSpec
CONSTANTS
    c1 = c1
    c2 = c2
    a1 = a1
    a2 = a2
    a3 = a3
    Candidates <- MCCandidates
    Actions <- MCActionsTwo
    MaxQueue = 1
    MaxConcurrent = 1
    MaxAttempts = 3
    CycleFree <- MCCandidates
    Admissible <- MCCandidates
    Faulty = "none"
INVARIANTS
    QueueBounded
PROPERTIES
    ActionsSettle
    JobsSettle
CHECK_DEADLOCK FALSE
