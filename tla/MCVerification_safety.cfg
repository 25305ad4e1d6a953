SPECIFICATION Spec
CONSTANTS
    c1 = c1
    c2 = c2
    a1 = a1
    a2 = a2
    a3 = a3
    Candidates <- MCCandidates
    Actions <- MCActionsTwo
    MaxQueue = 2
    MaxConcurrent = 2
    MaxAttempts = 2
    CycleFree <- MCCycleFree
    Admissible <- MCAdmissible
    Faulty = "checker"
SYMMETRY Symmetry
INVARIANTS
    ClaimedCandidatesPinned
    NoLeakedPin
    RunningRowsHaveWorkers
PROPERTIES
    ImplementsCertification
CHECK_DEADLOCK FALSE
