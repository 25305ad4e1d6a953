SPECIFICATION FairSpec
CONSTANTS
    w1 = w1
    w2 = w2
    Workers <- MCTwoWorkers
    N = 2
    Plans <- MCPlans
    Cap = 2
    MaxStops = 1
INVARIANTS
    InferenceAccounting
    OneWorkerAtWork
    NoPaidResume

    
CHECK_DEADLOCK FALSE
