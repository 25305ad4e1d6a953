SPECIFICATION SubsystemsSpec
CONSTANTS
    Null = Null
    Asleep = Asleep
    Openers = {p1, p2}
    MaxCrashes = 1
    Graphs = {"g1", "g2"}
    MaxCalls = 3
    MaxFaults = 3
    WorkerCount = 1
    Budget = 2
    Recycle = 1
    Capacity = 4
    FailureLimit = 1
    Limits = {"memory"}
    Controls = {"STOP", "PAUSE", "RESUME"}
    MaxKills = 1
    Keys = {1, 2, 3, 4}
    TopK = 2
    MaxRestarts = 2
    MaxCheckpoint = 1
INVARIANTS
    SingleFaultContained
    AnswerIsForRequest
    OneFaultAbsorbed
    StoppedRunEnds
    
    NextOpenCompletes
    
    
    PassiveDecisionsValid
CHECK_DEADLOCK FALSE
