SPECIFICATION FairSpec
CONSTANTS
    Modes = {"stateless_turns", "persistent_thread", "compacted_thread"}
    MaxThreads = 3
    MaxRows = 2
    MaxAttempts = 2
    MaxTries = 2
    RolloverAfter = 1

    
PROPERTIES
    EndedTurnsFinal
    TurnEnds
CHECK_DEADLOCK FALSE
