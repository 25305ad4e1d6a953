SPECIFICATION FairSpec
CONSTANTS
    Modes = {"llm", "passive"}
    MaxTurns = 2
    MaxAttempts = 2
PROPERTIES
    AcceptedTargetsCurrent
    OutcomeLatched
    EventsReviewed
    StopHonoured
CHECK_DEADLOCK FALSE
