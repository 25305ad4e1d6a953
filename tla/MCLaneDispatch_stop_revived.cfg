SPECIFICATION Spec
CONSTANTS
    l1 = l1
    l2 = l2
    l3 = l3
    l4 = l4
    a1 = a1
    a2 = a2
    a3 = a3
    a4 = a4
    NoAction = NoAction
    NoLane = NoLane
    Lanes <- MCOneLane
    Actions <- MCTwoActions
    Kinds = {"start", "stop"}
    MaxActiveLanes = 1
    CommandCapacity = 1
    MaxAttempts = 2
    EmitTimeouts = FALSE
INVARIANTS
    StoppedStaysStopped
CHECK_DEADLOCK FALSE
