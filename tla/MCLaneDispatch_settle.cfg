SPECIFICATION FairSpec
CONSTANTS
    l1 = l1
    l2 = l2
    l3 = l3
    l4 = l4
    a1 = a1
    a2 = a2
    a3 = a3
    a4 = a4
    NoAction = NoAction
    NoLane = NoLane
    Lanes <- MCTwoLanes
    Actions <- MCThreeActions
    Kinds = {"start", "patch", "fork", "stop", "reallocate"}
    MaxActiveLanes = 2
    CommandCapacity = 1
    MaxAttempts = 1
    EmitTimeouts = TRUE

    
PROPERTIES
    ActionsSettleWhileLanesLive
CHECK_DEADLOCK FALSE
