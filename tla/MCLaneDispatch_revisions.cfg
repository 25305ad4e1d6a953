SPECIFICATION Spec
CONSTANTS
    l1 = l1
    l2 = l2
    l3 = l3
    l4 = l4
    a1 = a1
    a2 = a2
    a3 = a3
    a4 = a4
    NoAction = NoAction
    NoLane = NoLane
    Lanes <- MCTwoLanes
    Actions <- MCThreeActions
    Kinds = {"start", "patch", "stop"}
    MaxActiveLanes = 2
    CommandCapacity = 2
    MaxAttempts = 3
    EmitTimeouts = FALSE
SYMMETRY Symmetry
INVARIANTS
    VersionCountsRevisions
    RunningLanesRestorable
    
CHECK_DEADLOCK FALSE
