--------------------------- MODULE MCLaneDispatch ----------------------------
(* Small instances of LaneDispatch for TLC.                                *)
EXTENDS LaneDispatch, TLC

CONSTANTS l1, l2, l3, l4, a1, a2, a3, a4

MCOneLane == {l1}
MCTwoLanes == {l1, l2}
MCFourLanes == {l1, l2, l3, l4}
MCTwoActions == {a1, a2}
MCThreeActions == {a1, a2, a3}

Symmetry == Permutations(Lanes) \cup Permutations(Actions)
=============================================================================
