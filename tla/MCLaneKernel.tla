---------------------------- MODULE MCLaneKernel ----------------------------
(* A small instance of LaneKernel for TLC.                                  *)
EXTENDS LaneKernel, TLC

CONSTANTS g1, g2, g3

MCGraphs == {g1, g2, g3}
MCLengths == <<4, 8>>
MCCounts == (g1 :> <<0, 3>>) @@ (g2 :> <<1, 1>>) @@ (g3 :> <<2, 0>>)
MCSize == (g1 :> 6) @@ (g2 :> 6) @@ (g3 :> 6)
=============================================================================
