-------------------------- MODULE MCCampaignControl --------------------------
(* An instance of CampaignControl: two experiment commands and two           *)
(* coordinators, which nothing tells apart.                                  *)
EXTENDS CampaignControl, TLC

CONSTANTS c1, c2, r1, r2

MCCommands == {c1, c2}
MCRunners  == {r1, r2}
MCSymmetry == Permutations(MCCommands) \cup Permutations(MCRunners)
=============================================================================
