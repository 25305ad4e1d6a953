--------------------------- MODULE MCVerification ----------------------------
(* Small instances of Verification for TLC.                                *)
EXTENDS Verification, TLC

CONSTANTS c1, c2, a1, a2, a3

MCCandidates == {c1, c2}
MCCycleFree == {c1}
MCAdmissible == {c1, c2}
MCActionsTwo == {a1, a2}

(* Actions are interchangeable: order is a free choice in the model.       *)
Symmetry == Permutations(Actions)
=============================================================================
