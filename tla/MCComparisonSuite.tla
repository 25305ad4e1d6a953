-------------------------- MODULE MCComparisonSuite --------------------------
(* Small instances of ComparisonSuite for TLC.                              *)
EXTENDS ComparisonSuite, TLC

CONSTANTS w1, w2

MCTwoWorkers == {w1, w2}

(* A strict conversation of two arms, and two independent arms.             *)
MCPlans == {[failClosed |-> TRUE, resumes |-> {2}], [failClosed |-> FALSE, resumes |-> {}]}
=============================================================================
