---------------------------- MODULE Certification ----------------------------
(***************************************************************************)
(* What the verification subsystem promises, without pins, jobs, queues,   *)
(* workers or attempts: a verdict on a candidate is final, only a graph    *)
(* free of forbidden cycles is certified, and the first certification ends *)
(* the campaign in the same step and is the only one to be announced.      *)
(***************************************************************************)
CONSTANTS Candidates, CycleFree

VARIABLES
    verdict,    \* the final word on each candidate, "open" until there is one
    announced,  \* candidates of success terminal events
    succeeded   \* whether the campaign has ended as a certified success

vars == <<verdict, announced, succeeded>>

Init ==
    /\ verdict = [c \in Candidates |-> "open"]
    /\ announced = {}
    /\ succeeded = FALSE

Certify(c) ==
    /\ verdict[c] = "open"
    /\ c \in CycleFree
    /\ verdict' = [verdict EXCEPT ![c] = "certified"]
    /\ announced' = IF succeeded THEN announced ELSE {c}
    /\ succeeded' = TRUE

Reject(c) ==
    /\ verdict[c] = "open"
    /\ verdict' = [verdict EXCEPT ![c] = "rejected"]
    /\ UNCHANGED <<announced, succeeded>>

Next == \E c \in Candidates : Certify(c) \/ Reject(c)

Spec == Init /\ [][Next]_vars
=============================================================================
