--------------------------- MODULE PassivePolicy ---------------------------
(***************************************************************************)
(* The passive scheduler (passive.py): the deterministic policy that takes *)
(* the Director's place in a campaign without a model.  A review publishes *)
(* a snapshot, computes a decision from it and from the scheduler's state, *)
(* and commits both; a command that moved the campaign's version meanwhile *)
(* makes the batch stale, which is recorded and replanned once.  Decisions *)
(* obey the rules of DecisionRules in the context of DirectorView; there   *)
(* are no aliases and no lane event is handled during a review.            *)
(***************************************************************************)
EXTENDS DirectorView

CONSTANTS
  InitialAlgorithms,   \* PASSIVE_INITIAL_ALGORITHMS
  Scores,              \* best_scalar values a lane may report
  MaxReviews,          \* bound: committed reviews
  MaxStale,            \* bound: reviews rejected as stale
  MaxImproved          \* bound: lanes that improve on their first score

VARIABLES
  share,       \* resource_share of the lane rows
  wanted,      \* shares of a reallocation under way, 0 for none
  score,       \* best_scalar of the lanes' metrics
  jobs,        \* candidates with a verification job
  stored,      \* passive_scheduler_states
  mine,        \* the scheduler's state in memory
  recorded,    \* passive_scheduler_decisions, per state_version_before
  actionIds,   \* director_actions
  replanned,   \* the review at hand follows one rejected as stale
  fault

passive == <<share, wanted, score, jobs, stored, mine, recorded, actionIds,
             replanned, fault>>

StagnationWindows == 2

InitialState == [version |-> 0, cursor |-> 0, best |-> <<>>, stagnation |-> <<>>]

Worst(S) == CHOOSE s \in S : \A t \in S : t <= s

PassiveInit ==
  /\ Init
  /\ share = [l \in Lanes |-> 0]
  /\ wanted = [l \in Lanes |-> 0]
  /\ score = [l \in Lanes |-> Worst(Scores)]
  /\ jobs = {}
  /\ stored = InitialState /\ mine = InitialState
  /\ recorded = [v \in 0..MaxReviews |-> 0]
  /\ actionIds = {}
  /\ replanned = FALSE
  /\ fault = FALSE

-----------------------------------------------------------------------------
(***************************************************************************)
(* The decision                                                            *)
(***************************************************************************)
ReviewContract ==
  [minWall |-> 10, maxWall |-> 30, delta |-> 4000,
   events |-> <<"verification_result", "verifier_disagreement", "lane_failure",
                "resource_pressure", "action_lease_expired">>]

(* _common_action: the identifier is a digest of these values; the attempt *)
(* is the number of decisions already recorded for this scheduler state.   *)
ActionIdOfState(version, attempt, index, type) ==      \* variant: the attempt is not digested
  <<"passive", version, 0, index, type>>

ActionId(version, attempt, index, type) ==
  <<"passive", version, attempt, index, type>>

Common(index, type) ==
  LET id == ActionId(mine.version, recorded[mine.version], index, type) IN
  [type |-> type, id |-> id, key |-> id, priority |-> 50, lease |-> 120,
   evidence |-> <<>>, hypotheses |-> <<>>,
   window |-> [maxWall |-> 30, maxDelta |-> 4000]]

StartParameters(algorithm) ==
  [order |-> 20, batch_candidates |-> 2000, witness_cap |-> 64] @@
  CASE algorithm = "random_restart" -> <<>>
    [] algorithm = "simulated_annealing" ->
         [temperature |-> 1000, cooling |-> 995, restart_threshold |-> 20000,
          mutation_weights |-> [uniform_two_edge_switch |-> 750,
                                forbidden_cycle_break_switch |-> 250]]
    [] OTHER ->
         [tabu_tenure |-> 64, perturbation_interval |-> 500,
          mutation_weights |-> [uniform_two_edge_switch |-> 500,
                                forbidden_cycle_break_switch |-> 500]]

StartAction(index, algorithm, part) ==
  Common(index, "start_lane") @@
    [algorithm |-> algorithm, family |-> "connected_cubic", share |-> part,
     parameters |-> StartParameters(algorithm)]

RestartAction(index, l) ==
  LET id == CheckpointId(l, runtime[l].latest) IN
  Common(index, "restart_lane") @@
    [lane |-> LaneId(l), version |-> row[l].version, candidate |-> Null,
     source |-> IF id \in known THEN "checkpoint" ELSE "new_seed",
     checkpoint |-> IF id \in known THEN id ELSE Null]

(* The windows without improvement of the lanes that are active now.       *)
Improved(l) == l \notin DOMAIN mine.best \/ score[l] < mine.best[l]

Stagnation ==
  [l \in Active |->
     IF Improved(l) THEN 0
     ELSE (IF l \in DOMAIN mine.stagnation THEN mine.stagnation[l] ELSE 0) + 1]

(* _unsubmitted_candidate: the global best, unless a job names it already. *)
Unsubmitted ==
  {GlobalBest} \cap Executable \cap {CandidateId(c) : c \in Candidates \ jobs}

Verifications ==
  [i \in 1..Cardinality(Unsubmitted) |->
     Common(0, "schedule_verification") @@
       [candidates |-> SetToSeq(Unsubmitted), verificationPriority |-> 50]]

InitialSize ==
  IF Len(InitialAlgorithms) < MaxActiveLanes THEN Len(InitialAlgorithms)
  ELSE MaxActiveLanes

(* Missing algorithms of the initial portfolio first; a full portfolio is  *)
(* extended by at most two lanes a review, in turn.                        *)
StartsAfter(offset) ==
  LET present == {row[l].algorithm : l \in Active}
      missing == SelectSeq(InitialAlgorithms, LAMBDA a : a \notin present)
      open    == MaxActiveLanes - Cardinality(Active)
  IN IF Cardinality(Active) < InitialSize
     THEN [i \in 1..Len(FirstN(missing, InitialSize - Cardinality(Active))) |->
             StartAction(offset + i - 1, missing[i], Whole \div InitialSize)]
     ELSE [i \in 1..(IF open < 2 THEN open ELSE 2) |->
             StartAction(offset + i - 1,
               InitialAlgorithms[((mine.cursor + i - 1) % Len(InitialAlgorithms)) + 1],
               Whole \div MaxActiveLanes)]

(* The lane that has stagnated longest, the least identifier first.        *)
Stagnant ==
  LET S == {l \in Active : Stagnation[l] >= StagnationWindows} IN
  {l \in S : \A m \in S : \/ Stagnation[l] > Stagnation[m]
                          \/ Stagnation[l] = Stagnation[m] /\ l <= m}

Balanced == \A l \in Active : share[l] = Whole \div Cardinality(Active)

Rebalance ==
  LET lanes == Ascending(Active) IN
  Common(0, "reallocate_resources") @@
    [allocations |->
       [i \in DOMAIN lanes |->
          [lane |-> LaneId(lanes[i]), version |-> row[lanes[i]].version,
           share |-> Whole \div Cardinality(Active)]]]

(* _decision: verification, new lanes and a restart; when there is none of *)
(* them, a rebalancing of the shares or a bare review trigger.             *)
DecidedActions ==
  LET before == Verifications \o StartsAfter(Len(Verifications))
      all == before \o SetToSeq({RestartAction(Len(before), l) : l \in Stagnant})
  IN IF all # <<>> THEN FirstN(all, 12)
     ELSE IF Active = {} \/ Balanced
          THEN <<Common(0, "set_review_trigger") @@ [review |-> ReviewContract]>>
          ELSE <<Rebalance>>

PassiveDecision ==
  [snapshot |-> SnapshotId, updates |-> <<>>, actions |-> DecidedActions,
   review |-> ReviewContract]

StartedIn(actions) == SelectSeq(actions, LAMBDA a : a.type = "start_lane")

StateAfter ==
  [version |-> mine.version + 1,
   cursor |-> mine.cursor + Len(StartedIn(DecidedActions)),
   best |-> [l \in Active |-> score[l]],
   stagnation |-> [l \in Active |-> IF l \in Stagnant THEN 0 ELSE Stagnation[l]]]

PassiveContext == [Context EXCEPT !.reserved = actionIds]

IdsOf(actions) == {actions[i].id : i \in DOMAIN actions}

-----------------------------------------------------------------------------
(***************************************************************************)
(* Reviews                                                                 *)
(***************************************************************************)
MayReview ==
  /\ ~fault
  /\ mine.version < MaxReviews
  /\ Len(StartedIn(DecidedActions)) <= Cardinality({l \in Lanes : row[l].state = "none"})

(* The batch commits with the scheduler's next state; its lanes start, its *)
(* verification is queued and its reallocation is sent to the workers.     *)
Commit ==
  LET actions == DecidedActions
      starts  == StartedIn(actions)
      fresh   == Ascending({l \in Lanes : row[l].state = "none"})
      Nth(l)  == CHOOSE i \in DOMAIN fresh : fresh[i] = l
      started == {fresh[i] : i \in DOMAIN starts}
  IN
  /\ row' = [l \in Lanes |->
               IF l \in started
               THEN [row[l] EXCEPT !.state = "starting",
                                   !.algorithm = starts[Nth(l)].algorithm]
               ELSE row[l]]
  /\ share' = [l \in Lanes |-> IF l \in started THEN starts[Nth(l)].share ELSE share[l]]
  /\ wanted' = [l \in Lanes |->
                  IF actions[1].type = "reallocate_resources" /\ l \in Active
                  THEN actions[1].allocations[1].share ELSE wanted[l]]
  /\ jobs' = jobs \cup {id[2] : id \in Unsubmitted}
  /\ actionIds' = actionIds \cup IdsOf(actions)
  /\ recorded' = [recorded EXCEPT ![mine.version] = @ + 1]
  /\ stored' = StateAfter /\ mine' = StateAfter
  /\ replanned' = FALSE
  /\ UNCHANGED fault

PassiveReview ==
  /\ MayReview
  /\ IF ValidDecision(PassiveDecision, PassiveContext)
     THEN Commit
     ELSE fault' = TRUE /\ UNCHANGED <<row, share, wanted, jobs, stored, mine,
                                       recorded, actionIds, replanned>>
  /\ memory' = Projection
  /\ UNCHANGED <<runtime, manager, candidate, targets, resumes, score>>

(* Decisions recorded without a new scheduler state.                       *)
Rejected == FoldFunction(+, 0, recorded) - stored.version

(* The batch lost a commit-time race: its actions and the decision are     *)
(* recorded as rejected and the scheduler rewinds to its stored state.  It *)
(* plans once more at once; a second stale plan in a row is a fault.       *)
PassiveStale ==
  /\ MayReview
  /\ Rejected < MaxStale
  /\ actionIds' = actionIds \cup IdsOf(DecidedActions)
  /\ recorded' = [recorded EXCEPT ![mine.version] = @ + 1]
  /\ mine' = stored
  /\ replanned' = TRUE
  /\ fault' = replanned
  /\ UNCHANGED <<vars, share, wanted, score, jobs, stored>>

(* A worker applies its new share and the row is committed.                *)
Reshare(l) ==
  /\ ~replanned
  /\ l \in Active /\ wanted[l] # 0
  /\ row[l].version < MaxVersion
  /\ row' = [row EXCEPT ![l].version = @ + 1]
  /\ runtime' = [runtime EXCEPT ![l].version = row[l].version + 1]
  /\ share' = [share EXCEPT ![l] = wanted[l]]
  /\ wanted' = [wanted EXCEPT ![l] = 0]
  /\ UNCHANGED <<manager, candidate, memory, targets, resumes,
                 score, jobs, stored, mine, recorded, actionIds, replanned, fault>>

Improve(l) ==
  /\ ~replanned
  /\ l \in Active
  /\ Cardinality({k \in Lanes \ {l} : score[k] < Worst(Scores)}) < MaxImproved
  /\ \E s \in Scores : s < score[l] /\ score' = [score EXCEPT ![l] = s]
  /\ UNCHANGED <<vars, share, wanted, jobs, stored, mine, recorded, actionIds,
                 replanned, fault>>

(* A new process reads the stored scheduler state.                         *)
PassiveResume ==
  /\ Resume
  /\ mine' = stored
  /\ replanned' = FALSE
  /\ fault' = FALSE
  /\ UNCHANGED <<share, wanted, score, jobs, stored, recorded, actionIds>>

PassiveNext ==
  \/ PassiveReview
  \/ PassiveStale
  \/ PassiveResume
  \/ \E l \in Lanes : Reshare(l) \/ Improve(l)
  \/ /\ ~replanned
     /\ UNCHANGED passive
     /\ \/ \E l \in Lanes : Ready(l) \/ Checkpoint(l) \/ Exit(l)
        \/ \E c \in Candidates : CandidateStep(c)

PassiveSpec == PassiveInit /\ [][PassiveNext]_<<vars, passive>>

-----------------------------------------------------------------------------
(* Whatever the campaign and the scheduler's history, the next decision of *)
(* the policy passes the validation it is submitted to: targets current,   *)
(* capacity kept, parameters in their domains, and action identifiers that *)
(* no earlier batch has used, the rejected plans of a stale review and a   *)
(* process that stopped before the commit included.  A refused passive     *)
(* decision faults the campaign, for nothing repairs it.                   *)
PassiveDecisionsValid ==
  MayReview => ValidDecision(PassiveDecision, PassiveContext)

=============================================================================
