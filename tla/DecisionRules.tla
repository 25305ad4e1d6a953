---------------------------- MODULE DecisionRules ----------------------------
(***************************************************************************)
(* What the host accepts of a Director decision: the reviewed action       *)
(* catalog (catalog.py), the resolution of the per-turn aliases the model  *)
(* answers with and the semantic validation (validation.py).  The module   *)
(* has no state: DirectorView and PassivePolicy apply it to the contexts   *)
(* and decisions their steps build.                                        *)
(*                                                                         *)
(* Durable identifiers are tuples <<"lane", n>>, <<"candidate", n>>,       *)
(* <<"checkpoint", lane, n>>, ...; what the model sends back is an alias   *)
(* <<"alias", kind, n>>.  Texts, random seeds and the fallback are left    *)
(* out: they are bounded strings and integers no other rule looks at.      *)
(* Real-valued parameters are counted in thousandths and resource shares   *)
(* in twelfths, so that the shares of up to four lanes are exact.          *)
(***************************************************************************)
EXTENDS Integers, Sequences, FiniteSets, SequencesExt

CONSTANT Null      \* JSON null, and an absent reference

(***************************************************************************)
(* The reviewed catalog                                                    *)
(***************************************************************************)
MutationAlgorithms ==
  {"simulated_annealing", "iterated_local_search", "iterated_local_search_tabu"}

Algorithms == MutationAlgorithms \cup {"random_restart"}

GraphFamilies ==
  {"connected_cubic", "predominantly_cubic", "unrestricted_min_degree_3"}

Diagnostics == {"cycle_length_profile", "graph_invariants", "mutation_ancestry",
                "archive_cluster_comparison", "operator_yield",
                "seed_generation_efficiency", "candidate_structural_diff",
                "canonical_duplicate_analysis"}

ReviewEvents == {"new_global_best", "meaningful_improvement", "regression",
                 "stagnation", "diversity_collapse", "operator_yield_shift",
                 "verification_result", "verifier_disagreement",
                 "lane_failure", "resource_pressure", "action_lease_expired"}

HypothesisOperations ==
  {"create", "confirm", "weaken", "reject", "retain", "revise"}

MutationOperators == {"uniform_two_edge_switch", "forbidden_cycle_break_switch"}

ParameterDomains ==
  [order                 |-> 4..128,
   batch_candidates      |-> 100..1000000,
   witness_cap           |-> 1..10000,
   temperature           |-> 1..100000,        \* 0.001 .. 100.0
   cooling               |-> 900..1000,        \* 0.9 .. 1.0
   restart_threshold     |-> 100..10000000,
   tabu_tenure           |-> 1..4096,
   perturbation_interval |-> 1..1000000]

RequiredParameters == {"order", "batch_candidates", "witness_cap"}

AlgorithmParameters(algorithm) ==
  RequiredParameters \cup
  CASE algorithm = "random_restart" -> {}
    [] algorithm = "simulated_annealing" ->
         {"temperature", "cooling", "restart_threshold",
          "mutation_weights", "proposal_ranking"}
    [] OTHER ->
         {"tabu_tenure", "perturbation_interval",
          "mutation_weights", "proposal_ranking"}

PatchableParameters(algorithm) ==
  AlgorithmParameters(algorithm) \ {"order", "proposal_ranking"}

Whole == 12        \* the whole machine, in twelfths

-----------------------------------------------------------------------------
(***************************************************************************)
(* Aliases                                                                 *)
(***************************************************************************)
Alias(kind, n) == <<"alias", kind, n>>

Unresolved == <<"unresolved">>

DurableKinds == {"lane", "candidate", "checkpoint", "hypothesis", "snapshot"}

(* resolve: an alias of an expected kind becomes the durable identifier    *)
(* the registry of this turn keeps for it; a wrong role, an unknown or     *)
(* stale alias and a raw durable identifier are issues.  Any other name,   *)
(* such as that of a hypothesis the decision creates, is left as it is.    *)
Resolve(ref, kinds, registry) ==
  CASE ref = Null -> Unresolved
    [] ref[1] = "alias" ->
         IF ref[2] \in kinds /\ ref[3] \in DOMAIN registry[ref[2]]
         THEN registry[ref[2]][ref[3]] ELSE Unresolved
    [] ref[1] \in DurableKinds -> Unresolved
    [] OTHER -> ref

ResolveAll(refs, kinds, registry) ==
  [i \in DOMAIN refs |-> Resolve(refs[i], kinds, registry)]

ResolveOptional(ref, kinds, registry) ==
  IF ref = Null THEN Null ELSE Resolve(ref, kinds, registry)

ResolveTargets(a, registry) ==
  CASE a.type \in {"patch_lane", "stop_lane"} ->
         [a EXCEPT !.lane = Resolve(@, {"lane"}, registry)]
    [] a.type = "fork_lane" ->
         [a EXCEPT !.lane = Resolve(@, {"lane"}, registry),
                   !.checkpoint = Resolve(@, {"checkpoint"}, registry)]
    [] a.type = "restart_lane" ->
         [a EXCEPT !.lane = Resolve(@, {"lane"}, registry),
                   !.checkpoint = ResolveOptional(@, {"checkpoint"}, registry),
                   !.candidate = ResolveOptional(@, {"candidate"}, registry)]
    [] a.type = "reallocate_resources" ->
         [a EXCEPT !.allocations =
            [i \in DOMAIN @ |->
               [@[i] EXCEPT !.lane = Resolve(@, {"lane"}, registry)]]]
    [] a.type = "promote_candidate" ->
         [a EXCEPT !.candidate = Resolve(@, {"candidate"}, registry)]
    [] a.type = "schedule_verification" ->
         [a EXCEPT !.candidates = ResolveAll(@, {"candidate"}, registry)]
    [] a.type = "request_diagnostic" ->
         [a EXCEPT !.subjects = ResolveAll(@, {"lane", "candidate"}, registry)]
    [] OTHER -> a

(* A hypothesis is created under an identifier of its own and referred to  *)
(* by its alias afterwards.                                                *)
ResolveUpdate(u, registry) ==
  [u EXCEPT !.id = IF u.operation = "create"
                   THEN IF @[1] = "alias" THEN Unresolved ELSE @
                   ELSE Resolve(@, {"hypothesis"}, registry),
            !.for = ResolveAll(@, {"evidence"}, registry),
            !.against = ResolveAll(@, {"evidence"}, registry)]

ResolveDecision(d, registry) ==
  [d EXCEPT
     !.snapshot = Resolve(@, {"snapshot"}, registry),
     !.updates = [i \in DOMAIN @ |-> ResolveUpdate(@[i], registry)],
     !.actions =
       [i \in DOMAIN @ |->
          ResolveTargets(
            [@[i] EXCEPT
               !.hypotheses = ResolveAll(@, {"hypothesis"}, registry),
               !.evidence = ResolveAll(@, {"evidence"}, registry)],
            registry)]]

-----------------------------------------------------------------------------
(***************************************************************************)
(* Validation.  A context ctx is the record publish() builds: snapshot,    *)
(* evidence, lanes (a function to version and algorithm), checkpoints,     *)
(* candidates, hypotheses, maxLanes, executable, subjects, applicable,     *)
(* reserved and ranking.                                                   *)
(***************************************************************************)

(* _normalize_transport_nulls: a null parameter is an absent one.          *)
DropNulls(p) == [n \in {m \in DOMAIN p : p[m] # Null} |-> p[n]]

IdList(refs, least, most, allowed) ==
  /\ Len(refs) \in least..most
  /\ IsInjective(refs)
  /\ ToSet(refs) \subseteq allowed

WeightsValid(w) ==
  /\ DOMAIN w # {} /\ DOMAIN w \subseteq MutationOperators
  /\ \A o \in DOMAIN w : w[o] >= 0
  /\ \E o \in DOMAIN w : w[o] > 0

(* proposal_ranking is a BOOLEAN here: it names the reviewed entry or not. *)
ParameterValid(n, value, algorithm, ranking) ==
  CASE n = "mutation_weights" -> WeightsValid(value)
    [] n = "proposal_ranking" ->
         value /\ ranking /\ algorithm \in MutationAlgorithms
    [] OTHER -> value \in ParameterDomains[n]

PatchValid(patch, algorithm, ranking) ==
  LET p == DropNulls(patch) IN
  /\ DOMAIN p # {}
  /\ DOMAIN p \subseteq PatchableParameters(algorithm)
  /\ \A n \in DOMAIN p : ParameterValid(n, p[n], algorithm, ranking)

StartParametersValid(parameters, algorithm, ranking) ==
  LET p == DropNulls(parameters) IN
  /\ DOMAIN p \subseteq AlgorithmParameters(algorithm)
  /\ \A n \in DOMAIN p : ParameterValid(n, p[n], algorithm, ranking)
  /\ RequiredParameters \subseteq DOMAIN p
  /\ ranking /\ algorithm \in MutationAlgorithms
       => "proposal_ranking" \in DOMAIN p

StartValid(a, ctx) ==
  /\ a.algorithm \in Algorithms
  /\ a.family \in GraphFamilies
  /\ a.share \in 1..Whole
  /\ StartParametersValid(a.parameters, a.algorithm, ctx.ranking)
  /\ a.family = "connected_cubic" => a.parameters["order"] % 2 = 0

(* _lane_target, also applied to every item of an allocation.              *)
LaneTarget(target, ctx) ==
  /\ target.lane \in DOMAIN ctx.lanes
  /\ target.lane \in ctx.executable
  /\ target.version = ctx.lanes[target.lane].version

CheckpointTarget(checkpoint, ctx) ==
  /\ checkpoint \in ctx.checkpoints
  /\ checkpoint \in ctx.executable

CandidateTarget(candidate, ctx) ==
  /\ candidate \in ctx.candidates
  /\ candidate \in ctx.executable

ForkValid(a, ctx) ==
  /\ LaneTarget(a, ctx)
  /\ CheckpointTarget(a.checkpoint, ctx)
  /\ Len(a.variants) \in 1..4
  /\ \A i \in DOMAIN a.variants :
       /\ PatchValid(a.variants[i].patch, ctx.lanes[a.lane].algorithm, ctx.ranking)
       /\ a.variants[i].share \in 1..Whole

(* A reference that did not resolve is an issue even if the source of the  *)
(* restart makes no use of it.                                             *)
RestartValid(a, ctx) ==
  /\ LaneTarget(a, ctx)
  /\ Unresolved \notin {a.checkpoint, a.candidate}
  /\ a.source \in {"new_seed", "checkpoint", "archive_elite"}
  /\ a.source = "checkpoint" => CheckpointTarget(a.checkpoint, ctx)
  /\ a.source = "archive_elite" => CandidateTarget(a.candidate, ctx)

AllocationsValid(allocations, ctx) ==
  /\ Len(allocations) \in 1..32
  /\ \A i \in DOMAIN allocations :
       LaneTarget(allocations[i], ctx) /\ allocations[i].share \in 0..Whole
  /\ IsInjective([i \in DOMAIN allocations |-> allocations[i].lane])
  /\ FoldSeq(LAMBDA x, total : x.share + total, 0, allocations) <= Whole

CandidatesValid(candidates, ctx) ==
  /\ Len(candidates) \in 1..32
  /\ IsInjective(candidates)
  /\ \A i \in DOMAIN candidates : CandidateTarget(candidates[i], ctx)

ReviewValid(r) ==
  /\ r.minWall \in 10..3600 /\ r.maxWall \in 30..7200 /\ r.minWall <= r.maxWall
  /\ r.delta \in 1..100000000
  /\ Len(r.events) <= 16
  /\ IsInjective(r.events)
  /\ ToSet(r.events) \subseteq ReviewEvents

WindowValid(w) == w.maxWall \in 10..7200 /\ w.maxDelta \in 1..100000000

TargetsValid(a, ctx) ==
  CASE a.type = "start_lane" -> StartValid(a, ctx)
    [] a.type = "patch_lane" ->
         /\ LaneTarget(a, ctx)
         /\ PatchValid(a.patch, ctx.lanes[a.lane].algorithm, ctx.ranking)
    [] a.type = "fork_lane" -> ForkValid(a, ctx)
    [] a.type = "restart_lane" -> RestartValid(a, ctx)
    [] a.type = "stop_lane" -> LaneTarget(a, ctx)
    [] a.type = "reallocate_resources" -> AllocationsValid(a.allocations, ctx)
    [] a.type = "promote_candidate" -> CandidateTarget(a.candidate, ctx)
    [] a.type = "request_diagnostic" ->
         a.diagnostic \in Diagnostics /\ IdList(a.subjects, 1, 32, ctx.subjects)
    [] a.type = "schedule_verification" ->
         CandidatesValid(a.candidates, ctx) /\ a.verificationPriority \in 0..100
    [] a.type = "set_review_trigger" -> ReviewValid(a.review)

ActionValid(a, ctx, created) ==
  /\ a.type \in ctx.applicable
  /\ a.id \notin ctx.reserved
  /\ a.priority \in 0..100
  /\ a.lease \in 30..7200
  /\ IdList(a.evidence, 0, 32, ctx.evidence)
  /\ IdList(a.hypotheses, 0, 16, ctx.hypotheses \cup created)
  /\ WindowValid(a.window)
  /\ TargetsValid(a, ctx)

(* _validate_hypotheses: creations are new, the other operations name an   *)
(* existing hypothesis; the first n updates have created Created(u, n).    *)
Created(updates, n) ==
  {updates[i].id : i \in {j \in 1..n : updates[j].operation = "create"}}

UpdatesValid(updates, ctx) ==
  /\ Len(updates) <= 32
  /\ \A i \in DOMAIN updates :
       /\ updates[i].operation \in HypothesisOperations
       /\ IF updates[i].operation = "create"
          THEN updates[i].id \notin ctx.hypotheses \cup Created(updates, i - 1)
          ELSE updates[i].id \in ctx.hypotheses
       /\ updates[i].id # Unresolved
       /\ IdList(updates[i].for, 0, 32, ctx.evidence)
       /\ IdList(updates[i].against, 0, 32, ctx.evidence)

(* Lanes an action would add to the active ones.                           *)
ProjectedStarts(a) ==
  CASE a.type = "start_lane" -> 1
    [] a.type = "fork_lane" -> Len(a.variants)
    [] OTHER -> 0

ValidDecision(d, ctx) ==
  LET created == Created(d.updates, Len(d.updates)) IN
  /\ d.snapshot = ctx.snapshot
  /\ UpdatesValid(d.updates, ctx)
  /\ Len(d.actions) \in 1..12
  /\ \A i \in DOMAIN d.actions : ActionValid(d.actions[i], ctx, created)
  /\ IsInjective([i \in DOMAIN d.actions |-> d.actions[i].id])
  /\ IsInjective([i \in DOMAIN d.actions |-> d.actions[i].key])
  /\ FoldSeq(LAMBDA a, total : ProjectedStarts(a) + total,
             Cardinality(DOMAIN ctx.lanes), d.actions) <= ctx.maxLanes
  /\ ReviewValid(d.review)

=============================================================================
