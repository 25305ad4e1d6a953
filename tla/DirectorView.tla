---------------------------- MODULE DirectorView ----------------------------
(***************************************************************************)
(* What the Director is shown of a campaign, and what it may act on:       *)
(* SnapshotBuilder.publish (snapshot.py), the scientific memory it carries *)
(* forward (continuity.py), the action space, the reference registries and *)
(* the alias projection (context.py), the choices the output schema leaves *)
(* to the model (protocol.py) and the checkpoint retention of the lane     *)
(* manager (lanes.py).  The operators of the second part read the state of *)
(* the first: lane rows and runtimes, the checkpoint registry, candidates. *)
(*                                                                         *)
(* A checkpoint is the n-th one its lane took.  Candidates are numbered by *)
(* their score, the best first.  Paused and stopping lanes are shown like  *)
(* running ones and are left out, and so are the byte bounds of the prompt *)
(* and the fields that carry no identifier.                                *)
(***************************************************************************)
EXTENDS DecisionRules

CONSTANTS
  Lanes,                \* lane numbers, a finite set of naturals
  Candidates,           \* candidate numbers, a finite set of naturals
  LaneAlgorithms,       \* the algorithms lanes are started with
  MaxActiveLanes,       \* max_active_lanes
  CheckpointsPerLane,   \* checkpoints_per_lane
  PinLimit,             \* pinned_checkpoints
  AliasLimit,           \* MODEL_ALIAS_LIMITS
  MaxCheckpoints,       \* bound: checkpoints all lanes take
  MaxVersion,           \* bound: revisions of a lane
  MaxResumes            \* bound: restarts of the coordinator

VARIABLES
  row,          \* research_lanes: state, lane_version, algorithm, checkpoint_ref
  runtime,      \* LaneRuntime: version and latest checkpoint of the worker,
                \* and the checkpoint of a revision that is not yet committed
  order,        \* _checkpoint_order, per lane
  pinned,       \* _pinned_checkpoint_order
  known,        \* manager.checkpoints
  files,        \* the checkpoint files of the campaign directory
  candidate,    \* campaign_candidates
  memory,       \* best_ever_result of the latest scientific memory, or Null
  targets,      \* executable checkpoints of the review under way
  resumes

vars == <<row, runtime, order, pinned, known, files,
          candidate, memory, targets, resumes>>

manager == <<order, pinned, known, files>>

LaneId(l) == <<"lane", l>>
CandidateId(c) == <<"candidate", c>>
CheckpointId(l, n) == <<"checkpoint", l, n>>
SnapshotId == <<"snapshot">>

ActiveStates == {"starting", "running"}
Active == {l \in Lanes : row[l].state \in ActiveStates}
Ascending(S) == SetToSortSeq(S, <)
CanTake == FoldFunction(LAMBDA r, total : r.taken + total, 0, runtime) < MaxCheckpoints
FirstN(s, n) == SubSeq(s, 1, IF Len(s) < n THEN Len(s) ELSE n)

Init ==
  /\ row = [l \in Lanes |-> [state |-> "none", version |-> 0,
                             algorithm |-> "random_restart", checkpoint |-> 0]]
  /\ runtime = [l \in Lanes |-> [version |-> 0, latest |-> 0, taken |-> 0,
                                 outcome |-> 0, answered |-> FALSE]]
  /\ order = [l \in Lanes |-> <<>>]
  /\ pinned = <<>>
  /\ known = {} /\ files = {}
  /\ candidate = [c \in Candidates |-> [state |-> "none", checkpoint |-> Null]]
  /\ memory = Null
  /\ targets = {}
  /\ resumes = 0

-----------------------------------------------------------------------------
(***************************************************************************)
(* The checkpoint registry                                                 *)
(***************************************************************************)

UnretainedAlsoPinned(l, gone) == {CheckpointId(l, n) : n \in gone}  \* variant: pins are ignored

Unretained(l, gone) == {CheckpointId(l, n) : n \in gone} \ ToSet(pinned)

(* _remember_checkpoint: the new checkpoint is registered and written, and *)
(* those beyond the lane's retention are dropped unless they are pinned.   *)
Remember(l, n) ==
  LET whole   == Append(order[l], n)
      surplus == Len(whole) - CheckpointsPerLane
      kept    == IF surplus > 0 THEN SubSeq(whole, surplus + 1, Len(whole)) ELSE whole
      dropped == Unretained(l, ToSet(whole) \ ToSet(kept))
  IN /\ order' = [order EXCEPT ![l] = kept]
     /\ known' = (known \cup {CheckpointId(l, n)}) \ dropped
     /\ files' = (files \cup {CheckpointId(l, n)}) \ dropped
     /\ UNCHANGED pinned

Ordered(id) == id[3] \in ToSet(order[id[2]])

(* pin_checkpoints: the batch goes to the end; the oldest pins beyond the  *)
(* limit are released, and dropped when no lane retains them.              *)
Pin(ids) ==
  LET whole    == SelectSeq(pinned, LAMBDA id : id \notin ids) \o SetToSeq(ids)
      surplus  == Len(whole) - PinLimit
      kept     == IF surplus > 0 THEN SubSeq(whole, surplus + 1, Len(whole)) ELSE whole
      dropped  == {id \in ToSet(whole) \ ToSet(kept) : ~Ordered(id)}
  IN /\ pinned' = kept
     /\ known' = known \ dropped
     /\ files' = files \ dropped
     /\ UNCHANGED order

-----------------------------------------------------------------------------
(***************************************************************************)
(* Lanes and candidates                                                    *)
(***************************************************************************)
(* Lanes are numbered in the order in which they start.                    *)
Start(l, algorithm) ==
  /\ row[l].state = "none"
  /\ \A k \in Lanes : k < l => row[k].state # "none"
  /\ Cardinality(Active) < MaxActiveLanes
  /\ row' = [row EXCEPT ![l].state = "starting", ![l].algorithm = algorithm]
  /\ UNCHANGED <<runtime, manager, candidate, memory, targets, resumes>>

Ready(l) ==
  /\ row[l].state = "starting"
  /\ row' = [row EXCEPT ![l].state = "running"]
  /\ UNCHANGED <<runtime, manager, candidate, memory, targets, resumes>>

(* A checkpoint event: the manager registers it; record_lane_checkpoint    *)
(* moves the row only while the row has the worker's version.              *)
Checkpoint(l) ==
  LET n == runtime[l].taken + 1 IN
  /\ l \in Active
  /\ CanTake
  /\ runtime' = [runtime EXCEPT ![l].taken = n, ![l].latest = n]
  /\ row' = IF runtime[l].version = row[l].version
            THEN [row EXCEPT ![l].checkpoint = n] ELSE row
  /\ Remember(l, n)
  /\ UNCHANGED <<candidate, memory, targets, resumes>>

(* The worker has applied a patch, a restart or a new share: it moves its  *)
(* version and sends a checkpoint of it before it reports the outcome.     *)
Apply(l) ==
  LET n == runtime[l].taken + 1 IN
  /\ row[l].state = "running"
  /\ runtime[l].outcome = 0
  /\ row[l].version < MaxVersion
  /\ CanTake
  /\ runtime' = [runtime EXCEPT ![l].taken = n, ![l].latest = n,
                                ![l].version = @ + 1, ![l].outcome = n]
  /\ Remember(l, n)
  /\ UNCHANGED <<row, candidate, memory, targets, resumes>>

CommittedRow(l) ==
  [row EXCEPT ![l].version = runtime[l].version, ![l].checkpoint = runtime[l].outcome]

(* The outcome event pins its checkpoint.  A single-lane action commits at *)
(* once; a reallocation waits for the answers of its other lanes.          *)
Outcome(l, alone) ==
  /\ l \in Active
  /\ runtime[l].outcome # 0 /\ ~runtime[l].answered
  /\ CheckpointId(l, runtime[l].outcome) \in known
  /\ Pin({CheckpointId(l, runtime[l].outcome)})
  /\ IF alone
     THEN /\ row' = CommittedRow(l)
          /\ runtime' = [runtime EXCEPT ![l].outcome = 0]
     ELSE /\ runtime' = [runtime EXCEPT ![l].answered = TRUE]
          /\ UNCHANGED row
  /\ UNCHANGED <<candidate, memory, targets, resumes>>

CompleteAllocation(l) ==
  /\ l \in Active
  /\ runtime[l].answered
  /\ CheckpointId(l, runtime[l].outcome) \in known
  /\ row' = CommittedRow(l)
  /\ runtime' = [runtime EXCEPT ![l].outcome = 0, ![l].answered = FALSE]
  /\ UNCHANGED <<manager, candidate, memory, targets, resumes>>

Exit(l) ==
  /\ row[l].state = "running"
  /\ row' = [row EXCEPT ![l].state = "stopped"]
  /\ runtime' = [runtime EXCEPT ![l].outcome = 0, ![l].answered = FALSE]
  /\ UNCHANGED <<manager, candidate, memory, targets, resumes>>

(* The archive retains an improvement with the lane's checkpoint.          *)
Retain(c, l) ==
  LET id == CheckpointId(l, runtime[l].latest) IN
  /\ candidate[c].state = "none"
  /\ l \in Active
  /\ id \in known
  /\ candidate' = [candidate EXCEPT ![c] = [state |-> "retained", checkpoint |-> id]]
  /\ UNCHANGED <<row, runtime, manager, memory, targets, resumes>>

Promote(c) ==
  /\ candidate[c].state = "retained"
  /\ candidate' = [candidate EXCEPT ![c].state = "promoted"]
  /\ UNCHANGED <<row, runtime, manager, memory, targets, resumes>>

Reject(c) ==
  /\ candidate[c].state \in {"retained", "promoted"}
  /\ candidate' = [candidate EXCEPT ![c].state = "rejected"]
  /\ UNCHANGED <<row, runtime, manager, memory, targets, resumes>>

(* A new coordinator process: recovery restores the active lanes from the  *)
(* checkpoints of their rows, fails the ones it cannot, and registers the  *)
(* checkpoints of the other rows and of the candidates whose files exist.  *)
Resume ==
  LET Restorable(l) == CheckpointId(l, row[l].checkpoint) \in files
      archived == {CheckpointId(l, row[l].checkpoint) : l \in {m \in Lanes : Restorable(m)}}
                    \cup {candidate[c].checkpoint :
                            c \in {d \in Candidates : candidate[d].checkpoint \in files}}
  IN
  /\ resumes < MaxResumes
  /\ resumes' = resumes + 1
  /\ row' = [l \in Lanes |->
               IF l \notin Active THEN row[l]
               ELSE [row[l] EXCEPT !.state = IF Restorable(l) THEN "running" ELSE "failed"]]
  /\ runtime' = [l \in Lanes |->
                   [runtime[l] EXCEPT
                      !.version = row[l].version,
                      !.latest = IF Restorable(l) THEN row[l].checkpoint ELSE 0,
                      !.outcome = 0, !.answered = FALSE]]
  /\ known' = archived
  /\ order' = [l \in Lanes |-> Ascending({id[3] : id \in {i \in archived : i[2] = l}})]
  /\ pinned' = <<>>
  /\ targets' = {}
  /\ UNCHANGED <<files, candidate, memory>>

-----------------------------------------------------------------------------
(***************************************************************************)
(* The snapshot                                                            *)
(***************************************************************************)

(* _lanes: a lane is shown with its worker's latest checkpoint, if that is *)
(* active and registered.                                                  *)
LaneCheckpoints ==
  {CheckpointId(l, runtime[l].latest) : l \in Active} \cap known

(* current_executable_checkpoint_ids of the lanes and of the candidates.   *)
ExecutableCheckpoints ==
  LaneCheckpoints \cup ({candidate[c].checkpoint : c \in Candidates} \cap known)

ExecutableCandidates ==
  {c \in Candidates : candidate[c].state \in {"retained", "promoted"}}

Ledger == {c \in Candidates : candidate[c].state # "none"}

LedgerLanes == {l \in Lanes : row[l].state # "none"}

LedgerCheckpoint(l) == CheckpointId(l, row[l].checkpoint)

LedgerCheckpoints ==
  {LedgerCheckpoint(l) : l \in {m \in LedgerLanes : row[m].checkpoint # 0}}

(* _global_best: the best candidate that is not rejected.                  *)
GlobalBest ==
  IF ExecutableCandidates = {} THEN Null
  ELSE CandidateId(CHOOSE c \in ExecutableCandidates :
                     \A d \in ExecutableCandidates : c <= d)

(* project: the memory keeps the previous best result when there is none   *)
(* now.  _director_state_before_total_compaction clears it while the       *)
(* campaign has neither lanes nor actions; the ledgers are always current. *)
Projection == IF GlobalBest # Null THEN GlobalBest ELSE memory

BestEver == IF LedgerLanes = {} THEN Null ELSE Projection

-----------------------------------------------------------------------------
(***************************************************************************)
(* The action space and the registries                                     *)
(***************************************************************************)
Slots ==
  IF Cardinality(Active) < MaxActiveLanes
  THEN MaxActiveLanes - Cardinality(Active) ELSE 0

SpaceLanes == {LaneId(l) : l \in Active}
SpaceCandidates == {CandidateId(c) : c \in ExecutableCandidates}
SpaceCheckpoints == LaneCheckpoints \cup ExecutableCheckpoints
SpaceSubjects == {LaneId(l) : l \in LedgerLanes} \cup SpaceCandidates

Actions ==
  (IF Slots > 0 THEN {"start_lane"} ELSE {})
  \cup (IF Active = {} THEN {}
        ELSE {"patch_lane", "restart_lane", "stop_lane", "reallocate_resources"})
  \cup (IF Active # {} /\ SpaceCheckpoints # {} /\ Slots > 0
        THEN {"fork_lane"} ELSE {})
  \cup (IF SpaceCandidates = {} THEN {}
        ELSE {"promote_candidate", "schedule_verification"})
  \cup (IF SpaceSubjects = {} THEN {} ELSE {"request_diagnostic"})
  \cup {"set_review_trigger"}

(* build_reference_registries: every identifier the state mentions is      *)
(* evidence; only the lists of the action space are executable.            *)
EvidenceCandidates ==
  {CandidateId(c) : c \in Ledger} \cup ({BestEver} \ {Null})

EvidenceCheckpoints == LedgerCheckpoints \cup SpaceCheckpoints

Evidence ==
  {SnapshotId} \cup {LaneId(l) : l \in LedgerLanes}
    \cup EvidenceCandidates \cup EvidenceCheckpoints

Executable ==
  SpaceLanes \cup SpaceCandidates
    \cup (IF Active = {} THEN {} ELSE SpaceCheckpoints)

(* The DecisionContext of publish.                                         *)
Context ==
  [snapshot    |-> SnapshotId,
   evidence    |-> Evidence,
   lanes       |-> [id \in SpaceLanes |->
                      [version |-> row[id[2]].version,
                       algorithm |-> row[id[2]].algorithm]],
   checkpoints |-> EvidenceCheckpoints,
   candidates  |-> EvidenceCandidates,
   hypotheses  |-> {},
   maxLanes    |-> MaxActiveLanes,
   executable  |-> Executable,
   subjects    |-> SpaceSubjects,
   applicable  |-> Actions,
   reserved    |-> {},
   ranking     |-> FALSE]

-----------------------------------------------------------------------------
(***************************************************************************)
(* The alias projection                                                    *)
(***************************************************************************)
AliasLanes == FirstN([i \in 1..Cardinality(Active) |->
                        LaneId(Ascending(Active)[i])], AliasLimit)

RawCandidatesWithBest ==      \* variant: the best result ever is always offered
  SpaceCandidates \cup ({BestEver} \ {Null})

(* The candidates that may get an alias: the best result and the verifier  *)
(* outcomes only raise the priority of one that is executable.             *)
RawCandidates == SpaceCandidates

(* The best result first, then promoted before retained, then by score.    *)
CandidateBefore(a, b) ==
  LET Rank(id) == IF id = BestEver THEN 0
                  ELSE IF candidate[id[2]].state = "promoted" THEN 1 ELSE 2
  IN Rank(a) < Rank(b) \/ (Rank(a) = Rank(b) /\ a[2] < b[2])

AliasCandidates == FirstN(SetToSortSeq(RawCandidates, CandidateBefore), AliasLimit)

(* The checkpoints the ledger keeps for the lanes come first, then the     *)
(* others of the action space.                                             *)
RawCheckpoints ==
  LET lanes == SelectSeq(AliasLanes, LAMBDA id : row[id[2]].checkpoint # 0)
      first == [i \in DOMAIN lanes |-> LedgerCheckpoint(lanes[i][2])]
      Before(a, b) == a[2] < b[2] \/ (a[2] = b[2] /\ a[3] < b[3])
  IN first \o SetToSortSeq(SpaceCheckpoints \ ToSet(first), Before)

AliasCheckpoints == FirstN(RawCheckpoints, AliasLimit)

(* The evidence about what has been selected, in the order of its names.   *)
AliasEvidence ==
  FirstN(SelectSeq(AliasCandidates \o RawCheckpoints \o AliasLanes,
                   LAMBDA id : id \in Evidence), 2 * AliasLimit)

Registry ==
  [snapshot   |-> <<SnapshotId>>,
   lane       |-> AliasLanes,
   candidate  |-> AliasCandidates,
   checkpoint |-> AliasCheckpoints,
   hypothesis |-> <<>>,
   evidence   |-> AliasEvidence]

AliasesOf(kind, registry) == {Alias(kind, i) : i \in DOMAIN registry[kind]}

-----------------------------------------------------------------------------
(***************************************************************************)
(* A review: publish and the pinning of its checkpoints (_run_cycle).      *)
(***************************************************************************)
Publish ==
  LET executable == EvidenceCheckpoints \cap Executable IN
  /\ memory' = Projection
  /\ targets' = executable
  /\ Pin(executable)
  /\ UNCHANGED <<row, runtime, candidate, resumes>>

LaneStep(l) ==
  \/ \E algorithm \in LaneAlgorithms : Start(l, algorithm)
  \/ Ready(l)
  \/ Checkpoint(l)
  \/ Apply(l)
  \/ \E alone \in BOOLEAN : Outcome(l, alone)
  \/ CompleteAllocation(l)
  \/ Exit(l)

CandidateStep(c) ==
  \/ \E l \in Lanes : Retain(c, l)
  \/ Promote(c)
  \/ Reject(c)

Next ==
  \/ \E l \in Lanes : LaneStep(l)
  \/ \E c \in Candidates : CandidateStep(c)
  \/ Publish
  \/ Resume

Spec == Init /\ [][Next]_vars

-----------------------------------------------------------------------------
(***************************************************************************)
(* The decisions the output schema leaves to the model: every action of    *)
(* the action space with every target the schema enumerates.               *)
(***************************************************************************)
Review == [minWall |-> 10, maxWall |-> 30, delta |-> 4000, events |-> <<"lane_failure">>]

Plain(type) ==
  [type |-> type, id |-> <<"action", 1>>, key |-> <<"action", 1>>,
   priority |-> 50, lease |-> 120, evidence |-> <<>>, hypotheses |-> <<>>,
   window |-> [maxWall |-> 30, maxDelta |-> 4000]]

VersionOf(alias, registry) == row[registry.lane[alias[3]][2]].version

OnLane(type, alias, registry) ==
  Plain(type) @@ [lane |-> alias, version |-> VersionOf(alias, registry)]

SchemaForks(registry) ==
  IF Slots = 0 THEN {}
  ELSE {OnLane("fork_lane", lane, registry) @@
          [checkpoint |-> checkpoint,
           variants |-> [i \in 1..n |-> [patch |-> [witness_cap |-> 64], share |-> 1]]] :
          lane \in AliasesOf("lane", registry), checkpoint \in AliasesOf("checkpoint", registry),
          n \in 1..(IF Slots < 4 THEN Slots ELSE 4)}

SchemaActions(registry) ==
  {Plain("start_lane") @@
     [algorithm |-> algorithm, family |-> "connected_cubic", share |-> 1,
      parameters |-> [order |-> 20, batch_candidates |-> 2000, witness_cap |-> 64]] :
     algorithm \in LaneAlgorithms}
  \cup {OnLane("patch_lane", lane, registry) @@ [patch |-> [batch_candidates |-> 200]] :
          lane \in AliasesOf("lane", registry)}
  \cup {OnLane("restart_lane", lane, registry) @@
          [source |-> "archive_elite", checkpoint |-> Null, candidate |-> elite] :
          lane \in AliasesOf("lane", registry), elite \in AliasesOf("candidate", registry)}
  \cup {OnLane("stop_lane", lane, registry) : lane \in AliasesOf("lane", registry)}
  \cup {Plain("reallocate_resources") @@
          [allocations |->
             [i \in DOMAIN registry.lane |->
                [lane |-> Alias("lane", i), version |-> VersionOf(Alias("lane", i), registry),
                 share |-> Whole \div Len(registry.lane)]]]}
  \cup {Plain("promote_candidate") @@ [candidate |-> c] : c \in AliasesOf("candidate", registry)}
  \cup {Plain("request_diagnostic") @@
          [diagnostic |-> "operator_yield", subjects |-> <<s>>] :
          s \in AliasesOf("lane", registry) \cup AliasesOf("candidate", registry)}
  \cup {[Plain("schedule_verification") EXCEPT
           !.evidence = [i \in DOMAIN registry.evidence |-> Alias("evidence", i)]] @@
          [candidates |-> [i \in DOMAIN registry.candidate |-> Alias("candidate", i)],
           verificationPriority |-> 50]}
  \cup {Plain("set_review_trigger") @@ [review |-> Review]}

Deciding(a) ==
  [snapshot |-> Alias("snapshot", 1), updates |-> <<>>, actions |-> <<a>>,
   review |-> Review]

Accepted(a, registry, ctx) ==
  ValidDecision(ResolveDecision(Deciding(a), registry), ctx)

-----------------------------------------------------------------------------
(* Every action of the action space with any lane, candidate or diagnostic *)
(* subject the output schema enumerates for it passes alias resolution and *)
(* semantic validation, in every state of lanes, candidates and memory: a  *)
(* turn is not spent on a target the host offered and then refuses.        *)
OfferedTargetsAccepted ==
  LET registry == Registry
      ctx == Context
  IN \A a \in SchemaActions(registry) :
       a.type \in ctx.applicable => Accepted(a, registry, ctx)

(* The same for the checkpoints of a fork: docs/IMPLEMENTATION_STATUS.md   *)
(* says that only the latest integrity-checked checkpoint of each active   *)
(* lane is exposed as a current executable target.  TLC refutes it, so no  *)
(* run checks it: an alias outlives the checkpoint's place in the registry *)
(* of executable ones.                                                     *)
OfferedCheckpointsAccepted ==
  LET registry == Registry
      ctx == Context
  IN "fork_lane" \in ctx.applicable =>
       \A a \in SchemaForks(registry) : Accepted(a, registry, ctx)

(* The checkpoints a review may name stay in the registry until the next   *)
(* review or restart, whatever the lanes take and pin in the meantime, so  *)
(* that a fork or restart decided on the snapshot finds its checkpoint.    *)
ReviewCheckpointsKept == targets \subseteq known

=============================================================================
