---------------------------- MODULE MCSubsystems ----------------------------
(***************************************************************************)
(* Small instances of the subsystems that share no state with one another: *)
(* a behaviour is one of the subsystem `machine` names.  The subsystems    *)
(* that are extended keep an initial state while another machine runs; the *)
(* Director's view and the passive policy, instances whose variables carry *)
(* the names they have in their modules, are Asleep then.                  *)
(***************************************************************************)
EXTENDS SchemaMigration, ScoreWorker, M4Certify, LegacySearch, LegacyRun

CONSTANTS Null, Asleep

VARIABLES
  machine,
  row, runtime, order, pinned, known, files, candidate,        \* DirectorView
  memory, targets, resumes,
  share, wanted, score, jobs, stored, mine, recorded,          \* PassivePolicy
  actionIds, replanned, fault

viewVars   == <<row, runtime, order, pinned, known, files, candidate, memory,
                targets, resumes>>
policyVars == <<share, wanted, score, jobs, stored, mine, recorded, actionIds,
                replanned, fault>>

-----------------------------------------------------------------------------
View == INSTANCE DirectorView WITH
  Lanes <- {1, 2}, Candidates <- {1}, LaneAlgorithms <- {"random_restart"},
  MaxActiveLanes <- 2, CheckpointsPerLane <- 2, PinLimit <- 8, AliasLimit <- 2,
  MaxCheckpoints <- 3, MaxVersion <- 1, MaxResumes <- 1

Passive == INSTANCE PassivePolicy WITH
  Lanes <- {1, 2}, Candidates <- {1}, LaneAlgorithms <- {"random_restart"},
  MaxActiveLanes <- 2, CheckpointsPerLane <- 2, PinLimit <- 8, AliasLimit <- 2,
  MaxCheckpoints <- 1, MaxVersion <- 1, MaxResumes <- 1,
  InitialAlgorithms <- <<"simulated_annealing">>, Scores <- {1, 2}, MaxReviews <- 4,
  MaxStale <- 2, MaxImproved <- 1

-----------------------------------------------------------------------------
Machines ==
  {"certify", "score", "legacy search", "legacy run", "migration", "view", "passive"}

ViewAsleep ==
  /\ row = Asleep /\ runtime = Asleep /\ order = Asleep /\ pinned = Asleep
  /\ known = Asleep /\ files = Asleep /\ candidate = Asleep /\ memory = Asleep
  /\ targets = Asleep /\ resumes = Asleep

PolicyAsleep ==
  /\ share = Asleep /\ wanted = Asleep /\ score = Asleep /\ jobs = Asleep
  /\ stored = Asleep /\ mine = Asleep /\ recorded = Asleep
  /\ actionIds = Asleep /\ replanned = Asleep /\ fault = Asleep

(* Any graph may be certified and any release opened; when none is, one    *)
(* stands for them.                                                        *)
SubsystemsInit ==
  /\ machine \in Machines
  /\ Init /\ CertifyInit /\ SearchInit /\ RunInit /\ MigrationInit
  /\ machine # "certify" =>
       graph = [admissible |-> TRUE, cycleFree |-> TRUE, faulty |-> "none"]
  /\ machine # "migration" => version = 0
  /\ IF machine = "passive" THEN Passive!PassiveInit
     ELSE PolicyAsleep /\ IF machine = "view" THEN View!Init ELSE ViewAsleep

SubsystemsNext ==
  \/ /\ machine = "certify" /\ CertifyNext
     /\ UNCHANGED <<machine, vars, searchVars, runVars, migrationVars, viewVars, policyVars>>
  \/ /\ machine = "score" /\ Next
     /\ UNCHANGED <<machine, certifyVars, searchVars, runVars, migrationVars, viewVars, policyVars>>
  \/ /\ machine = "legacy search" /\ SearchNext
     /\ UNCHANGED <<machine, certifyVars, vars, runVars, migrationVars, viewVars, policyVars>>
  \/ /\ machine = "legacy run" /\ RunNext
     /\ UNCHANGED <<machine, certifyVars, vars, searchVars, migrationVars, viewVars, policyVars>>
  \/ /\ machine = "migration" /\ MigrationNext
     /\ UNCHANGED <<machine, certifyVars, vars, searchVars, runVars, viewVars, policyVars>>
  \/ /\ machine = "view" /\ View!Next
     /\ UNCHANGED <<machine, certifyVars, vars, searchVars, runVars, migrationVars, policyVars>>
  \/ /\ machine = "passive" /\ Passive!PassiveNext
     /\ UNCHANGED <<machine, certifyVars, vars, searchVars, runVars, migrationVars>>

subsystems ==
  <<machine, certifyVars, vars, searchVars, runVars, migrationVars, viewVars, policyVars>>

SubsystemsSpec == SubsystemsInit /\ [][SubsystemsNext]_subsystems

-----------------------------------------------------------------------------
(* DirectorView: an action with a lane, candidate or subject the output    *)
(* schema offers passes alias resolution and validation                    *)
(* (build_campaign_snapshot, validate_decision).                           *)
OfferedTargetsAccepted ==
  machine = "view" => View!OfferedTargetsAccepted

(* DirectorView: the checkpoints a review may name are not evicted before  *)
(* the next one (_remember_checkpoint, _pin_checkpoint).                   *)
ReviewCheckpointsKept ==
  machine = "view" => View!ReviewCheckpointsKept

(* PassivePolicy: the policy's next decision passes the validation it is   *)
(* submitted to, after stale plans and restarts too (PassiveScheduler,     *)
(* validate_decision).                                                     *)
PassiveDecisionsValid ==
  machine = "passive" => Passive!PassiveDecisionsValid

=============================================================================
