-------------------------- MODULE SchemaMigration --------------------------
(***************************************************************************)
(* Opening the workspace database (src/sglab/db.py, connect and migrate).  *)
(* Every process that opens the database runs the whole migration: the CLI *)
(* and the web server, the campaign runner and the comparison worker may   *)
(* open one file at the same time, and no lock covers more than one SQL    *)
(* statement (an ALTER or a CREATE commits by itself, executescript runs   *)
(* its statements one by one); only the passive-scheduler script has a     *)
(* BEGIN ... COMMIT of its own.                                            *)
(*                                                                         *)
(* The migration is a list of statements that each process walks through.  *)
(* Tables that a script creates with IF NOT EXISTS are created together:   *)
(* repeating such a script completes it.  Of a table with many added       *)
(* columns the first and the last are kept; indexes are left out.          *)
(***************************************************************************)
EXTENDS Integers, Sequences, FiniteSets

CONSTANTS Openers, MaxCrashes

VARIABLES
    objects,  \* the tables and columns in the file
    version,  \* PRAGMA user_version
    opener,   \* per process: its state and the statements its last look left to do
    crashes   \* processes that died (or timed out on a lock) while migrating

migrationVars == <<objects, version, opener, crashes>>

SchemaVersion == 19
Always == SchemaVersion + 1

(***************************************************************************)
(* A statement is skipped when the version read last is not below `below`, *)
(* when a table of `on` was missing or an object of `unless` was present   *)
(* at the last look; `stamp` is the version it sets, 0 for none.           *)
(***************************************************************************)
Statement(op, objs, on, unless, below, stamp) ==
    [op |-> op, objs |-> objs, on |-> on, unless |-> unless, below |-> below, stamp |-> stamp]

Look == <<Statement("look", {}, {}, {}, Always, 0)>>
EnsureTables(tables, on) == <<Statement("ensure", tables, on, {}, Always, 0)>>
AddColumns(on, columns) ==
    Look \o [i \in 1..Len(columns) |-> Statement("create", {columns[i]}, on, {columns[i]}, Always, 0)]
SetVersion(v, on) == <<Statement("stamp", {}, on, {}, Always, v)>>
RaiseVersion(v, on) == Look \o <<Statement("stamp", {}, on, {}, v, v)>>

BaseTables == {"run_metrics", "candidates", "candidate_scores",
               "artifacts", "verifications", "benchmarks", "tool_versions"}
BaseSchema == <<Statement("create", {"runs"}, {}, {}, 1, 0),
                Statement("create", BaseTables, {}, {}, 1, 0),
                Statement("stamp", {}, {}, {}, 1, 1)>>

DirectorTables == {"research_campaigns", "director_snapshots", "app_server_sessions",
                   "director_triggers", "app_server_turns", "research_lanes",
                   "campaign_candidates"}
LedgerTables == {"lane_revisions", "lane_metric_windows", "director_action_batches",
                 "director_actions", "director_action_outcomes", "research_hypotheses_v2",
                 "campaign_verification_jobs", "campaign_terminal_events"}
ActiveDirectorSchema == <<Statement("ensure", DirectorTables, {}, {}, 7, 0),
                          Statement("ensure", LedgerTables, {}, {}, 7, 0),
                          Statement("stamp", {}, {}, {}, 7, 7)>>

EnsureM6LaneColumns ==
    LET lanes == {"research_lanes"}
    IN  AddColumns(lanes, <<"target">>)
            \o <<Statement("fill", {"target filled"}, lanes, {"target"}, Always, 0),
                 Statement("create", {"parent_checkpoint_ref"}, lanes,
                           {"parent_checkpoint_ref"}, Always, 0)>>
EnsureM6CandidateTable == EnsureTables({"campaign_candidates"}, {})

ComplianceColumns == {"cache_write_input_tokens", "final_agent_item_id"}
EnsureComplianceColumns ==
    AddColumns({"app_server_turns"}, <<"cache_write_input_tokens", "final_agent_item_id">>)
        \o <<Statement("stamp", {}, {"app_server_turns"}, ComplianceColumns, Always, 8)>>

LifecycleColumns == <<"lifecycle_status", "evidence_registry_sha256">>
EnsureLifecycleColumns ==
    AddColumns({"app_server_turns"}, LifecycleColumns)
        \o <<Statement("fill", {"lifecycle filled"}, {"app_server_turns"},
                       {"lifecycle_status"}, Always, 0)>>
        \o RaiseVersion(9, {})

ComparisonPlanTables == {"comparison_suites", "model_cost_profiles"}
ComparisonRunTables == {"comparison_arms", "comparison_turns", "manual_ratings",
                        "pairwise_ratings", "comparison_authorizations"}
ComparisonSchema ==
    LET unless == {"comparison_suites"}
    IN  <<Statement("create", {"comparison_fixtures"}, {}, unless, Always, 0),
          Statement("create", ComparisonPlanTables, {}, unless, Always, 0),
          Statement("create", ComparisonRunTables, {}, unless, Always, 0),
          Statement("stamp", {}, {}, unless, Always, 10)>>
EnsureComparisonSchema ==
    AddColumns({"research_campaigns"},
               <<"effective_context_mode", "context_recommendation_basis">>)
        \o AddColumns({"app_server_sessions"}, <<"context_mode">>)
        \o AddColumns({"app_server_turns"}, <<"thread_lifecycle">>)
        \o Look \o ComparisonSchema
        \o RaiseVersion(10, {})

WorkerTables == {"comparison_execution_attempts", "comparison_runtime_campaigns",
                 "comparison_worker_leases", "comparison_stop_requests",
                 "comparison_inference_reservations", "comparison_arm_transitions"}
EnsureComparisonWorkerSchema ==
    AddColumns({"comparison_suites"}, <<"stop_state", "maximum_worker_wall_seconds">>)
        \o AddColumns({"comparison_arms"}, <<"conversation_group_id", "app_thread_id">>)
        \o AddColumns({"comparison_fixtures"}, <<"prompt_text", "campaign_budget_json">>)
        \o AddColumns({"comparison_turns"}, <<"turn_request_id", "raw_response_artifact">>)
        \o EnsureTables(WorkerTables, {})
        \o SetVersion(11, {})

EnsureComparisonResourceSchema ==
    LET suites == {"comparison_suites"}
    IN  AddColumns(suites, <<"resource_accounting_version", "resource_policy_label">>)
            \o EnsureTables({"comparison_resource_samples"}, suites)
            \o AddColumns(suites, <<"process_reap_status", "process_return_code">>)
            \o SetVersion(13, suites)
EnsureArmPolicySchema ==
    AddColumns({"comparison_suites"}, <<"arm_failure_policy">>)
        \o SetVersion(14, {"comparison_suites"})

ContinuityTables == {"campaign_memory_snapshots", "campaign_execution_attempts",
                     "campaign_candidate_snapshots", "campaign_candidate_pins"}
EnsureContinuitySchema ==
    LET campaigns == {"research_campaigns"}
    IN  Look \o EnsureTables(ContinuityTables, campaigns)
            \o AddColumns(campaigns, <<"current_attempt_id", "initial_resource_plan_json">>)
            \o AddColumns({"app_server_turns"}, <<"execution_attempt_id", "memory_snapshot_id">>)
            \o AddColumns({"campaign_verification_jobs"},
                          <<"candidate_snapshot_id", "job_execution_attempt_id">>)
            \o RaiseVersion(15, campaigns)
EnsureProvenanceSchema ==
    AddColumns({"campaign_candidates"}, <<"candidate provenance_json">>)
        \o RaiseVersion(16, {})

PassiveObjects == {"director_mode", "scheduler_decision_id",
                   "passive_scheduler_states", "passive_scheduler_decisions"}
PassiveRequired == {"research_campaigns", "campaign_execution_attempts", "director_action_batches"}

EnsurePassiveSchema ==
    Look \o <<Statement("create", PassiveObjects, PassiveRequired, PassiveObjects, 17, 17),
              Statement("stamp", {}, PassiveRequired \cup PassiveObjects, {}, 17, 17)>>

EnsureRankingSchema ==
    Look \o EnsureTables({"research_lane_policy_identities"}, {"research_lanes"})
        \o RaiseVersion(18, {"research_lanes"})
EnsureValidationColumns ==
    AddColumns({"app_server_turns"}, <<"validation_issues_json", "validation_issue_count">>)
        \o RaiseVersion(19, {"app_server_turns"})

(***************************************************************************)
(* migrate: the two version-guarded scripts, then every _ensure_ function. *)
(***************************************************************************)
Migrate ==
    Look \o BaseSchema \o ActiveDirectorSchema
        \o EnsureM6LaneColumns \o EnsureM6CandidateTable
        \o EnsureComplianceColumns \o EnsureLifecycleColumns
        \o EnsureComparisonSchema \o EnsureComparisonWorkerSchema
        \o EnsureComparisonResourceSchema \o EnsureArmPolicySchema
        \o EnsureContinuitySchema \o EnsureProvenanceSchema
        \o EnsurePassiveSchema \o EnsureRankingSchema \o EnsureValidationColumns

(***************************************************************************)
(* The effect of one statement on <<objects, version>>, given what the     *)
(* process saw at its last look.  A CREATE TABLE without IF NOT EXISTS and *)
(* an ALTER ... ADD COLUMN fail when the object is already there.          *)
(***************************************************************************)
AppliesUnlooked(s, seen) ==      \* variant: the columns that are there are not looked up
    seen.version < s.below /\ s.on \subseteq seen.objects
Applies(s, seen) ==
    /\ seen.version < s.below
    /\ s.on \subseteq seen.objects
    /\ s.unless \cap seen.objects = {}
Fails(s, objs) == s.op = "create" /\ s.objs \cap objs # {}
Stamped(s, v) == IF s.stamp = 0 THEN v ELSE s.stamp

Closed == [state |-> "closed", todo |-> {}, alone |-> FALSE]

(***************************************************************************)
(* A file as an earlier release left it, or no file at all: what the       *)
(* scripts of the releases up to v created.                                *)
(***************************************************************************)
Created(program) == UNION {program[i].objs : i \in 1..Len(program)}
Release(v) ==
    CASE v = 0 -> {}
      [] v = 7 -> Created(BaseSchema \o ActiveDirectorSchema)
      [] v = 10 -> Created(BaseSchema \o ActiveDirectorSchema \o EnsureM6LaneColumns
                    \o EnsureComplianceColumns \o EnsureLifecycleColumns \o EnsureComparisonSchema)

MigrationInit ==
    /\ version \in {0, 7, 10}
    /\ objects = Release(version)
    /\ opener = [p \in Openers |-> Closed]
    /\ crashes = 0

(***************************************************************************)
(* A look at index i decides which of the statements up to the next look   *)
(* are executed; that look follows them.                                   *)
(***************************************************************************)
First(S) == CHOOSE i \in S : \A j \in S : i <= j
Looks == {i \in 1..Len(Migrate) : Migrate[i].op = "look"}
Decided(i, file) ==
    LET later == {j \in Looks : j > i}
        last == IF later = {} THEN Len(Migrate) ELSE First(later)
    IN  {j \in (i + 1)..last : Applies(Migrate[j], file)}

(***************************************************************************)
(* When nothing is left to do connect returns.                             *)
(***************************************************************************)
Advanced(o, todo) == [o EXCEPT !.todo = todo, !.state = IF todo = {} THEN "open" ELSE @]

Idle == \A p \in Openers : opener[p].state # "migrating"

(***************************************************************************)
(* connect: the process, which may have opened the file before, starts to  *)
(* walk through the migration.  alone records that no other process is     *)
(* migrating from here on.                                                 *)
(***************************************************************************)
Connect(p) ==
    /\ opener[p].state # "migrating"
    /\ opener' = [q \in Openers |->
                    IF q = p THEN [state |-> "migrating", todo |-> {1}, alone |-> Idle]
                    ELSE [opener[q] EXCEPT !.alone = FALSE]]
    /\ UNCHANGED <<objects, version, crashes>>

Step(p) ==
    LET i == First(opener[p].todo)
        s == Migrate[i]
    IN  /\ opener[p].state = "migrating"
        /\ \/ /\ s.op = "look"
              /\ opener' = [opener EXCEPT ![p] =
                    Advanced(@, Decided(i, [objects |-> objects, version |-> version]))]
              /\ UNCHANGED <<objects, version>>
           \/ /\ s.op # "look"
              /\ ~ Fails(s, objects)
              /\ objects' = objects \cup s.objs
              /\ version' = Stamped(s, version)
              /\ opener' = [opener EXCEPT ![p] = Advanced(@, @.todo \ {i})]
           \/ /\ s.op # "look"
              /\ Fails(s, objects)
              /\ opener' = [opener EXCEPT ![p] =
                    [state |-> "failed", todo |-> {}, alone |-> @.alone]]
              /\ UNCHANGED <<objects, version>>
        /\ UNCHANGED crashes

(***************************************************************************)
(* The process dies, or its statement waits too long for a lock: what it   *)
(* has committed stays.                                                    *)
(***************************************************************************)
OpenerDies(p) ==
    /\ opener[p].state = "migrating"
    /\ crashes < MaxCrashes
    /\ crashes' = crashes + 1
    /\ opener' = [opener EXCEPT ![p] = [Closed EXCEPT !.state = "died"]]
    /\ UNCHANGED <<objects, version>>

MigrationNext == \E p \in Openers : Connect(p) \/ Step(p) \/ OpenerDies(p)

MigrationSpec == MigrationInit /\ [][MigrationNext]_migrationVars

Backfilled == {"target filled", "lifecycle filled"}
Complete == Created(Migrate) \ Backfilled \subseteq objects /\ version = SchemaVersion

(***************************************************************************)
(* A script without IF NOT EXISTS was begun and not finished.              *)
(***************************************************************************)
Torn ==
    \/ "runs" \in objects /\ version = 0
    \/ "comparison_fixtures" \in objects /\ "comparison_authorizations" \notin objects

(***************************************************************************)
(* However earlier opens of the file were interleaved, and wherever a      *)
(* process died outside the two scripts that cannot be repeated, the next  *)
(* undisturbed connect (db.py, migrate) succeeds and leaves the complete   *)
(* schema at the current version; without a crash a race alone never tears *)
(* one of those scripts either.                                            *)
(***************************************************************************)
NextOpenCompletes ==
    \A p \in Openers :
        /\ opener[p].alone
        /\ opener[p].state \in {"open", "failed"}
        /\ crashes = 0 \/ ~ Torn
        => opener[p].state = "open" /\ Complete

-----------------------------------------------------------------------------
(***************************************************************************)
(* Facts about the list Migrate that a proof needs and that no state       *)
(* changes: closed formulas, which TLC evaluates.  Statements are named by *)
(* their position: 2..4 is the base schema and 31..33 the comparison       *)
(* schema, the scripts without IF NOT EXISTS; 5 and 6 create the           *)
(* Director's tables; 61 lowers the version to 14 in every open, 80 is the *)
(* passive-scheduler transaction and 81 its stamp.                         *)
(***************************************************************************)
Indices == 1..Len(Migrate)
InScript(j) == j \in {2, 3, 31, 32, 33}
GuardedCreate(j) == Migrate[j].op = "create" /\ ~ InScript(j)

(* What a statement asks for was created before an earlier look.           *)
NeedsMet(j) ==
    \A o \in Migrate[j].on :
        /\ o \notin Backfilled
        /\ \E k \in Indices, l \in Looks : o \in Migrate[k].objs /\ k < l /\ l < j

(* The looks around the scripts and stamps, and that a look is never skipped. *)
ASSUME LookFacts ==
    /\ Len(Migrate) = 90
    /\ {1, 8, 30, 35, 59, 62, 79, 82, 89} \subseteq Looks
    /\ Looks \cap ((2..7) \cup (31..34) \cup {60, 61, 80, 81, 90}) = {}
    /\ \A j \in Looks :
        /\ Migrate[j].objs = {} /\ Migrate[j].on = {} /\ Migrate[j].unless = {}
        /\ Migrate[j].below = Always /\ Migrate[j].stamp = 0

ASSUME StatementFacts ==
    \A j \in Indices : Migrate[j].stamp \in 0..SchemaVersion /\ Migrate[j].below \in 1..Always

ASSUME BaseFacts ==
    /\ Migrate[2].objs = {"runs"} /\ Migrate[3].objs = BaseTables
    /\ Migrate[5].objs = DirectorTables /\ Migrate[6].objs = LedgerTables
    /\ Migrate[2].op = "create" /\ Migrate[3].op = "create"
    /\ \A j \in 4..7 : Migrate[j].op # "create"
    /\ \A j \in 2..7 : Migrate[j].on = {} /\ Migrate[j].unless = {}
    /\ \A j \in 2..4 : Migrate[j].below = 1
    /\ \A j \in 5..7 : Migrate[j].below = 7
    /\ \A j \in 1..6 : j # 4 => Migrate[j].stamp = 0
    /\ Migrate[4].stamp = 1 /\ Migrate[7].stamp = 7

ASSUME ComparisonFacts ==
    /\ Migrate[31].objs = {"comparison_fixtures"}
    /\ Migrate[32].objs = ComparisonPlanTables /\ Migrate[33].objs = ComparisonRunTables
    /\ \A j \in 31..33 :
        /\ Migrate[j].op = "create" /\ Migrate[j].on = {} /\ Migrate[j].below = Always
        /\ Migrate[j].unless = {"comparison_suites"}

(* Each script is the only creator of its tables.                          *)
ASSUME OwnerFacts ==
    \A j \in Indices :
        /\ "runs" \in Migrate[j].objs => j = 2
        /\ Migrate[j].objs \cap BaseTables # {} => j = 3
        /\ "comparison_fixtures" \in Migrate[j].objs => j = 31
        /\ Migrate[j].objs \cap ComparisonPlanTables # {} => j = 32
        /\ Migrate[j].objs \cap ComparisonRunTables # {} => j = 33
        /\ Migrate[j].objs \cap PassiveObjects # {} => j = 80

(* Every other creation that can fail looks for the very objects it        *)
(* creates, and no other statement creates them.                           *)
ASSUME GuardedFacts ==
    \A j \in Indices : GuardedCreate(j) =>
        /\ Migrate[j].unless = Migrate[j].objs
        /\ \A k \in Indices \ {j} : Migrate[k].objs \cap Migrate[j].objs = {}
        /\ j = 80 \/ \E o \in Migrate[j].objs : Migrate[j].objs = {o}

(* Why a statement outside the scripts may be skipped.                     *)
ASSUME SkipFacts ==
    \A j \in Indices \ {2, 3, 5, 6, 31, 32, 33} : Migrate[j].objs \ Backfilled # {} =>
        /\ Migrate[j].unless = {} \/ GuardedCreate(j)
        /\ Migrate[j].below = Always \/ j = 80
        /\ NeedsMet(j)

(* The stamps from 61 on rise, each decided by a look of its own.          *)
ASSUME StampFacts ==
    /\ \A j \in 1..60 : Migrate[j].stamp # 0 => \E l \in Looks : j < l /\ l < 61
    /\ \A j \in 61..90 : Migrate[j].stamp # 0 /\ j \notin {80, 81} =>
        /\ NeedsMet(j) /\ Migrate[j].unless = {}
        /\ Migrate[j].below = IF j = 61 THEN Always ELSE Migrate[j].stamp
    /\ \A j, k \in 61..90 : j <= k /\ Migrate[k].stamp # 0 => Migrate[j].stamp <= Migrate[k].stamp
    /\ \A j, k \in 61..90 : k < j /\ Migrate[k].stamp # 0 /\ Migrate[k].stamp < Migrate[j].stamp =>
        \E l \in Looks : k < l /\ l < j
    /\ \A j \in 61..79 : Migrate[j].stamp <= 16
    /\ Migrate[61].stamp = 14 /\ Migrate[90].stamp = SchemaVersion

ASSUME PassiveFacts ==
    /\ Migrate[80] = Statement("create", PassiveObjects, PassiveRequired, PassiveObjects, 17, 17)
    /\ Migrate[81] = Statement("stamp", {}, PassiveRequired \cup PassiveObjects, {}, 17, 17)
    /\ NeedsMet(80)

(* A released file holds each script's tables together or not at all.      *)
ASSUME ReleaseFacts ==
    /\ Release(0) = {}
    /\ \A v \in {7, 10} :
        /\ {"runs"} \cup BaseTables \cup DirectorTables \cup LedgerTables \subseteq Release(v)
        /\ Release(v) \cap PassiveObjects = {}
    /\ Release(7) \cap ({"comparison_fixtures"} \cup ComparisonPlanTables \cup ComparisonRunTables) = {}
    /\ {"comparison_fixtures"} \cup ComparisonPlanTables \cup ComparisonRunTables \subseteq Release(10)
=============================================================================
