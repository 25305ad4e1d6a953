--------------------------- MODULE CampaignControl ---------------------------
(* The life of a campaign outside its main loop: how it is prepared,        *)
(* launched, resumed, controlled and brought down.  Commands of the         *)
(* operator (experiment run, research-campaign, the web server) and         *)
(* coordinator processes (ResearchCampaignRunner) meet in the files and     *)
(* rows of one workspace, under one lock that a coordinator takes without   *)
(* waiting.  What a coordinator does inside its loop is DirectorLoop,       *)
(* LaneDispatch and Verification: here the loop only has outcomes.          *)
(*                                                                          *)
(* The content of plans and the scientific memory are left out.             *)
EXTENDS Naturals, FiniteSets

CONSTANTS
    Commands,    \* processes of the experiment run command
    Runners,     \* coordinator processes that may be launched
    Ends,        \* the outcomes that the loop may reach by itself
    None,        \* no process
    MaxRequests  \* bound on the operator's pause and stop requests

(* A campaign is named by the command that prepares it; one that is started *)
(* without a plan by the coordinator that creates it.                       *)
Ids == Commands \cup Runners

ASSUME ProcessesAssumption ==
    /\ None \notin Ids /\ Commands \cap Runners = {}
    /\ MaxRequests \in Nat
    /\ Ends \subseteq {"succeeded_certified_counterexample", "completed_deadline_reached",
                       "budget_exhausted", "director_replan_exhausted"}

VARIABLES
    camp,        \* research_campaigns.state
    plan,        \* campaigns whose campaign-plan.json exists
    prepared,    \* the prepared campaign pointer
    bound,       \* the experiment state file
    active,      \* the process named by active-research-campaign.json
    control,     \* research-campaign-control.json
    lock,        \* holder of the campaign lock
    web,         \* the process that the web server has launched last
    cpc,         \* where each command is
    target,      \* the campaign a command or a runner works on
    op,          \* what a command will launch, what a runner was launched for
    pc,          \* where each runner is
    ack,         \* the runner has a repair acknowledgement
    seen,        \* the control version it has seen
    reason,      \* why it runs
    attempt,     \* its execution attempt: "open", or the status it ended with
    latest,      \* the runner of each campaign's latest attempt
    lanes,       \* runners whose lane workers are alive
    asked        \* runners in their loop when the last request was made

files == <<plan, prepared, bound, active, control, web>>
rows  == <<camp, attempt, latest>>
cmds  == <<cpc, target, op>>
local == <<ack, seen, reason>>
vars  == <<files, rows, cmds, local, lock, pc, lanes, asked>>

(* RESUMABLE_CAMPAIGN_STATES that the campaign runner produces.             *)
Resumable == {"paused_by_operator", "stopped_by_operator", "completed_deadline_reached",
              "budget_exhausted", "paused_fault"}
Terminal  == Ends \cup {"stopped_by_operator"}
StopStates == Terminal \cup {"paused_by_operator", "paused_fault"}
Startup   == {"locked", "created", "started", "recovering", "booting", "ready"}

(* A coordinator that raises while it has lane workers waits for them when  *)
(* the interpreter exits, without the lock.                                 *)
Alive(r) == pc[r] \in Startup \cup {"launched", "loaded", "loop", "final", "closing"}
               \/ (pc[r] = "raised" /\ r \in lanes)

Init ==
    /\ camp = [i \in Ids |-> "none"] /\ plan = {} /\ prepared = None /\ bound = None
    /\ active = None /\ control = [version |-> 0, action |-> "none"] /\ lock = None /\ web = None
    /\ cpc = [c \in Commands |-> "idle"]
    /\ target = [p \in Commands \cup Runners |-> None]
    /\ op = [p \in Commands \cup Runners |-> "none"]
    /\ pc = [r \in Runners |-> "off"] /\ ack = [r \in Runners |-> FALSE]
    /\ seen = [r \in Runners |-> 0] /\ reason = [r \in Runners |-> "none"]
    /\ attempt = [r \in Runners |-> "none"] /\ latest = [i \in Ids |-> None]
    /\ lanes = {} /\ asked = {}

-----------------------------------------------------------------------------
(* experiment run.                                                          *)
CGoto(c, label) == cpc' = [cpc EXCEPT ![c] = label]
Return(c) ==
    /\ CGoto(c, "done")
    /\ target' = [target EXCEPT ![c] = None] /\ op' = [op EXCEPT ![c] = "none"]

(* active_campaign_process: the process that the active pointer names.      *)
ActiveProcess(i) == active # None /\ target[active] = i /\ Alive(active)

(* cmd_experiment looks up the workspace's campaign: the one its state file *)
(* is bound to, or the prepared one.                                        *)
Known == IF bound # None THEN bound ELSE prepared

(* campaign_status: whether and how the known campaign can be continued.    *)
(* A fault that is read is acknowledged, if the code has changed since.     *)
ExperimentReads(c) ==
    /\ cpc[c] = "idle"
    /\ LET Begin(i, what) ==
             /\ target' = [target EXCEPT ![c] = i] /\ op' = [op EXCEPT ![c] = what]
       IN \/ /\ Known = None
             /\ CGoto(c, "prepare") /\ Begin(c, "start")
          \/ /\ Known # None /\ camp[Known] = "prepared"
             /\ CGoto(c, "launch") /\ Begin(Known, "start")
          \/ /\ Known # None
             /\ camp[Known] \in Resumable \/ (camp[Known] = "running" /\ ~ActiveProcess(Known))
             /\ CGoto(c, "launch")
             /\ Begin(Known, IF camp[Known] = "paused_fault" THEN "repair" ELSE "resume")
          \/ /\ Known # None
             /\ Return(c)
    /\ UNCHANGED <<files, rows, local, lock, pc, lanes, asked>>

(* prepare_campaign_plan: no pointer and no campaign yet; then the plan,    *)
(* the row and the pointer are written one after the other.                 *)
PrepareTests(c) ==
    /\ cpc[c] = "prepare"
    /\ IF prepared = None /\ \A i \in Ids : camp[i] = "none"
       THEN plan' = plan \cup {c} /\ CGoto(c, "row") /\ UNCHANGED <<target, op>>
       ELSE Return(c) /\ UNCHANGED plan
    /\ UNCHANGED <<prepared, bound, active, control, web, rows, local, lock, pc, lanes, asked>>

PrepareRowLast(c) ==        \* variant: the pointer is written before the row
    /\ cpc[c] = "row"
    /\ prepared' = c
    /\ CGoto(c, "pointer")
    /\ UNCHANGED <<plan, bound, active, control, web, rows, target, op, local, lock, pc,
                   lanes, asked>>

PrepareRow(c) ==
    /\ cpc[c] = "row"
    /\ camp' = [camp EXCEPT ![c] = "prepared"]
    /\ CGoto(c, "pointer")
    /\ UNCHANGED <<files, attempt, latest, target, op, local, lock, pc, lanes, asked>>

PreparePointer(c) ==
    /\ cpc[c] = "pointer"
    /\ prepared' = c
    /\ CGoto(c, "launch")
    /\ UNCHANGED <<plan, bound, active, control, web, rows, target, op, local, lock, pc,
                   lanes, asked>>

(* _launch_experiment_campaign, then _write_experiment_state.  The import   *)
(* of credentials and the plan's check before a launch may fail.            *)
LaunchExperiment(c, r) ==
    /\ cpc[c] = "launch" /\ pc[r] = "off"
    /\ pc' = [pc EXCEPT ![r] = "launched"]
    /\ target' = [target EXCEPT ![r] = target[c]]
    /\ op' = [op EXCEPT ![r] = IF op[c] = "start" THEN "start" ELSE "resume"]
    /\ ack' = [ack EXCEPT ![r] = op[c] = "repair"]
    /\ CGoto(c, "bind")
    /\ UNCHANGED <<files, rows, seen, reason, lock, lanes, asked>>

LaunchRefused(c) ==
    /\ cpc[c] = "launch" /\ Return(c)
    /\ UNCHANGED <<files, rows, local, lock, pc, lanes, asked>>

WriteExperimentState(c) ==
    /\ cpc[c] = "bind"
    /\ bound' = target[c]
    /\ Return(c)
    /\ UNCHANGED <<plan, prepared, active, control, web, rows, local, lock, pc, lanes, asked>>

CommandCrash(c) ==
    /\ cpc[c] \notin {"idle", "done"}
    /\ Return(c)
    /\ UNCHANGED <<files, rows, local, lock, pc, lanes, asked>>

(* What research-campaign start and resume look up before the lock: a start *)
(* with a fingerprint the plan that the pointer names, one without is       *)
(* refused while the pointer exists.                                        *)
Loadable(what, i) ==
    CASE what = "start"  -> prepared = i /\ camp[i] = "prepared"
      [] what = "direct" -> prepared = None
      [] what = "resume" -> camp[i] # "none"

Launch(r, what, i, acknowledged, label) ==
    /\ pc[r] = "off" /\ (what = "direct" <=> i = r)
    /\ pc' = [pc EXCEPT ![r] = label]
    /\ target' = [target EXCEPT ![r] = i] /\ op' = [op EXCEPT ![r] = what]
    /\ ack' = [ack EXCEPT ![r] = acknowledged]
    /\ UNCHANGED <<plan, prepared, bound, active, control, rows, cpc, seen, reason, lock,
                   lanes, asked>>

(* The command entered by hand.                                             *)
CampaignCommand(r, what, i, acknowledged) ==
    /\ Loadable(what, i) /\ (acknowledged => what = "resume")
    /\ Launch(r, what, i, acknowledged, "loaded")
    /\ UNCHANGED web

(* The web server launches nothing while it sees a live coordinator.        *)
WebFree == \A r \in {web, active} \ {None} : ~Alive(r)

WebStart(r) ==
    /\ WebFree /\ web' = r
    /\ Launch(r, "direct", r, FALSE, "launched")

(* build_resume_preview, which raises when the campaign cannot be resumed.  *)
Previewed(i, acknowledged) ==
    /\ i \in plan
    /\ camp[i] \in Resumable \/ (camp[i] = "running" /\ ~ActiveProcess(i))
    /\ camp[i] = "paused_fault" => acknowledged

WebResume(r, i, acknowledged) ==
    /\ Previewed(i, acknowledged)
    /\ WebFree /\ web' = r
    /\ Launch(r, "resume", i, acknowledged, "launched")

(* request_campaign_control, refused when the active campaign has ended.    *)
Request(action) ==
    /\ control.version < MaxRequests
    /\ active # None
    /\ camp[target[active]] \notin {"succeeded_certified_counterexample",
                                    "completed_deadline_reached", "stopped_by_operator"}
    /\ control' = [version |-> control.version + 1, action |-> action]
    /\ asked' = {r \in Runners : pc[r] = "loop"}
    /\ UNCHANGED <<plan, prepared, bound, active, web, rows, cmds, local, lock, pc, lanes>>

-----------------------------------------------------------------------------
(* A coordinator until its loop.                                            *)
Goto(r, label) == pc' = [pc EXCEPT ![r] = label]

(* A process that is gone has no memory.                                    *)
Gone(r, label) ==
    /\ Goto(r, label)
    /\ ack' = [ack EXCEPT ![r] = FALSE] /\ seen' = [seen EXCEPT ![r] = 0]
    /\ op' = [op EXCEPT ![r] = "none"]
Unlock == lock' = None
id(r) == target[r]

LoadPlan(r) ==
    /\ pc[r] = "launched"
    /\ IF Loadable(op[r], id(r)) THEN Goto(r, "loaded") /\ UNCHANGED <<op, ack, seen>>
                               ELSE Gone(r, "exited")
    /\ UNCHANGED <<files, rows, cpc, target, reason, lock, lanes, asked>>

(* campaign_lock does not wait.                                             *)
TakeLock(r) ==
    /\ pc[r] = "loaded"
    /\ IF lock = None THEN lock' = r /\ Goto(r, "locked") /\ UNCHANGED <<op, ack, seen>>
                      ELSE Gone(r, "exited") /\ UNCHANGED lock
    /\ UNCHANGED <<files, rows, cpc, target, reason, lanes, asked>>

(* An exception before the loop's try is handled by nobody: the rows stay   *)
(* as they are, the lock is released.                                       *)
StartupRaises(r) ==
    /\ pc[r] \in Startup
    /\ Unlock /\ Gone(r, "raised")
    /\ UNCHANGED <<files, rows, cpc, target, reason, lanes, asked>>

(* load_prepared_campaign_plan again, and start_prepared_campaign: the plan  *)
(* must not have been started since.                                        *)
StartableAgain(i) == i \in plan                 \* variant: any state may be started
Startable(i) == camp[i] = "prepared"

StartPrepared(r) ==
    /\ pc[r] = "locked" /\ op[r] = "start" /\ Startable(id(r))
    /\ camp' = [camp EXCEPT ![id(r)] = "running"]
    /\ reason' = [reason EXCEPT ![r] = "initial_start"]
    /\ Goto(r, "started")
    /\ UNCHANGED <<files, attempt, latest, cmds, ack, seen, lock, lanes, asked>>

(* A direct start inserts a running campaign, then writes its plan.         *)
CreateCampaign(r) ==
    /\ pc[r] = "locked" /\ op[r] = "direct"
    /\ camp' = [camp EXCEPT ![id(r)] = "running"]
    /\ reason' = [reason EXCEPT ![r] = "initial_start"]
    /\ Goto(r, "created")
    /\ UNCHANGED <<files, attempt, latest, cmds, ack, seen, lock, lanes, asked>>

WritePlan(r) ==
    /\ pc[r] = "created"
    /\ plan' = plan \cup {id(r)}
    /\ Goto(r, "started")
    /\ UNCHANGED <<prepared, bound, active, control, web, rows, cmds, local, lock, lanes, asked>>

(* _resume_reason *)
ResumeReason(state) ==
    CASE state = "running" -> "host_restart_recovery"
      [] state \in {"completed_deadline_reached", "budget_exhausted"} -> "additional_budget"
      [] state = "paused_fault" -> "infrastructure_recovery"
      [] OTHER -> "operator_resume"

(* campaign_plan, then resume_campaign: a campaign that is running has lost *)
(* its coordinator, since this one has the lock.                            *)
MayResume(r) ==
    /\ id(r) \in plan
    /\ camp[id(r)] \in Resumable \cup {"running"}
    /\ camp[id(r)] = "paused_fault" => ack[r]

ResumeCampaign(r) ==
    /\ pc[r] = "locked" /\ op[r] = "resume" /\ MayResume(r)
    /\ camp' = [camp EXCEPT ![id(r)] = "running"]
    /\ reason' = [reason EXCEPT ![r] = ResumeReason(camp[id(r)])]
    /\ Goto(r, "started")
    /\ UNCHANGED <<files, attempt, latest, cmds, ack, seen, lock, lanes, asked>>

(* create_execution_attempt                                                 *)
OpenAttempt(r) ==
    /\ pc[r] = "started"
    /\ attempt' = [attempt EXCEPT ![r] = "open"] /\ latest' = [latest EXCEPT ![id(r)] = r]
    /\ UNCHANGED <<files, camp, cmds, local, lock, lanes, asked>>

StartAttempt(r)  == op[r] # "resume" /\ OpenAttempt(r) /\ Goto(r, "booting")
ResumeAttempt(r) == op[r] = "resume" /\ OpenAttempt(r) /\ Goto(r, "recovering")

(* CampaignRecovery.recover, resume_all, activate_recovered_lanes.          *)
Recover(r) ==
    /\ pc[r] = "recovering"
    /\ lanes' = lanes \cup {r}
    /\ Goto(r, "booting")
    /\ UNCHANGED <<files, rows, cmds, local, lock, asked>>

(* The attempt's private directory, the credentials and the active pointer. *)
WritePointer(r) ==
    /\ pc[r] = "booting"
    /\ active' = r
    /\ Goto(r, "ready")
    /\ UNCHANGED <<plan, prepared, bound, control, web, rows, cmds, local, lock, lanes, asked>>

(* The control version is read last: an older request is not this attempt's.*)
ReadControlNone(r) ==       \* variant: the file is not looked at
    /\ pc[r] = "ready"
    /\ Goto(r, "loop")
    /\ lanes' = lanes \cup {r}
    /\ UNCHANGED <<files, rows, cmds, ack, seen, reason, lock, asked>>

ReadControl(r) ==
    /\ pc[r] = "ready"
    /\ seen' = [seen EXCEPT ![r] = control.version]
    /\ lanes' = lanes \cup {r}
    /\ Goto(r, "loop")
    /\ UNCHANGED <<files, rows, cmds, ack, reason, lock, asked>>

-----------------------------------------------------------------------------
(* The loop, seen from outside, and the end of a coordinator.               *)
Outcome(r, state) ==
    /\ pc[r] = "loop" /\ camp[id(r)] = "running"
    /\ camp' = [camp EXCEPT ![id(r)] = state]
    /\ UNCHANGED <<files, attempt, latest, cmds, local, lock, pc, lanes, asked>>

LoopEnds(r) ==
    /\ pc[r] = "loop" /\ camp[id(r)] \in StopStates
    /\ Goto(r, "final")
    /\ UNCHANGED <<files, rows, cmds, local, lock, lanes, asked>>

(* A request is newer than the last one seen.                               *)
Newer(r) == control.version > seen[r]

ObserveRequest(r) ==
    /\ pc[r] = "loop" /\ camp[id(r)] = "running" /\ Newer(r)
    /\ seen' = [seen EXCEPT ![r] = control.version]
    /\ camp' = [camp EXCEPT ![id(r)] =
                   IF control.action = "STOP" THEN "stopped_by_operator" ELSE "paused_by_operator"]
    /\ Goto(r, "final")
    /\ UNCHANGED <<files, attempt, latest, cmds, ack, reason, lock, lanes, asked>>

(* The handler of an exception: director.start, a quota, a fault of a task. *)
Fault(r) ==
    /\ pc[r] = "loop"
    /\ camp' = [camp EXCEPT ![id(r)] = IF @ \in Terminal THEN @ ELSE "paused_fault"]
    /\ Goto(r, "final")
    /\ UNCHANGED <<files, attempt, latest, cmds, local, lock, lanes, asked>>

(* The finally block: the children are shut down and drained ...            *)
ShutDown(r) ==
    /\ pc[r] = "final"
    /\ lanes' = lanes \ {r}
    /\ Goto(r, "closing")
    /\ UNCHANGED <<files, rows, cmds, local, lock, asked>>

(* ... then the latest attempt is finished with the campaign's state.       *)
FinishAttempt(r) ==
    /\ pc[r] = "closing"
    /\ attempt' = [attempt EXCEPT ![r] =
                      IF latest[id(r)] = r /\ @ = "open" THEN camp[id(r)] ELSE @]
    /\ Gone(r, "exited") /\ Unlock
    /\ UNCHANGED <<files, camp, latest, cpc, target, reason, lanes, asked>>

(* director.close or the last measurement raises.                           *)
CloseRaises(r) ==
    /\ pc[r] = "closing"
    /\ Gone(r, "raised") /\ Unlock
    /\ UNCHANGED <<files, rows, cpc, target, reason, lanes, asked>>

(* The kernel releases the lock of a dead process; its lane workers live    *)
(* until they cannot put an event.                                          *)
Crash(r) ==
    /\ Alive(r)
    /\ Gone(r, "dead") /\ lock' = IF lock = r THEN None ELSE lock
    /\ UNCHANGED <<files, rows, cpc, target, reason, lanes, asked>>

LanesEnd(r) ==
    /\ r \in lanes /\ pc[r] \in {"dead", "raised"}
    /\ lanes' = lanes \ {r}
    /\ UNCHANGED <<files, rows, cmds, local, lock, pc, asked>>

-----------------------------------------------------------------------------
Command(c) ==
    \/ ExperimentReads(c) \/ PrepareTests(c) \/ PrepareRow(c) \/ PreparePointer(c)
    \/ \E r \in Runners : LaunchExperiment(c, r)
    \/ LaunchRefused(c) \/ WriteExperimentState(c)

Run(r) ==
    \/ LoadPlan(r) \/ TakeLock(r) \/ StartupRaises(r) \/ StartPrepared(r) \/ CreateCampaign(r) \/ WritePlan(r)
    \/ ResumeCampaign(r) \/ StartAttempt(r) \/ ResumeAttempt(r) \/ Recover(r) \/ WritePointer(r) \/ ReadControl(r)
    \/ LoopEnds(r) \/ ObserveRequest(r) \/ ShutDown(r) \/ FinishAttempt(r) \/ CloseRaises(r)

Next ==
    \/ \E c \in Commands : Command(c) \/ CommandCrash(c)
    \/ \E action \in {"STOP", "PAUSE"} : Request(action)
    \/ \E r \in Runners :
          \/ \E what \in {"start", "direct", "resume"}, i \in Ids, a \in BOOLEAN :
                CampaignCommand(r, what, i, a)
          \/ WebStart(r) \/ \E i \in Ids, a \in BOOLEAN : WebResume(r, i, a)
          \/ Run(r) \/ Fault(r) \/ Crash(r) \/ LanesEnd(r)
          \/ \E state \in Ends : Outcome(r, state)

Spec == Init /\ [][Next]_vars

-----------------------------------------------------------------------------
CampStates == {"none", "prepared", "running"} \cup StopStates

(* Every variable has its type; the lock belongs to a coordinator that works*)
(* under it, and to no other.                                               *)
TypeOK ==
    /\ camp \in [Ids -> CampStates] /\ plan \subseteq Ids
    /\ prepared \in Commands \cup {None} /\ bound \in Ids \cup {None}
    /\ active \in Runners \cup {None} /\ web \in Runners \cup {None}
    /\ control \in [version : 0 .. MaxRequests, action : {"none", "STOP", "PAUSE"}]
    /\ target \in [Commands \cup Runners -> Ids \cup {None}]
    /\ seen \in [Runners -> 0 .. MaxRequests] /\ ack \in [Runners -> BOOLEAN]
    /\ attempt \in [Runners -> {"none", "open"} \cup StopStates]
    /\ latest \in [Ids -> Runners \cup {None}]
    /\ lanes \subseteq Runners /\ asked \subseteq Runners
    /\ \A r \in Runners : lock = r <=> pc[r] \in Startup \cup {"loop", "final", "closing"}

(* Whatever process crashes between two writes of prepare_campaign_plan or  *)
(* of a launch, a file never names a campaign that the database lacks or    *)
(* whose plan cannot be read, nor the active pointer a process that has no  *)
(* execution attempt.                                                       *)
FilesNameRows ==
    /\ \A i \in {prepared, bound} \ {None} : camp[i] # "none" /\ i \in plan
    /\ active # None => attempt[active] # "none" /\ camp[target[active]] # "none"

(* However many commands are launched for a campaign, its plan is started   *)
(* once; an attempt is called a recovery only if an earlier coordinator of  *)
(* the campaign is gone without having ended it; a coordinator that returns *)
(* normally after its loop has closed its attempt; and no attempt that      *)
(* ended is called running.                                                 *)
AttemptsAccounted ==
    /\ \A r, q \in Runners :
          r # q /\ reason[r] = "initial_start" /\ reason[q] = "initial_start"
             => target[r] # target[q]
    /\ \A r \in Runners :
          /\ reason[r] = "host_restart_recovery" =>
                \E q \in Runners \ {r} : target[q] = target[r] /\ pc[q] \in {"dead", "raised"}
          /\ pc[r] = "exited" => attempt[r] # "open"
    /\ \A i \in Ids : camp[i] = "running" =>
          \E r \in Runners : target[r] = i /\ pc[r] # "exited" /\ reason[r] # "none"

(* A STOP or PAUSE ends only an attempt that was in its loop when it was    *)
(* requested: one meant for an earlier attempt does not stop the next.      *)
RequestsFresh ==
    [][\A i \in Ids :
          camp'[i] \in {"stopped_by_operator", "paused_by_operator"} /\ camp'[i] # camp[i]
             => lock \in asked]_vars

=============================================================================
