------------------------ MODULE CampaignControlProofs ------------------------
(***************************************************************************)
(* Machine-checked proofs about CampaignControl, for any number of         *)
(* commands, coordinator processes, crashes and requests.                  *)
(***************************************************************************)
EXTENDS CampaignControl, TLAPS

(* The labels that TypeOK leaves out.                                      *)
Held == Startup \cup {"loop", "final", "closing"}
Gathering == {"off", "launched", "loaded"}

Labels ==
    /\ cpc \in [Commands -> {"idle", "prepare", "row", "pointer", "launch", "bind", "done"}]
    /\ pc \in [Runners -> Gathering \cup Held \cup {"exited", "raised", "dead"}]
    /\ op \in [Commands \cup Runners -> {"none", "start", "direct", "resume", "repair"}]
    /\ reason \in [Runners -> {"none", "initial_start", "host_restart_recovery", "additional_budget",
                               "infrastructure_recovery", "operator_resume"}]

(* The campaign a command or a coordinator works on is in the database,    *)
(* unless the coordinator is about to create it, and what a command        *)
(* prepares is its own.                                                    *)
TargetsKnown ==
    /\ \A c \in Commands :
        /\ cpc[c] \in {"idle", "prepare", "row"} => camp[c] = "none"
        /\ cpc[c] = "row" => c \in plan
        /\ cpc[c] = "pointer" => c \in plan /\ camp[c] # "none" /\ target[c] = c
        /\ cpc[c] \in {"prepare", "row"} => target[c] = c
        /\ cpc[c] \in {"launch", "bind"} =>
             target[c] \in Ids /\ camp[target[c]] # "none" /\ target[c] \in plan
    /\ \A r \in Runners : pc[r] # "off" =>
        /\ target[r] \in Ids
        /\ camp[target[r]] # "none" \/ (target[r] = r /\ reason[r] = "none")
        /\ op[r] = "direct" => target[r] = r

(* What a coordinator has done when it has come to a point of its course.  *)
Progress ==
    \A r \in Runners :
        /\ pc[r] \in Gathering \cup {"locked"} => reason[r] = "none"
        /\ pc[r] \in Held \ {"locked"} => reason[r] # "none"
        /\ pc[r] \in Gathering \cup {"locked", "created", "started"} => attempt[r] = "none"
        /\ pc[r] \in Held \ {"locked", "created", "started"} =>
             attempt[r] = "open" /\ latest[target[r]] = r
        /\ pc[r] \in {"final", "closing"} => camp[target[r]] \in StopStates

(* A campaign that a coordinator has created or started.                   *)
Started ==
    /\ \A i \in Ids : camp[i] = "prepared" => i \in Commands
    /\ \A r \in Runners : camp[r] # "none" => reason[r] = "initial_start" /\ target[r] = r
    /\ \A r \in Runners :
        reason[r] # "none" => pc[r] # "off" /\ camp[target[r]] \notin {"none", "prepared"}

(* A request newer than the last one seen found its coordinator at work.   *)
RequestsNoticed ==
    \A r \in Runners : pc[r] = "loop" /\ control.version > seen[r] => r \in asked

IInv ==
    /\ TypeOK /\ Labels /\ TargetsKnown /\ Progress /\ Started /\ RequestsNoticed
    /\ FilesNameRows /\ AttemptsAccounted

-----------------------------------------------------------------------------
(* What the constants are.                                                 *)
LEMMA Constants ==
    /\ None \notin Commands /\ None \notin Runners
    /\ \A c \in Commands : c \notin Runners /\ c \in Ids /\ c \in Commands \cup Runners
    /\ \A r \in Runners : r \notin Commands /\ r \in Ids /\ r \in Commands \cup Runners
    /\ MaxRequests \in Nat /\ Ids = Commands \cup Runners
    /\ \A state \in Ends : state \in StopStates /\ state \in Terminal
    /\ {"paused_fault", "stopped_by_operator", "paused_by_operator"} \subseteq StopStates
    /\ StopStates \cap {"none", "prepared", "running", "open"} = {}
    /\ \A state \in Ends : state \notin {"stopped_by_operator", "paused_by_operator"}
BY ProcessesAssumption DEF Ids, StopStates, Terminal

(* Every step keeps the types and the labels.                              *)
LEMMA CommandTypes ==
    ASSUME TypeOK, Labels, TargetsKnown, NEW c \in Commands, Command(c) \/ CommandCrash(c)
    PROVE  TypeOK' /\ Labels'
<1> USE Constants DEF TypeOK, Labels, Held, Gathering, CGoto, Return, CampStates, files, rows, cmds, local
<1>1. CASE ExperimentReads(c)
  BY <1>1 DEF ExperimentReads, Known
<1>2. CASE PrepareTests(c)
  BY <1>2 DEF PrepareTests
<1>3. CASE PrepareRow(c)
  BY <1>3 DEF PrepareRow
<1>4. CASE PreparePointer(c)
  BY <1>4 DEF PreparePointer
<1>5. CASE LaunchRefused(c)
  BY <1>5 DEF LaunchRefused
<1>6. CASE WriteExperimentState(c)
  BY <1>6 DEF WriteExperimentState, TargetsKnown
<1>7. CASE CommandCrash(c)
  BY <1>7 DEF CommandCrash
<1>8. ASSUME NEW r \in Runners, LaunchExperiment(c, r) PROVE TypeOK' /\ Labels'
  BY <1>8 DEF LaunchExperiment, Startup
<1> QED
  BY <1>1, <1>2, <1>3, <1>4, <1>5, <1>6, <1>7, <1>8 DEF Command

(* A launch by hand or by the web server names a new process's campaign.    *)
LEMMA LaunchTypes ==
    ASSUME TypeOK, Labels, NEW r \in Runners,
           \/ \E what \in {"start", "direct", "resume"}, i \in Ids, a \in BOOLEAN : CampaignCommand(r, what, i, a)
           \/ WebStart(r) \/ \E i \in Ids, a \in BOOLEAN : WebResume(r, i, a)
    PROVE  TypeOK' /\ Labels'
<1>1. PICK what \in {"start", "direct", "resume"}, i \in Ids, a \in BOOLEAN, label \in {"launched", "loaded"} :
        Launch(r, what, i, a, label) /\ web' \in {web, r}
  BY Constants DEF CampaignCommand, WebStart, WebResume
<1> QED
  BY <1>1, Constants
  DEF Launch, TypeOK, Labels, Held, Gathering, Startup, CampStates, rows

(* The reason of a resumed attempt.                                        *)
LEMMA ReasonTypes ==
    ASSUME NEW state
    PROVE  /\ ResumeReason(state) \in {"host_restart_recovery", "additional_budget",
                                       "infrastructure_recovery", "operator_resume"}
           /\ ResumeReason(state) = "host_restart_recovery" => state = "running"
BY DEF ResumeReason

(* A step of a coordinator keeps the types, the lock's owner among them.    *)
LEMMA RunnerTypes ==
    ASSUME TypeOK, Labels, TargetsKnown, Progress, NEW r \in Runners,
           Run(r) \/ Fault(r) \/ Crash(r) \/ LanesEnd(r) \/ \E state \in Ends : Outcome(r, state)
    PROVE  TypeOK' /\ Labels'
<1>a. pc[r] # "off" => target[r] \in Ids
  BY DEF TargetsKnown
<1>b. pc[r] = "closing" => camp[target[r]] \in StopStates
  BY DEF Progress
<1>c. Terminal \subseteq StopStates
  BY DEF StopStates
<1>d. \A state \in StopStates : camp \in [Ids -> CampStates] /\ target[r] \in Ids =>
        [camp EXCEPT ![target[r]] = state] \in [Ids -> CampStates]
  BY DEF CampStates
<1>e. (LoadPlan(r) /\ ~Loadable(op[r], id(r))) \/ (TakeLock(r) /\ lock # None) =>
        /\ Gone(r, "exited") /\ pc[r] \in {"launched", "loaded"}
        /\ UNCHANGED <<files, rows, cpc, target, reason, lock, lanes, asked>>
  BY DEF LoadPlan, TakeLock
<1>f. Gone(r, "exited") /\ pc[r] \in {"launched", "loaded"}
        /\ UNCHANGED <<files, rows, cpc, target, reason, lock, lanes, asked>>
        => TypeOK' /\ Labels'
  BY Constants DEF TypeOK, Labels, Held, Gathering, Startup, CampStates, Goto, Gone, files, rows
<1> USE Constants, <1>a DEF TypeOK, Labels, Held, Gathering, Startup, CampStates, Goto, Gone, Unlock, id, files, rows, cmds, local
<1>1. CASE LoadPlan(r)
  <2>1. CASE Loadable(op[r], id(r))
    BY <1>1, <2>1 DEF LoadPlan
  <2>2. CASE ~Loadable(op[r], id(r))
    BY <1>1, <2>2, <1>e, <1>f
  <2> QED
    BY <2>1, <2>2
<1>2. CASE TakeLock(r)
  <2>1. CASE lock = None
    <3>1. \A q \in Runners : pc[q] \notin Held
      BY <2>1
    <3> QED
      BY <1>2, <2>1, <3>1 DEF TakeLock
  <2>2. CASE lock # None
    BY <1>2, <2>2, <1>e, <1>f
  <2> QED
    BY <2>1, <2>2
<1>3. CASE StartupRaises(r)
  BY <1>3 DEF StartupRaises
<1>4. CASE StartPrepared(r)
  BY <1>4 DEF StartPrepared
<1>5. CASE CreateCampaign(r)
  BY <1>5 DEF CreateCampaign
<1>6. CASE WritePlan(r)
  BY <1>6 DEF WritePlan
<1>7. CASE ResumeCampaign(r)
  BY <1>7, ReasonTypes DEF ResumeCampaign
<1>8. CASE StartAttempt(r)
  BY <1>8 DEF StartAttempt, OpenAttempt
<1>9. CASE ResumeAttempt(r)
  BY <1>9 DEF ResumeAttempt, OpenAttempt
<1>10. CASE Recover(r)
  BY <1>10 DEF Recover
<1>11. CASE WritePointer(r)
  BY <1>11 DEF WritePointer
<1>12. CASE ReadControl(r)
  BY <1>12 DEF ReadControl
<1>13. CASE LoopEnds(r)
  BY <1>13 DEF LoopEnds
<1>14. CASE ObserveRequest(r)
  BY <1>14 DEF ObserveRequest
<1>15. CASE ShutDown(r)
  BY <1>15 DEF ShutDown
<1>16. CASE FinishAttempt(r)
  BY <1>16, <1>b DEF FinishAttempt
<1>17. CASE CloseRaises(r)
  BY <1>17 DEF CloseRaises
<1>18. CASE Fault(r)
  BY <1>18, <1>c DEF Fault
<1>19. CASE Crash(r)
  BY <1>19 DEF Crash
<1>20. CASE LanesEnd(r)
  BY <1>20 DEF LanesEnd
<1>21. ASSUME NEW state \in Ends, Outcome(r, state) PROVE TypeOK' /\ Labels'
  BY <1>21 DEF Outcome
<1> QED
  BY <1>1, <1>2, <1>3, <1>4, <1>5, <1>6, <1>7, <1>8, <1>9, <1>10, <1>11, <1>12, <1>13, <1>14, <1>15, <1>16, <1>17, <1>18, <1>19, <1>20, <1>21 DEF Run

-----------------------------------------------------------------------------
(* The kinds of steps that a coordinator takes, and what each leaves alone. *)
Frame(r) ==
    /\ cpc' = cpc /\ target' = target /\ prepared' = prepared /\ bound' = bound
    /\ control' = control /\ asked' = asked
    /\ pc[r] # "off" /\ plan \subseteq plan'
    /\ \A q \in Runners \ {r} : /\ pc'[q] = pc[q] /\ reason'[q] = reason[q] /\ attempt'[q] = attempt[q]
                                /\ op'[q] = op[q] /\ seen'[q] = seen[q]
    /\ op'[r] \in {op[r], "none"}

RowsKept == camp' = camp /\ attempt' = attempt /\ latest' = latest /\ reason' = reason

(* It moves on, or is gone, with the rows as they were.                    *)
Moves(r) ==
    /\ RowsKept
    /\ \/ pc'[r] = pc[r] /\ seen' = seen /\ active' = active
       \/ pc[r] \in {"launched", "loaded"} /\ pc'[r] \in {"loaded", "locked", "exited"} /\ active' = active
       \/ pc'[r] \in {"raised", "dead"} /\ active' = active
       \/ pc[r] = "created" /\ pc'[r] = "started" /\ active' = active
       \/ pc[r] = "recovering" /\ pc'[r] = "booting" /\ active' = active
       \/ pc[r] = "booting" /\ pc'[r] = "ready" /\ active' = r
       \/ pc[r] = "ready" /\ pc'[r] = "loop" /\ seen'[r] = control.version /\ active' = active
       \/ pc[r] = "loop" /\ pc'[r] = "final" /\ camp[target[r]] \in StopStates /\ active' = active
       \/ pc[r] = "final" /\ pc'[r] = "closing" /\ active' = active

(* It makes its campaign run.                                              *)
Begins(r) ==
    /\ pc[r] = "locked" /\ pc'[r] \in {"created", "started"} /\ active' = active
    /\ attempt' = attempt /\ latest' = latest
    /\ camp' = [camp EXCEPT ![target[r]] = "running"]
    /\ \/ reason'[r] = "initial_start" /\ camp[target[r]] = "prepared"
       \/ reason'[r] = "initial_start" /\ target[r] = r
       \/ /\ camp[target[r]] \notin {"none", "prepared"}
          /\ reason'[r] \notin {"none", "initial_start"}
          /\ reason'[r] = "host_restart_recovery" => camp[target[r]] = "running"

Opens(r) ==
    /\ pc[r] = "started" /\ pc'[r] \in {"booting", "recovering"} /\ active' = active
    /\ camp' = camp /\ reason' = reason
    /\ attempt'[r] = "open" /\ latest' = [latest EXCEPT ![target[r]] = r]

(* It stops its campaign.                                                  *)
Stops(r) ==
    /\ pc[r] = "loop" /\ pc'[r] \in {"loop", "final"} /\ active' = active
    /\ attempt' = attempt /\ latest' = latest /\ reason' = reason
    /\ \E state \in StopStates :
        /\ camp' = [camp EXCEPT ![target[r]] = state]
        /\ \/ state \notin {"stopped_by_operator", "paused_by_operator"}
           \/ state = camp[target[r]] \/ control.version > seen[r]
    /\ pc'[r] = "loop" => seen' = seen

Finishes(r) ==
    /\ pc[r] = "closing" /\ pc'[r] = "exited" /\ active' = active
    /\ camp' = camp /\ latest' = latest /\ reason' = reason
    /\ attempt'[r] = IF latest[target[r]] = r /\ attempt[r] = "open" THEN camp[target[r]] ELSE attempt[r]

(* Every step of a coordinator is of one of these kinds.                   *)
LEMMA RunnerKinds ==
    ASSUME TypeOK, Labels, NEW r \in Runners,
           Run(r) \/ Fault(r) \/ Crash(r) \/ LanesEnd(r) \/ \E state \in Ends : Outcome(r, state),
           pc[r] # "off" => target[r] \in Ids /\ (op[r] = "direct" => target[r] = r)
    PROVE  Frame(r) /\ (Moves(r) \/ Begins(r) \/ Opens(r) \/ Stops(r) \/ Finishes(r))
<1>t. /\ pc \in [Runners -> Gathering \cup Held \cup {"exited", "raised", "dead"}]
      /\ DOMAIN reason = Runners /\ DOMAIN attempt = Runners /\ DOMAIN seen = Runners
      /\ DOMAIN camp = Ids /\ DOMAIN latest = Ids /\ DOMAIN op = Commands \cup Runners
      /\ r \in Commands \cup Runners /\ r \in Ids /\ Runners \subseteq Commands \cup Runners
  BY Constants DEF TypeOK, Labels
<1> USE <1>t DEF Frame, RowsKept, Moves, Begins, Opens, Stops, Finishes, Startup, Goto, Gone, Unlock, id, files, rows, cmds, local
<1>1. CASE LoadPlan(r)
  BY <1>1 DEF LoadPlan
<1>2. CASE TakeLock(r)
  BY <1>2 DEF TakeLock
<1>3. CASE StartupRaises(r)
  BY <1>3 DEF StartupRaises
<1>4. CASE StartPrepared(r)
  BY <1>4 DEF StartPrepared, Startable
<1>5. CASE CreateCampaign(r)
  BY <1>5 DEF CreateCampaign
<1>6. CASE WritePlan(r)
  BY <1>6 DEF WritePlan
<1>7. CASE ResumeCampaign(r)
  BY <1>7, ReasonTypes DEF ResumeCampaign, MayResume, Resumable
<1>8. CASE StartAttempt(r)
  BY <1>8 DEF StartAttempt, OpenAttempt
<1>9. CASE ResumeAttempt(r)
  BY <1>9 DEF ResumeAttempt, OpenAttempt
<1>10. CASE Recover(r)
  BY <1>10 DEF Recover
<1>11. CASE WritePointer(r)
  BY <1>11 DEF WritePointer
<1>12. CASE ReadControl(r)
  BY <1>12 DEF ReadControl
<1>13. CASE LoopEnds(r)
  BY <1>13 DEF LoopEnds
<1>14. CASE ObserveRequest(r)
  BY <1>14, Constants DEF ObserveRequest, Newer
<1>15. CASE ShutDown(r)
  BY <1>15 DEF ShutDown
<1>16. CASE FinishAttempt(r)
  BY <1>16 DEF FinishAttempt
<1>17. CASE CloseRaises(r)
  BY <1>17 DEF CloseRaises
<1>18. CASE Fault(r)
  BY <1>18, Constants DEF Fault, StopStates
<1>19. CASE Crash(r)
  BY <1>19 DEF Crash, Alive
<1>20. CASE LanesEnd(r)
  BY <1>20 DEF LanesEnd
<1>21. ASSUME NEW state \in Ends, Outcome(r, state)
       PROVE  Frame(r) /\ (Moves(r) \/ Begins(r) \/ Opens(r) \/ Stops(r) \/ Finishes(r))
  BY <1>21, Constants DEF Outcome
<1> QED
  BY <1>1, <1>2, <1>3, <1>4, <1>5, <1>6, <1>7, <1>8, <1>9, <1>10, <1>11, <1>12, <1>13, <1>14, <1>15, <1>16, <1>17, <1>18, <1>19, <1>20, <1>21 DEF Run

(* A launch changes what one process that was off works on.                *)
Launched(r) ==
    /\ pc[r] = "off" /\ pc'[r] \in {"launched", "loaded"}
    /\ target'[r] \in Ids /\ (camp[target'[r]] # "none" \/ target'[r] = r)
    /\ op'[r] = "direct" => target'[r] = r
    /\ \A q \in Runners \ {r} : pc'[q] = pc[q] /\ target'[q] = target[q] /\ op'[q] = op[q]
    /\ \A c \in Commands : target'[c] = target[c]
    /\ RowsKept /\ seen' = seen /\ asked' = asked /\ control' = control
    /\ plan' = plan /\ prepared' = prepared /\ bound' = bound /\ active' = active

(* Every launch by hand or by the web server is such a step.               *)
LEMMA LaunchKinds ==
    ASSUME TypeOK, Labels, NEW r \in Runners,
           \/ \E what \in {"start", "direct", "resume"}, i \in Ids, a \in BOOLEAN : CampaignCommand(r, what, i, a)
           \/ WebStart(r) \/ \E i \in Ids, a \in BOOLEAN : WebResume(r, i, a)
    PROVE  Launched(r) /\ cpc' = cpc
<1>1. PICK what \in {"start", "direct", "resume"}, i \in Ids, a \in BOOLEAN, label \in {"launched", "loaded"} :
        Launch(r, what, i, a, label) /\ (camp[i] # "none" \/ i = r)
  <2>1. ASSUME NEW what \in {"start", "direct", "resume"}, NEW i \in Ids, NEW a \in BOOLEAN,
               CampaignCommand(r, what, i, a)
        PROVE  Launch(r, what, i, a, "loaded") /\ (camp[i] # "none" \/ i = r)
    BY <2>1 DEF CampaignCommand, Launch, Loadable
  <2>2. ASSUME NEW i \in Ids, NEW a \in BOOLEAN, WebResume(r, i, a)
        PROVE  Launch(r, "resume", i, a, "launched") /\ camp[i] # "none"
    BY <2>2 DEF WebResume, Previewed, Resumable
  <2> QED
    BY <2>1, <2>2, Constants, ZenonT(30) DEF WebStart
<1> QED
  BY <1>1, Constants DEF Launch, Launched, RowsKept, rows, TypeOK, Labels

(* What a command changes: its own place and campaign, in an order that a  *)
(* crash may cut anywhere.                                                 *)
CommandStep(c) ==
    /\ \A d \in Commands \ {c} : cpc'[d] = cpc[d] /\ target'[d] = target[d]
    /\ plan \subseteq plan' /\ active' = active /\ control' = control /\ asked' = asked
    /\ attempt' = attempt /\ latest' = latest /\ reason' = reason /\ seen' = seen
    /\ \/ /\ camp' = camp
          /\ \/ cpc'[c] = "done"
             \/ cpc[c] = "idle" /\ cpc'[c] = "prepare" /\ target'[c] = c
             \/ /\ cpc[c] = "idle" /\ cpc'[c] = "launch" /\ target'[c] = Known
                /\ Known # None
             \/ cpc[c] = "prepare" /\ cpc'[c] = "row" /\ target'[c] = target[c] /\ c \in plan'
             \/ cpc[c] = "pointer" /\ cpc'[c] = "launch" /\ target'[c] = target[c]
             \/ cpc[c] = "launch" /\ cpc'[c] = "bind" /\ target'[c] = target[c]
       \/ /\ camp' = [camp EXCEPT ![c] = "prepared"]
          /\ cpc[c] = "row" /\ cpc'[c] = "pointer" /\ target'[c] = target[c]
    /\ prepared' = prepared \/ (cpc[c] = "pointer" /\ prepared' = c)
    /\ bound' = bound \/ (cpc[c] = "bind" /\ bound' = target[c])

(* No coordinator is disturbed by it.                                      *)
RunnersKept == \A q \in Runners : pc'[q] = pc[q] /\ target'[q] = target[q] /\ op'[q] = op[q]

(* Every step of a command is such a step, and launches at most one        *)
(* coordinator.                                                            *)
LEMMA CommandKinds ==
    ASSUME TypeOK, Labels, TargetsKnown, NEW c \in Commands, Command(c) \/ CommandCrash(c)
    PROVE  /\ CommandStep(c)
           /\ \/ RunnersKept
              \/ (\E r \in Runners : Launched(r)) /\ cpc[c] = "launch" /\ cpc'[c] = "bind"
<1>t. /\ cpc \in [Commands -> {"idle", "prepare", "row", "pointer", "launch", "bind", "done"}]
      /\ DOMAIN target = Commands \cup Runners /\ DOMAIN op = Commands \cup Runners
      /\ DOMAIN camp = Ids /\ c \in Ids /\ DOMAIN pc = Runners
      /\ \A d \in Commands : d \notin Runners /\ d \in Commands \cup Runners
      /\ \A q \in Runners : q \notin Commands /\ q \in Commands \cup Runners
  BY Constants DEF TypeOK, Labels
<1> USE <1>t DEF CommandStep, RunnersKept, CGoto, Return, files, rows, local, cmds
<1>1. CASE ExperimentReads(c)
  BY <1>1 DEF ExperimentReads
<1>2. CASE PrepareTests(c)
  BY <1>2 DEF PrepareTests
<1>3. CASE PrepareRow(c)
  BY <1>3 DEF PrepareRow
<1>4. CASE PreparePointer(c)
  BY <1>4 DEF PreparePointer
<1>5. CASE LaunchRefused(c)
  BY <1>5 DEF LaunchRefused
<1>6. CASE WriteExperimentState(c)
  BY <1>6 DEF WriteExperimentState
<1>7. CASE CommandCrash(c)
  BY <1>7 DEF CommandCrash
<1>8. ASSUME NEW r \in Runners, LaunchExperiment(c, r)
      PROVE  CommandStep(c) /\ Launched(r) /\ cpc[c] = "launch" /\ cpc'[c] = "bind"
  <2>1. target[c] \in Ids /\ camp[target[c]] # "none"
    BY <1>8 DEF LaunchExperiment, TargetsKnown
  <2> QED
    BY <1>8, <2>1 DEF LaunchExperiment, Launched, RowsKept
<1> QED
  BY <1>1, <1>2, <1>3, <1>4, <1>5, <1>6, <1>7, <1>8 DEF Command

(* The operator's request changes the control file and nothing else.       *)
LEMMA RequestTypes ==
    ASSUME TypeOK, Labels, NEW action \in {"STOP", "PAUSE"}, Request(action)
    PROVE  /\ TypeOK' /\ Labels' /\ RequestsNoticed'
           /\ UNCHANGED <<plan, prepared, bound, active, web, rows, cmds, local, lock, pc, lanes>>
<1>1. control' = [version |-> control.version + 1, action |-> action] /\ control.version < MaxRequests
  BY DEF Request
<1>2. control.version \in 0 .. MaxRequests
  BY DEF TypeOK
<1>3. control' \in [version : 0 .. MaxRequests, action : {"none", "STOP", "PAUSE"}]
  BY <1>1, <1>2, Constants
<1>4. asked' = {r \in Runners : pc[r] = "loop"}
      /\ UNCHANGED <<plan, prepared, bound, active, web, rows, cmds, local, lock, pc, lanes>>
  BY DEF Request
<1> QED
  BY <1>3, <1>4 DEF TypeOK, Labels, RequestsNoticed, rows, cmds, local

-----------------------------------------------------------------------------
(* The steps of a coordinator.                                             *)
Kind(r) == Frame(r) /\ (Moves(r) \/ Begins(r) \/ Opens(r) \/ Stops(r) \/ Finishes(r))

(* The rows of campaigns change only at the coordinator's own campaign, and *)
(* only under the lock; no campaign vanishes and none appears but the one   *)
(* that the coordinator creates.                                            *)
LEMMA CampaignRows ==
    ASSUME IInv, NEW r \in Runners, Kind(r)
    PROVE  /\ target[r] \in Ids
           /\ \A i \in Ids : i # target[r] => camp'[i] = camp[i] /\ latest'[i] = latest[i]
           /\ \A i \in Ids : camp[i] # "none" => camp'[i] # "none"
           /\ \A i \in Ids : camp'[i] = "prepared" => camp[i] = "prepared"
           /\ \A i \in Ids : camp[i] \notin {"none", "prepared"} => camp'[i] \notin {"none", "prepared"}
           /\ \A c \in Commands : camp[c] = "none" => camp'[c] = "none"
           /\ \A q \in Runners : q # r /\ pc[q] \in Held => pc[r] \notin Held
           /\ \A q \in Runners : pc[q] # "off" => target[q] \in Ids
           /\ camp' # camp => pc[r] \in Held
           /\ latest' # latest => pc[r] \in Held
<1>1. /\ camp \in [Ids -> CampStates] /\ latest \in [Ids -> Runners \cup {None}]
      /\ \A q \in Runners : lock = q <=> pc[q] \in Held
  BY DEF IInv, TypeOK, Held
<1>2. /\ \A q \in Runners : pc[q] # "off" => target[q] \in Ids
      /\ pc[r] # "off" => (camp[target[r]] # "none" \/ target[r] = r)
      /\ pc[r] # "off"
  BY DEF IInv, TargetsKnown, Kind, Frame
<1>3. /\ StopStates \cap {"none", "prepared"} = {}
      /\ \A c \in Commands : c \notin Runners /\ c \in Ids
  BY Constants
<1>4. \/ camp' = camp
      \/ pc[r] \in Held /\ \E state \in StopStates \cup {"running"} : camp' = [camp EXCEPT ![target[r]] = state]
  BY DEF Kind, Moves, RowsKept, Begins, Opens, Stops, Finishes, Held, Startup
<1>5. latest' = latest \/ (pc[r] \in Held /\ latest' = [latest EXCEPT ![target[r]] = r])
  BY DEF Kind, Moves, RowsKept, Begins, Opens, Stops, Finishes, Held, Startup
<1> QED
  BY <1>1, <1>2, <1>3, <1>4, <1>5

(* No coordinator loses the campaign that it, or another process, is on.   *)
LEMMA RunnerTargets ==
    ASSUME IInv, NEW r \in Runners, Kind(r)
    PROVE  TargetsKnown'
<1>1. /\ cpc' = cpc /\ target' = target /\ plan \subseteq plan' /\ pc[r] # "off"
      /\ \A q \in Runners \ {r} : pc'[q] = pc[q] /\ reason'[q] = reason[q] /\ op'[q] = op[q]
      /\ op'[r] \in {op[r], "none"}
  BY DEF Kind, Frame
<1>2. \/ reason'[r] = reason[r]
      \/ camp'[target[r]] # "none"
  <2>1. Begins(r) => camp'[target[r]] = "running"
    BY CampaignRows DEF Begins, IInv, TypeOK
  <2> QED
    BY <2>1 DEF Kind, Moves, RowsKept, Opens, Stops, Finishes
<1>3. \A c \in Commands :
        /\ cpc[c] \in {"idle", "prepare", "row"} => camp[c] = "none"
        /\ cpc[c] = "row" => c \in plan
        /\ cpc[c] = "pointer" => c \in plan /\ camp[c] # "none" /\ target[c] = c
        /\ cpc[c] \in {"prepare", "row"} => target[c] = c
        /\ cpc[c] \in {"launch", "bind"} =>
             target[c] \in Ids /\ camp[target[c]] # "none" /\ target[c] \in plan
  BY DEF IInv, TargetsKnown
<1>4. \A q \in Runners : pc[q] # "off" =>
        /\ target[q] \in Ids
        /\ camp[target[q]] # "none" \/ (target[q] = q /\ reason[q] = "none")
        /\ op[q] = "direct" => target[q] = q
  BY DEF IInv, TargetsKnown
<1>5. \A c \in Commands :
        /\ cpc'[c] \in {"idle", "prepare", "row"} => camp'[c] = "none"
        /\ cpc'[c] = "row" => c \in plan'
        /\ cpc'[c] = "pointer" => c \in plan' /\ camp'[c] # "none" /\ target'[c] = c
        /\ cpc'[c] \in {"prepare", "row"} => target'[c] = c
        /\ cpc'[c] \in {"launch", "bind"} =>
             target'[c] \in Ids /\ camp'[target'[c]] # "none" /\ target'[c] \in plan'
  BY <1>1, <1>3, CampaignRows, Constants
<1>6. ASSUME NEW q \in Runners, pc'[q] # "off"
      PROVE  /\ target'[q] \in Ids
             /\ camp'[target'[q]] # "none" \/ (target'[q] = q /\ reason'[q] = "none")
             /\ op'[q] = "direct" => target'[q] = q
  <2>1. /\ target[q] \in Ids
        /\ camp[target[q]] # "none" \/ (target[q] = q /\ reason[q] = "none")
        /\ op[q] = "direct" => target[q] = q
    BY <1>1, <1>4, <1>6
  <2>2. camp[target[q]] # "none" => camp'[target[q]] # "none"
    BY <2>1, CampaignRows
  <2>3. CASE q = r
    <3>1. op'[r] = "direct" => op[r] = "direct"
      BY <1>1
    <3>2. camp'[target[r]] # "none" \/ (target[r] = r /\ reason'[r] = "none")
      BY <1>2, <2>1, <2>2, <2>3
    <3> QED
      BY <1>1, <2>1, <2>3, <3>1, <3>2
  <2>4. CASE q # r
    BY <1>1, <2>1, <2>2, <2>4
  <2> QED
    BY <2>3, <2>4
<1> QED
  BY <1>5, <1>6 DEF TargetsKnown

(* What a coordinator has reached, nobody takes from it.                   *)
LEMMA RunnerProgress ==
    ASSUME IInv, NEW r \in Runners, Kind(r)
    PROVE  Progress'
<1>1. /\ target' = target
      /\ \A q \in Runners \ {r} : pc'[q] = pc[q] /\ reason'[q] = reason[q] /\ attempt'[q] = attempt[q]
  BY DEF Kind, Frame
<1>2. \A q \in Runners :
        /\ pc[q] \in Gathering \cup {"locked"} => reason[q] = "none"
        /\ pc[q] \in Held \ {"locked"} => reason[q] # "none"
        /\ pc[q] \in Gathering \cup {"locked", "created", "started"} => attempt[q] = "none"
        /\ pc[q] \in Held \ {"locked", "created", "started"} =>
             attempt[q] = "open" /\ latest[target[q]] = q
        /\ pc[q] \in {"final", "closing"} => camp[target[q]] \in StopStates
  BY DEF IInv, Progress
<1>3. ASSUME NEW q \in Runners, q # r
      PROVE  /\ pc'[q] \in Gathering \cup {"locked"} => reason'[q] = "none"
             /\ pc'[q] \in Held \ {"locked"} => reason'[q] # "none"
             /\ pc'[q] \in Gathering \cup {"locked", "created", "started"} => attempt'[q] = "none"
             /\ pc'[q] \in Held \ {"locked", "created", "started"} =>
                  attempt'[q] = "open" /\ latest'[target'[q]] = q
             /\ pc'[q] \in {"final", "closing"} => camp'[target'[q]] \in StopStates
  <2>1. pc[q] \in Held => camp' = camp /\ latest' = latest
    BY <1>3, CampaignRows
  <2>2. {"final", "closing"} \subseteq Held
    BY DEF Held
  <2> QED
    BY <1>1, <1>2, <1>3, <2>1, <2>2
<1>4. /\ pc'[r] \in Gathering \cup {"locked"} => reason'[r] = "none"
      /\ pc'[r] \in Held \ {"locked"} => reason'[r] # "none"
      /\ pc'[r] \in Gathering \cup {"locked", "created", "started"} => attempt'[r] = "none"
      /\ pc'[r] \in Held \ {"locked", "created", "started"} =>
           attempt'[r] = "open" /\ latest'[target'[r]] = r
      /\ pc'[r] \in {"final", "closing"} => camp'[target'[r]] \in StopStates
  <2> USE <1>1, <1>2 DEF Held, Gathering, Startup
  <2>1. CASE Moves(r)
    BY <2>1 DEF Moves, RowsKept
  <2>2. CASE Begins(r)
    BY <2>2 DEF Begins
  <2>3. CASE Opens(r)
    <3>1. latest'[target[r]] = r
      BY <2>3, CampaignRows DEF Opens, IInv, TypeOK
    <3> QED
      BY <2>3, <3>1 DEF Opens
  <2>4. CASE Stops(r)
    <3>1. camp'[target[r]] \in StopStates
      BY <2>4, CampaignRows DEF Stops, IInv, TypeOK
    <3> QED
      BY <2>4, <3>1 DEF Stops
  <2>5. CASE Finishes(r)
    BY <2>5 DEF Finishes
  <2> QED
    BY <2>1, <2>2, <2>3, <2>4, <2>5 DEF Kind
<1> QED
  BY <1>3, <1>4 DEF Progress

(* A campaign that is neither missing nor prepared was started by someone. *)
LEMMA RunnerStarted ==
    ASSUME IInv, NEW r \in Runners, Kind(r)
    PROVE  Started'
<1>1. /\ target' = target /\ pc[r] # "off"
      /\ \A q \in Runners \ {r} : pc'[q] = pc[q] /\ reason'[q] = reason[q]
  BY DEF Kind, Frame
<1>2. /\ \A i \in Ids : camp[i] = "prepared" => i \in Commands
      /\ \A q \in Runners : camp[q] # "none" => reason[q] = "initial_start" /\ target[q] = q
      /\ \A q \in Runners : reason[q] # "none" => pc[q] # "off" /\ camp[target[q]] \notin {"none", "prepared"}
  BY DEF IInv, Started
<1>3. pc'[r] # "off"
  BY <1>1 DEF Kind, Moves, Begins, Opens, Stops, Finishes
<1>4. CASE ~Begins(r)
  <2>1. reason' = reason /\ \A q \in Ids : camp[q] = "none" => camp'[q] = "none"
    <3>1. reason' = reason
      BY <1>4 DEF Kind, Moves, RowsKept, Opens, Stops, Finishes
    <3>2. camp' = camp \/ Stops(r)
      BY <1>4 DEF Kind, Moves, RowsKept, Opens, Finishes
    <3>3. Stops(r) => camp[target[r]] # "none"
      BY <1>2, Constants DEF Stops, IInv, Progress, Held, Startup
    <3> QED
      BY <3>1, <3>2, <3>3, CampaignRows
  <2> QED
    BY <1>1, <1>2, <1>3, <2>1, CampaignRows, Constants DEF Started
<1>5. CASE Begins(r)
  <2>1. camp'[target[r]] = "running" /\ reason[r] = "none"
    BY <1>5, CampaignRows DEF Begins, IInv, TypeOK, Progress
  <2>2. \A q \in Runners : camp'[q] # "none" => reason'[q] = "initial_start" /\ target'[q] = q
    BY <1>1, <1>2, <1>5, <2>1, CampaignRows, Constants DEF Begins
  <2>3. reason'[r] # "none"
    BY <1>5 DEF Begins
  <2> QED
    BY <1>1, <1>2, <1>3, <2>1, <2>2, <2>3, CampaignRows, Constants DEF Started
<1> QED
  BY <1>4, <1>5

(* A coordinator that is in its loop has seen, or was asked by, the latest  *)
(* request.                                                                 *)
LEMMA RunnerNoticed ==
    ASSUME IInv, NEW r \in Runners, Kind(r)
    PROVE  RequestsNoticed'
<1>1. /\ control' = control /\ asked' = asked
      /\ \A q \in Runners \ {r} : pc'[q] = pc[q] /\ seen'[q] = seen[q]
  BY DEF Kind, Frame
<1>2. pc'[r] = "loop" => (pc[r] = "loop" /\ seen' = seen) \/ seen'[r] = control.version
  BY DEF Kind, Moves, Begins, Opens, Stops, Finishes
<1>3. control.version \in Nat
  BY DEF IInv, TypeOK
<1>4. \A q \in Runners : pc[q] = "loop" /\ control.version > seen[q] => q \in asked
  BY DEF IInv, RequestsNoticed
<1> QED
  BY <1>1, <1>2, <1>3, <1>4 DEF RequestsNoticed

(* The pointers stay true.                                                 *)
LEMMA RunnerFiles ==
    ASSUME IInv, NEW r \in Runners, Kind(r)
    PROVE  FilesNameRows'
<1>1. /\ prepared' = prepared /\ bound' = bound /\ plan \subseteq plan' /\ target' = target
      /\ \A q \in Runners \ {r} : attempt'[q] = attempt[q]
  BY DEF Kind, Frame
<1>2. /\ \A i \in {prepared, bound} \ {None} : camp[i] # "none" /\ i \in plan
      /\ active # None => attempt[active] # "none" /\ camp[target[active]] # "none"
  BY DEF IInv, FilesNameRows
<1>3. /\ prepared \in Ids \cup {None} /\ bound \in Ids \cup {None} /\ active \in Runners \cup {None}
      /\ \A q \in Runners : attempt[q] # "none" => pc[q] # "off"
  BY Constants DEF IInv, TypeOK, Progress, Gathering
<1>4. \A i \in {prepared', bound'} \ {None} : camp'[i] # "none" /\ i \in plan'
  BY <1>1, <1>2, <1>3, CampaignRows
<1>5. \A q \in Runners : attempt[q] # "none" => attempt'[q] # "none"
  <2>1. attempt[r] # "none" => attempt'[r] # "none"
    <3>1. CASE Finishes(r)
      <4>1. camp[target[r]] # "none"
        BY <3>1, Constants DEF IInv, Progress, Finishes
      <4> QED
        BY <3>1, <4>1 DEF Finishes
    <3> QED
      BY <3>1 DEF Kind, Moves, RowsKept, Begins, Opens, Stops
  <2> QED
    BY <2>1, <1>1
<1>6. active' = active \/ (active' = r /\ attempt'[r] # "none" /\ camp[target[r]] # "none")
  <2>1. CASE pc[r] = "booting"
    <3>1. attempt[r] = "open" /\ reason[r] # "none"
      BY <2>1 DEF IInv, Progress, Held, Startup
    <3>2. camp[target[r]] # "none"
      BY <3>1 DEF IInv, Started
    <3> QED
      BY <2>1, <1>5, <3>1, <3>2 DEF Kind, Moves, Begins, Opens, Stops, Finishes
  <2>2. CASE pc[r] # "booting"
    BY <2>2 DEF Kind, Moves, Begins, Opens, Stops, Finishes
  <2> QED
    BY <2>1, <2>2
<1>7. active' # None => attempt'[active'] # "none" /\ camp'[target'[active']] # "none"
  BY <1>1, <1>2, <1>3, <1>5, <1>6, CampaignRows
<1> QED
  BY <1>4, <1>7 DEF FilesNameRows

(* The account of attempts stays right: a campaign that still runs when the *)
(* lock is free has lost its coordinator.                                   *)
LEMMA RunnerAttempts ==
    ASSUME IInv, NEW r \in Runners, Kind(r)
    PROVE  AttemptsAccounted'
<1>1. /\ target' = target
      /\ \A q \in Runners \ {r} : pc'[q] = pc[q] /\ reason'[q] = reason[q] /\ attempt'[q] = attempt[q]
  BY DEF Kind, Frame
<1>2. /\ \A p, q \in Runners : p # q /\ reason[p] = "initial_start" /\ reason[q] = "initial_start"
             => target[p] # target[q]
      /\ \A q \in Runners : reason[q] = "host_restart_recovery" =>
             \E p \in Runners \ {q} : target[p] = target[q] /\ pc[p] \in {"dead", "raised"}
      /\ \A q \in Runners : pc[q] = "exited" => attempt[q] # "open"
      /\ \A i \in Ids : camp[i] = "running" =>
          \E q \in Runners : target[q] = i /\ pc[q] # "exited" /\ reason[q] # "none"
  BY DEF IInv, AttemptsAccounted
<1>3. \A p \in Runners :
        /\ pc[p] \in Gathering \cup {"locked"} => reason[p] = "none"
        /\ pc[p] \in Gathering => attempt[p] = "none"
        /\ pc[p] = "closing" => camp[target[p]] \in StopStates /\ latest[target[p]] = p
        /\ pc[p] \in Gathering \cup Held \cup {"exited", "raised", "dead"}
  BY DEF IInv, Progress, Labels, Held
<1>4. pc[r] \in {"dead", "raised"} => pc'[r] \in {"dead", "raised"}
  BY DEF Kind, Moves, Begins, Opens, Stops, Finishes
<1>5. pc'[r] = "exited" => attempt'[r] # "open"
  <2>1. CASE Finishes(r)
    BY <2>1, <1>3, Constants DEF Finishes
  <2>2. CASE ~Finishes(r)
    <3>1. pc'[r] = "exited" => RowsKept /\ (pc[r] = "exited" \/ pc[r] \in Gathering)
      BY <2>2 DEF Kind, Moves, Begins, Opens, Stops, Gathering
    <3> QED
      BY <3>1, <1>2, <1>3 DEF RowsKept
  <2> QED
    BY <2>1, <2>2
<1>6. CASE ~Begins(r)
  <2>1. reason' = reason
    BY <1>6 DEF Kind, Moves, RowsKept, Opens, Stops, Finishes
  <2>2. pc'[r] = "exited" => pc[r] \in Gathering \cup {"exited"} \/ camp[target[r]] \in StopStates
    BY <1>6, <1>3 DEF Kind, Moves, Opens, Stops, Finishes, Gathering
  <2>3. \A i \in Ids : camp'[i] = "running" => camp[i] = "running"
    <3>1. camp' = camp \/ Stops(r)
      BY <1>6 DEF Kind, Moves, RowsKept, Opens, Finishes
    <3>2. Stops(r) => camp'[target[r]] \in StopStates
      BY CampaignRows DEF Stops, IInv, TypeOK
    <3> QED
      BY <3>1, <3>2, CampaignRows, Constants
  <2>4. \A q \in Runners : reason'[q] = "host_restart_recovery" =>
             \E p \in Runners \ {q} : target'[p] = target'[q] /\ pc'[p] \in {"dead", "raised"}
    BY <1>1, <1>2, <1>4, <2>1
  <2>5. ASSUME NEW i \in Ids, camp'[i] = "running"
        PROVE  \E q \in Runners : target'[q] = i /\ pc'[q] # "exited" /\ reason'[q] # "none"
    <3>1. PICK q \in Runners : target[q] = i /\ pc[q] # "exited" /\ reason[q] # "none"
      BY <2>5, <2>3, <1>2
    <3>2. camp[i] = "running"
      BY <2>5, <2>3
    <3>3. q = r => pc'[r] # "exited"
      BY <3>1, <3>2, <2>2, <1>3, Constants
    <3> QED
      BY <3>1, <3>3, <2>1, <1>1
  <2> QED
    BY <1>1, <1>2, <1>5, <2>1, <2>4, <2>5 DEF AttemptsAccounted
<1>7. CASE Begins(r)
  <2>1. /\ pc[r] = "locked" /\ reason[r] = "none" /\ pc'[r] \notin {"exited", "off"} /\ reason'[r] # "none"
        /\ pc[r] \in Held
    BY <1>7, <1>3 DEF Begins, Held, Startup
  <2>2. ASSUME NEW q \in Runners, q # r, reason'[r] = "initial_start", reason[q] = "initial_start"
        PROVE  target[r] # target[q]
    <3>1. camp[target[q]] \notin {"none", "prepared"}
      BY <2>2 DEF IInv, Started
    <3>2. camp[r] # "none" => reason[r] # "none"
      BY DEF IInv, Started
    <3> QED
      BY <1>7, <2>1, <2>2, <3>1, <3>2 DEF Begins
  <2>3. reason'[r] = "host_restart_recovery" =>
             \E p \in Runners \ {r} : target[p] = target[r] /\ pc[p] \in {"dead", "raised"}
    <3>1. SUFFICES ASSUME reason'[r] = "host_restart_recovery"
                   PROVE  \E p \in Runners \ {r} : target[p] = target[r] /\ pc[p] \in {"dead", "raised"}
      OBVIOUS
    <3>2. camp[target[r]] = "running"
      BY <1>7, <3>1 DEF Begins
    <3>3. PICK q \in Runners : target[q] = target[r] /\ pc[q] # "exited" /\ reason[q] # "none"
      BY <3>2, <1>2, CampaignRows
    <3>4. q # r /\ pc[q] \notin Gathering /\ pc[q] \notin Held
      BY <3>3, <2>1, <1>3, CampaignRows
    <3> QED
      BY <3>3, <3>4, <1>3
  <2>4. \A q \in Runners : reason'[q] = "host_restart_recovery" =>
             \E p \in Runners \ {q} : target'[p] = target'[q] /\ pc'[p] \in {"dead", "raised"}
    BY <1>1, <1>2, <1>4, <2>3
  <2>5. ASSUME NEW i \in Ids, camp'[i] = "running"
        PROVE  \E q \in Runners : target'[q] = i /\ pc'[q] # "exited" /\ reason'[q] # "none"
    <3>1. CASE i = target[r]
      BY <3>1, <2>1, <1>1
    <3>2. CASE i # target[r]
      BY <2>5, <3>2, <1>1, <1>2, CampaignRows
    <3> QED
      BY <3>1, <3>2
  <2>6. \A p, q \in Runners : p # q /\ reason'[p] = "initial_start" /\ reason'[q] = "initial_start"
             => target'[p] # target'[q]
    BY <1>1, <1>2, <2>2
  <2> QED
    BY <1>1, <1>2, <1>5, <2>4, <2>5, <2>6 DEF AttemptsAccounted
<1> QED
  BY <1>6, <1>7

-----------------------------------------------------------------------------
(* The steps of commands, of launches and of the operator.                 *)

(* A new process disturbs none of the others.                              *)
LEMMA LaunchKeeps ==
    ASSUME IInv, NEW r \in Runners, Launched(r)
    PROVE  /\ Progress' /\ Started' /\ RequestsNoticed' /\ AttemptsAccounted'
           /\ \A q \in Runners : pc'[q] # "off" =>
                /\ target'[q] \in Ids
                /\ camp'[target'[q]] # "none" \/ (target'[q] = q /\ reason'[q] = "none")
                /\ op'[q] = "direct" => target'[q] = q
           /\ active # None => target'[active] = target[active]
<1>1. /\ pc[r] = "off" /\ pc'[r] \in {"launched", "loaded"}
      /\ \A q \in Runners \ {r} : pc'[q] = pc[q] /\ target'[q] = target[q] /\ op'[q] = op[q]
      /\ camp' = camp /\ attempt' = attempt /\ latest' = latest /\ reason' = reason
      /\ seen' = seen /\ asked' = asked /\ control' = control
  BY DEF Launched, RowsKept
<1>2. reason[r] = "none" /\ attempt[r] = "none" /\ camp[r] = "none"
  BY <1>1 DEF IInv, Progress, Started, Gathering
<1>3. Progress'
  <2>1. \A q \in Runners \ {r} : target'[q] = target[q] /\ pc'[q] = pc[q]
    BY <1>1
  <2>2. pc'[r] \in Gathering /\ pc'[r] \notin Held
    BY <1>1 DEF Gathering, Held, Startup
  <2>3. pc'[r] \notin {"final", "closing"}
    BY <1>1
  <2> QED
    BY <1>1, <1>2, <2>1, <2>2, <2>3 DEF IInv, Progress
<1>4. Started'
  BY <1>1, <1>2 DEF IInv, Started
<1>5. RequestsNoticed'
  BY <1>1 DEF IInv, RequestsNoticed
<1>6. AttemptsAccounted'
  <2>1. \A p, q \in Runners : p # q /\ reason'[p] = "initial_start" /\ reason'[q] = "initial_start"
             => target'[p] # target'[q]
    BY <1>1, <1>2 DEF IInv, AttemptsAccounted
  <2>2. \A q \in Runners :
          /\ reason'[q] = "host_restart_recovery" =>
               \E p \in Runners \ {q} : target'[p] = target'[q] /\ pc'[p] \in {"dead", "raised"}
          /\ pc'[q] = "exited" => attempt'[q] # "open"
    BY <1>1, <1>2 DEF IInv, AttemptsAccounted
  <2>3. \A i \in Ids : camp'[i] = "running" =>
          \E q \in Runners : target'[q] = i /\ pc'[q] # "exited" /\ reason'[q] # "none"
    BY <1>1, <1>2 DEF IInv, AttemptsAccounted
  <2> QED
    BY <2>1, <2>2, <2>3 DEF AttemptsAccounted
<1>7. ASSUME NEW q \in Runners, pc'[q] # "off"
      PROVE  /\ target'[q] \in Ids
             /\ camp'[target'[q]] # "none" \/ (target'[q] = q /\ reason'[q] = "none")
             /\ op'[q] = "direct" => target'[q] = q
  <2>1. CASE q = r
    BY <2>1, <1>1, <1>2 DEF Launched
  <2>2. CASE q # r
    BY <2>2, <1>1, <1>7 DEF IInv, TargetsKnown
  <2> QED
    BY <2>1, <2>2
<1>8. active # None => active \in Runners /\ active # r
  BY <1>2 DEF IInv, TypeOK, FilesNameRows
<1> QED
  BY <1>1, <1>3, <1>4, <1>5, <1>6, <1>7, <1>8

(* A launch by hand or by the web server.                                  *)
LEMMA LaunchInv ==
    ASSUME IInv, NEW r \in Runners, Launched(r), cpc' = cpc
    PROVE  TargetsKnown' /\ FilesNameRows'
<1>1. /\ camp' = camp /\ plan' = plan /\ prepared' = prepared /\ bound' = bound /\ active' = active
      /\ attempt' = attempt /\ \A c \in Commands : target'[c] = target[c]
  BY DEF Launched, RowsKept
<1>2. TargetsKnown'
  <2>1. \A c \in Commands :
        /\ cpc'[c] \in {"idle", "prepare", "row"} => camp'[c] = "none"
        /\ cpc'[c] = "row" => c \in plan'
        /\ cpc'[c] = "pointer" => c \in plan' /\ camp'[c] # "none" /\ target'[c] = c
        /\ cpc'[c] \in {"prepare", "row"} => target'[c] = c
        /\ cpc'[c] \in {"launch", "bind"} =>
             target'[c] \in Ids /\ camp'[target'[c]] # "none" /\ target'[c] \in plan'
    BY <1>1 DEF IInv, TargetsKnown
  <2> QED
    BY <2>1, LaunchKeeps DEF TargetsKnown
<1>3. FilesNameRows'
  BY <1>1, LaunchKeeps DEF IInv, FilesNameRows
<1> QED
  BY <1>2, <1>3

(* A command writes the plan before the row, the row before the pointer,    *)
(* and the state file of a campaign that it has found or prepared.          *)
LEMMA CommandInv ==
    ASSUME IInv, NEW c \in Commands, CommandStep(c),
           RunnersKept \/ ((\E r \in Runners : Launched(r)) /\ cpc[c] = "launch" /\ cpc'[c] = "bind")
    PROVE  TargetsKnown' /\ Progress' /\ Started' /\ RequestsNoticed' /\ FilesNameRows' /\ AttemptsAccounted'
<1>1. /\ \A d \in Commands \ {c} : cpc'[d] = cpc[d] /\ target'[d] = target[d]
      /\ plan \subseteq plan' /\ active' = active /\ control' = control /\ asked' = asked
      /\ attempt' = attempt /\ latest' = latest /\ reason' = reason /\ seen' = seen
  BY DEF CommandStep
<1>2. /\ camp' = camp \/ (camp[c] = "none" /\ camp' = [camp EXCEPT ![c] = "prepared"])
  BY DEF CommandStep, IInv, TargetsKnown
<1>3. /\ \A i \in Ids : camp[i] # "none" => camp'[i] = camp[i]
      /\ \A i \in Ids : i # c => camp'[i] = camp[i]
      /\ camp'[c] \in {camp[c], "prepared"}
      /\ \A i \in Ids : camp'[i] \in {"running"} \cup StopStates => camp[i] = camp'[i]
  BY <1>2, Constants DEF IInv, TypeOK
<1>4. /\ Known # None => Known \in Ids /\ camp[Known] # "none" /\ Known \in plan
      /\ prepared \in Ids \cup {None} /\ bound \in Ids \cup {None}
  BY Constants DEF Known, IInv, FilesNameRows, TypeOK
<1>5. \A d \in Commands :
        /\ cpc[d] \in {"idle", "prepare", "row"} => camp[d] = "none"
        /\ cpc[d] = "row" => d \in plan
        /\ cpc[d] = "pointer" => d \in plan /\ camp[d] # "none" /\ target[d] = d
        /\ cpc[d] \in {"prepare", "row"} => target[d] = d
        /\ cpc[d] \in {"launch", "bind"} =>
             target[d] \in Ids /\ camp[target[d]] # "none" /\ target[d] \in plan
  BY DEF IInv, TargetsKnown
<1>6. ASSUME NEW d \in Commands
      PROVE  /\ cpc'[d] \in {"idle", "prepare", "row"} => camp'[d] = "none"
             /\ cpc'[d] = "row" => d \in plan'
             /\ cpc'[d] = "pointer" => d \in plan' /\ camp'[d] # "none" /\ target'[d] = d
             /\ cpc'[d] \in {"prepare", "row"} => target'[d] = d
             /\ cpc'[d] \in {"launch", "bind"} =>
                  target'[d] \in Ids /\ camp'[target'[d]] # "none" /\ target'[d] \in plan'
  <2>1. CASE d # c
    BY <2>1, <1>1, <1>3, <1>5, Constants
  <2>2. CASE d = c
    <3>1. CASE camp' = camp /\ ~(cpc[c] = "row" /\ cpc'[c] = "pointer")
      <4>1. \/ cpc'[c] = "done"
            \/ cpc[c] = "idle" /\ cpc'[c] = "prepare" /\ target'[c] = c
            \/ cpc[c] = "idle" /\ cpc'[c] = "launch" /\ target'[c] = Known /\ Known # None
            \/ cpc[c] = "prepare" /\ cpc'[c] = "row" /\ target'[c] = target[c] /\ c \in plan'
            \/ cpc[c] = "pointer" /\ cpc'[c] = "launch" /\ target'[c] = target[c]
            \/ cpc[c] = "launch" /\ cpc'[c] = "bind" /\ target'[c] = target[c]
        BY <3>1 DEF CommandStep
      <4> QED
        BY <4>1, <3>1, <2>2, <1>1, <1>4, <1>5, Constants
    <3>2. CASE cpc[c] = "row" /\ cpc'[c] = "pointer" /\ target'[c] = target[c] /\ camp' = [camp EXCEPT ![c] = "prepared"]
      <4>1. camp'[c] = "prepared"
        BY <3>2, Constants DEF IInv, TypeOK
      <4> QED
        BY <3>2, <4>1, <2>2, <1>1, <1>5
    <3> QED
      BY <3>1, <3>2 DEF CommandStep
  <2> QED
    BY <2>1, <2>2
<1>7. \A i \in {prepared', bound'} \ {None} : camp'[i] # "none" /\ i \in plan'
  <2>1. prepared' = prepared \/ (cpc[c] = "pointer" /\ prepared' = c)
    BY DEF CommandStep
  <2>2. bound' = bound \/ (cpc[c] = "bind" /\ bound' = target[c])
    BY DEF CommandStep
  <2>3. \A i \in {prepared, bound} \ {None} : camp[i] # "none" /\ i \in plan
    BY DEF IInv, FilesNameRows
  <2> QED
    BY <2>1, <2>2, <2>3, <1>1, <1>3, <1>4, <1>5, Constants
<1>8. CASE RunnersKept
  <2>1. \A q \in Runners : pc'[q] = pc[q] /\ target'[q] = target[q] /\ op'[q] = op[q]
    BY <1>8 DEF RunnersKept
  <2>2. \A q \in Runners : camp'[q] = camp[q]
    BY <1>3, Constants
  <2>3. TargetsKnown'
    <3>1. \A q \in Runners : pc'[q] # "off" =>
                /\ target'[q] \in Ids
                /\ camp'[target'[q]] # "none" \/ (target'[q] = q /\ reason'[q] = "none")
                /\ op'[q] = "direct" => target'[q] = q
      BY <2>1, <1>1, <1>3 DEF IInv, TargetsKnown
    <3> QED
      BY <1>6, <3>1 DEF TargetsKnown
  <2>4. Progress'
    <3>1. \A q \in Runners : pc[q] \in {"final", "closing"} => camp'[target[q]] \in StopStates
      BY <1>3, Constants DEF IInv, Progress, TargetsKnown
    <3> QED
      BY <2>1, <1>1, <3>1 DEF IInv, Progress
  <2>5. Started'
    <3>1. \A i \in Ids : camp'[i] = "prepared" => i \in Commands
      BY <1>3 DEF IInv, Started
    <3>2. \A q \in Runners : reason[q] # "none" => pc[q] # "off" /\ camp'[target[q]] \notin {"none", "prepared"}
      BY <1>3 DEF IInv, Started, TargetsKnown
    <3> QED
      BY <3>1, <3>2, <2>1, <2>2, <1>1 DEF IInv, Started
  <2>6. RequestsNoticed'
    BY <2>1, <1>1 DEF IInv, RequestsNoticed
  <2>7. FilesNameRows'
    <3>1. active # None => active \in Runners /\ target[active] \in Ids /\ attempt[active] # "none" /\ camp[target[active]] # "none"
      BY DEF IInv, FilesNameRows, TypeOK, Progress, TargetsKnown, Gathering
    <3> QED
      BY <3>1, <1>7, <2>1, <1>1, <1>3 DEF FilesNameRows
  <2>8. AttemptsAccounted'
    <3>1. \A i \in Ids : camp'[i] = "running" => camp[i] = "running"
      BY <1>3
    <3> QED
      BY <3>1, <2>1, <1>1 DEF IInv, AttemptsAccounted
  <2> QED
    BY <2>3, <2>4, <2>5, <2>6, <2>7, <2>8
<1>9. CASE \E r \in Runners : Launched(r)
  <2>1. PICK r \in Runners : Launched(r)
    BY <1>9
  <2>2. camp' = camp
    BY <2>1 DEF Launched, RowsKept
  <2>3. TargetsKnown'
    BY <2>1, <1>6, LaunchKeeps DEF TargetsKnown
  <2>4. FilesNameRows'
    BY <2>1, <2>2, <1>1, <1>7, LaunchKeeps DEF IInv, FilesNameRows
  <2> QED
    BY <2>1, <2>3, <2>4, LaunchKeeps
<1> QED
  BY <1>8, <1>9

-----------------------------------------------------------------------------
(* The initial state satisfies the invariant.                              *)
LEMMA InitInv == Init => IInv
<1> SUFFICES ASSUME Init PROVE IInv
  OBVIOUS
<1> USE Constants DEF Init
<1>1. TypeOK
  BY DEF TypeOK, CampStates, Startup
<1>2. Labels /\ TargetsKnown /\ Progress /\ Started /\ RequestsNoticed
  BY DEF Labels, Gathering, TargetsKnown, Progress, Started, RequestsNoticed, Held, Startup
<1>3. FilesNameRows /\ AttemptsAccounted
  BY DEF FilesNameRows, AttemptsAccounted
<1> QED
  BY <1>1, <1>2, <1>3 DEF IInv

(* Every step keeps it.                                                    *)
LEMMA NextInv == IInv /\ [Next]_vars => IInv'
<1> SUFFICES ASSUME IInv, [Next]_vars PROVE IInv'
  OBVIOUS
<1>0. TypeOK /\ Labels /\ TargetsKnown /\ Progress
  BY DEF IInv
<1>1. ASSUME NEW c \in Commands, Command(c) \/ CommandCrash(c) PROVE IInv'
  BY <1>0, <1>1, CommandTypes, CommandKinds, CommandInv DEF IInv
<1>2. ASSUME NEW action \in {"STOP", "PAUSE"}, Request(action) PROVE IInv'
  <2>1. /\ TypeOK' /\ Labels' /\ RequestsNoticed'
        /\ UNCHANGED <<plan, prepared, bound, active, web, rows, cmds, local, lock, pc, lanes>>
    BY <1>0, <1>2, RequestTypes
  <2>2. TargetsKnown' /\ Progress' /\ Started'
    BY <2>1 DEF IInv, TargetsKnown, Progress, Started, rows, cmds, local
  <2>3. FilesNameRows' /\ AttemptsAccounted'
    BY <2>1 DEF IInv, FilesNameRows, AttemptsAccounted, rows, cmds, local
  <2> QED
    BY <2>1, <2>2, <2>3 DEF IInv
<1>3. ASSUME NEW r \in Runners,
             \/ \E what \in {"start", "direct", "resume"}, i \in Ids, a \in BOOLEAN : CampaignCommand(r, what, i, a)
             \/ WebStart(r) \/ \E i \in Ids, a \in BOOLEAN : WebResume(r, i, a)
      PROVE  IInv'
  BY <1>0, <1>3, LaunchTypes, LaunchKinds, LaunchKeeps, LaunchInv DEF IInv
<1>4. ASSUME NEW r \in Runners,
             Run(r) \/ Fault(r) \/ Crash(r) \/ LanesEnd(r) \/ \E state \in Ends : Outcome(r, state)
      PROVE  IInv'
  <2>1. TypeOK' /\ Labels'
    BY <1>0, <1>4, RunnerTypes
  <2>2. Kind(r)
    BY <1>0, <1>4, RunnerKinds DEF Kind, TargetsKnown
  <2> QED
    BY <2>1, <2>2, RunnerTargets, RunnerProgress, RunnerStarted, RunnerNoticed, RunnerFiles, RunnerAttempts
    DEF IInv
<1>5. CASE UNCHANGED vars
  <2>1. TypeOK' /\ Labels' /\ TargetsKnown' /\ Progress' /\ Started' /\ RequestsNoticed'
    BY <1>5 DEF IInv, TypeOK, Labels, TargetsKnown, Progress, Started, RequestsNoticed, vars, files, rows, cmds, local
  <2>2. FilesNameRows' /\ AttemptsAccounted'
    BY <1>5 DEF IInv, FilesNameRows, AttemptsAccounted, vars, files, rows, cmds, local
  <2> QED
    BY <2>1, <2>2 DEF IInv
<1> QED
  BY <1>1, <1>2, <1>3, <1>4, <1>5 DEF Next

(* Everything that the proofs keep about commands, coordinators, rows and   *)
(* files holds in every reachable state.                                    *)
THEOREM Invariant == Spec => []IInv
BY InitInv, NextInv, PTL DEF Spec

(* One coordinator at most works under the campaign lock, and every         *)
(* variable keeps its type: TakeLock, Gone and Unlock of campaign_lock.     *)
THEOREM TypeCorrect == Spec => []TypeOK
<1>1. IInv => TypeOK
  BY DEF IInv
<1> QED
  BY <1>1, Invariant, PTL

(* Wherever prepare_campaign_plan, a launch or a coordinator is cut off, no *)
(* file names a campaign that the database lacks, or a process without an   *)
(* attempt.                                                                 *)
THEOREM FilesTrue == Spec => []FilesNameRows
<1>1. IInv => FilesNameRows
  BY DEF IInv
<1> QED
  BY <1>1, Invariant, PTL

(* However many commands and coordinators meet, a plan is started once, a   *)
(* recovery has a coordinator that died, a normal return closes its attempt *)
(* and a running campaign has a coordinator that did not return.            *)
THEOREM AttemptsRight == Spec => []AttemptsAccounted
<1>1. IInv => AttemptsAccounted
  BY DEF IInv
<1> QED
  BY <1>1, Invariant, PTL

(* A request that was written for an earlier attempt never ends a later     *)
(* one: _observe_control acts on versions that are newer than the one read  *)
(* before the loop.                                                         *)
THEOREM RequestsAreFresh == Spec => RequestsFresh
<1>1. ASSUME IInv, [Next]_vars
      PROVE  [\A i \in Ids :
               camp'[i] \in {"stopped_by_operator", "paused_by_operator"} /\ camp'[i] # camp[i]
                  => lock \in asked]_vars
  <2>0. TypeOK /\ Labels /\ TargetsKnown
    BY <1>1 DEF IInv
  <2>1. SUFFICES ASSUME Next, NEW i \in Ids,
                        camp'[i] \in {"stopped_by_operator", "paused_by_operator"}, camp'[i] # camp[i]
                 PROVE  lock \in asked
    BY <1>1
  <2>2. PICK r \in Runners :
          Run(r) \/ Fault(r) \/ Crash(r) \/ LanesEnd(r) \/ \E state \in Ends : Outcome(r, state)
    <3>1. ASSUME NEW c \in Commands, Command(c) \/ CommandCrash(c) PROVE FALSE
      BY <2>0, <2>1, <3>1, CommandKinds DEF CommandStep, TypeOK
    <3>2. ASSUME NEW action \in {"STOP", "PAUSE"}, Request(action) PROVE FALSE
      BY <2>1, <3>2 DEF Request, rows
    <3>3. ASSUME NEW r \in Runners,
             \/ \E what \in {"start", "direct", "resume"}, j \in Ids, a \in BOOLEAN : CampaignCommand(r, what, j, a)
             \/ WebStart(r) \/ \E j \in Ids, a \in BOOLEAN : WebResume(r, j, a)
          PROVE  FALSE
      BY <2>0, <2>1, <3>3, LaunchKinds DEF Launched, RowsKept
    <3> QED
      BY <2>1, <3>1, <3>2, <3>3 DEF Next
  <2>3. Kind(r)
    BY <2>0, <2>2, RunnerKinds DEF Kind, TargetsKnown
  <2>4. i = target[r] /\ pc[r] \in Held
    BY <1>1, <2>1, <2>3, CampaignRows
  <2>5. Stops(r)
    <3>1. Begins(r) => camp'[i] = "running"
      BY <2>0, <2>4 DEF Begins, TypeOK
    <3> QED
      BY <2>1, <2>3, <3>1 DEF Kind, Moves, RowsKept, Opens, Finishes
  <2>6. pc[r] = "loop" /\ control.version > seen[r]
    BY <2>0, <2>1, <2>4, <2>5 DEF Stops, TypeOK
  <2>7. lock = r
    BY <2>0, <2>4 DEF TypeOK, Held
  <2> QED
    BY <1>1, <2>6, <2>7 DEF IInv, RequestsNoticed
<1> QED
  BY <1>1, Invariant, PTL DEF Spec, RequestsFresh
=============================================================================
