--------------------------- MODULE ComparisonSuite ---------------------------
(* One comparison suite: the operator's commands (ComparisonStore,          *)
(* request_stop), the worker processes that execute its arms                *)
(* (ComparisonWorker) and the recovery of dead workers                      *)
(* (recover_stale_workers).  The web server and the command line start      *)
(* workers independently of each other, so several may run for one suite;   *)
(* they meet in the rows of the workspace's database only.                  *)
(*                                                                          *)
(* An action is the code of one process between two points where another    *)
(* process can see its writes.  A failure of a resource sample, a quota, a  *)
(* wall clock limit or the app server is a choice of the environment: every *)
(* step that contains one has a disjunct that raises.                       *)
EXTENDS Naturals, FiniteSets

CONSTANTS
    Workers,     \* worker processes that may be started for the suite
    N,           \* number of arms; an arm is its position in effective order
    Plans,       \* plans the operator may make: fail_closed, and the arms that
                 \* resume the thread of the arm before them
    Cap,         \* maximum_inference_starts
    MaxStops     \* bound on the stop requests that are open at once

Arms == 1..N

(* create_suite, _expand_arms: a plan never allows fewer inferences than it *)
(* has arms, and the first arm has no thread to resume.                     *)
ASSUME PlanAssumption ==
    /\ N \in Nat \ {0} /\ Cap \in Nat /\ N <= Cap
    /\ Plans \subseteq [failClosed : BOOLEAN, resumes : SUBSET (Arms \ {1})]
    /\ MaxStops \in Nat
    /\ IsFiniteSet(Workers)

VARIABLES
    plan,        \* the suite's frozen plan
    suite,       \* comparison_suites.status
    auth,        \* the suite's authorization
    consumed,    \* consumed_inference_starts
    runtime,     \* the campaign that holds the suite's app server records
    arm,         \* latest lifecycle state of each arm
    turn,        \* each arm's comparison_turns row
    stops,       \* number of open stop requests
    stopper,     \* what request_stop has read and not yet written
    pc,          \* where each worker is
    cur,         \* the arm it works on
    soft,        \* it has nonfatal_failures
    result,      \* the suite status it will record
    attempt,     \* its comparison_execution_attempts row: "ended" with result
    lease,       \* its comparison_worker_leases row
    resv,        \* its inference reservation for each arm
    groups       \* first arms of the conversations whose app server it has open

rows   == <<suite, auth, consumed, runtime, arm, turn>>
stopVars == <<stops, stopper>>
local  == <<cur, soft, result, groups>>
vars   == <<plan, rows, stopVars, pc, local, attempt, lease, resv>>

(* "invalid" stands for schema_invalid and semantic_invalid, "failed" for   *)
(* failed and timed_out: the worker treats each pair alike.                 *)
Terminal == {"completed", "invalid", "failed", "blocked", "stopped"}
failClosed == plan.failClosed
resumes    == plan.resumes
Alive(w) == pc[w] \notin {"off", "done", "dead"}
AtWork   == {"preflight", "thread_ready", "inference_reserved", "turn", "inference_started"}

(* The first arm of an arm's conversation; the conversation is one          *)
(* stateless arm unless another arm resumes it.                             *)
FirstArm(a) == CHOOSE h \in 1..a : h \notin resumes /\ (h + 1)..a \subseteq resumes
Stateless(a) == a \notin resumes /\ a + 1 \notin resumes

(* create_suite; the plan is fixed from here on.                            *)
Init ==
    /\ plan \in Plans
    /\ suite = "draft" /\ auth = "none" /\ consumed = 0 /\ runtime = "none"
    /\ arm = [a \in Arms |-> "planned"] /\ turn = [a \in Arms |-> "none"]
    /\ stops = 0 /\ stopper = "idle"
    /\ pc = [w \in Workers |-> "off"] /\ cur = [w \in Workers |-> 1]
    /\ soft = [w \in Workers |-> FALSE] /\ result = [w \in Workers |-> "none"]
    /\ attempt = [w \in Workers |-> "none"] /\ lease = [w \in Workers |-> "none"]
    /\ resv = [w \in Workers |-> [a \in Arms |-> "none"]]
    /\ groups = [w \in Workers |-> {}]

-----------------------------------------------------------------------------
(* The operator.                                                            *)

(* ComparisonStore.prepare: the fingerprint is taken anew, an authorization *)
(* of the old one is revoked.                                               *)
Prepare ==
    /\ suite \in {"draft", "prepared"}
    /\ suite' = "prepared"
    /\ auth' = IF auth = "valid" THEN "revoked" ELSE auth
    /\ UNCHANGED <<plan, consumed, runtime, arm, turn, stopVars, pc, local,
                   attempt, lease, resv>>

(* ComparisonStore.authorize with the fingerprint of the prepared plan.     *)
Authorize ==
    /\ suite = "prepared"
    /\ suite' = "authorized" /\ auth' = "valid"
    /\ UNCHANGED <<plan, consumed, runtime, arm, turn, stopVars, pc, local,
                   attempt, lease, resv>>

(* request_stop reads the suite and its attempts, then writes: without an   *)
(* attempt that is launching or running the suite is stopped at once.       *)
StopRead ==
    /\ suite \in {"authorized", "running"}
    /\ stopper = "idle" /\ stops < MaxStops
    /\ stopper' = IF \E w \in Workers : attempt[w] \in {"launching", "running"}
                  THEN "attempt" ELSE "no attempt"
    /\ UNCHANGED <<plan, rows, stops, pc, local, attempt, lease, resv>>

StopWrite ==
    /\ stopper # "idle" /\ stopper' = "idle"
    /\ IF stopper = "attempt"
       THEN stops' = stops + 1 /\ UNCHANGED suite
       ELSE suite' = "stopped" /\ UNCHANGED stops
    /\ UNCHANGED <<plan, auth, consumed, runtime, arm, turn, pc, local,
                   attempt, lease, resv>>

-----------------------------------------------------------------------------
(* A worker before its arms.                                                *)
Goto(w, label) == pc' = [pc EXCEPT ![w] = label]

(* DashboardServer.start_comparison, or the comparisons worker command,     *)
(* whose tests _verify_exact_plan makes again: a refused worker has no      *)
(* attempt and leaves no trace.                                             *)
VerifyExactPlan == suite = "authorized" /\ auth = "valid"

Launch(w) ==
    /\ pc[w] = "off" /\ VerifyExactPlan
    /\ Goto(w, "verified")
    /\ UNCHANGED <<plan, rows, stopVars, local, attempt, lease, resv>>

(* _create_attempt; the plan verification artifact may exceed a quota.      *)
CreateAttempt(w) ==
    /\ pc[w] = "verified"
    /\ \/ attempt' = [attempt EXCEPT ![w] = "launching"] /\ Goto(w, "launching")
       \/ Goto(w, "done") /\ UNCHANGED attempt
    /\ UNCHANGED <<plan, rows, stopVars, local, lease, resv>>

(* A lease excludes others while it is unexpired or its process is alive.   *)
LeaseValidUnexpired(w) == lease[w] = "fresh"     \* variant: liveness is not looked at
LeaseValid(w) == lease[w] = "fresh" \/ (lease[w] = "stale" /\ Alive(w))

(* _acquire_lease.  The code looks at the suite's latest open lease: an     *)
(* older one belongs to a dead worker and has expired.                      *)
AcquireLease(w) ==
    /\ pc[w] = "launching"
    /\ \A v \in Workers : ~LeaseValid(v)
    /\ lease' = [lease EXCEPT ![w] = "fresh"]
    /\ Goto(w, "leased")
    /\ UNCHANGED <<plan, rows, stopVars, local, attempt, resv>>

(* The first resource sample fails, the suite has a valid lease, or workers *)
(* of other suites use all of maximum_concurrent_suites.                    *)
LeaseRefused(w) ==
    /\ pc[w] = "launching"
    /\ Goto(w, "failing")
    /\ UNCHANGED <<plan, rows, stopVars, local, attempt, lease, resv>>

(* _mark_suite_running, whatever the suite's status is by now, and          *)
(* _ensure_runtime_campaign.                                                *)
EnsureRuntimeCampaign == runtime' = IF runtime = "none" THEN "open" ELSE runtime

MarkSuiteRunning(w) ==
    /\ pc[w] = "leased"
    /\ attempt' = [attempt EXCEPT ![w] = "running"]
    /\ suite' = "running"
    /\ EnsureRuntimeCampaign
    /\ Goto(w, "loop")
    /\ UNCHANGED <<plan, auth, consumed, arm, turn, stopVars, local, lease, resv>>

-----------------------------------------------------------------------------
(* The loop over the arms.                                                  *)

(* _transition *)
Transition(a, state) == arm' = [arm EXCEPT ![a] = state]

(* An exception leaves the loop.                                            *)
Raise(w) ==
    /\ Goto(w, "raised")
    /\ UNCHANGED <<plan, rows, stopVars, local, attempt, lease, resv>>

(* _run after _execute_arm: where an outcome of the arm leads.              *)
NextArm(w) == Goto(w, "loop") /\ cur' = [cur EXCEPT ![w] = @ + 1]

ArmEnds(w, outcome) ==
    \/ outcome = "completed" /\ NextArm(w) /\ UNCHANGED soft
    \/ outcome = "stopped" /\ Goto(w, "stopping") /\ UNCHANGED <<cur, soft>>
    \/ outcome = "failed" /\ failClosed /\ Goto(w, "raised") /\ UNCHANGED <<cur, soft>>
    \/ /\ outcome \in {"invalid", "blocked"} \/ (outcome = "failed" /\ ~failClosed)
       /\ NextArm(w) /\ soft' = [soft EXCEPT ![w] = TRUE]

(* _heartbeat: the worker is alive, so nobody has released its lease.       *)
Heartbeat(w) == lease' = [lease EXCEPT ![w] = "fresh"]

(* The head of the loop: heartbeat, wall clock, stop requests, the token    *)
(* cap once a turn was answered, and the arm this one depends on.           *)
DependencyMet(a) == a \in resumes => arm[a - 1] = "completed"

ArmStopped(w) ==
    /\ pc[w] = "loop" /\ cur[w] \in Arms /\ stops > 0
    /\ Heartbeat(w) /\ Goto(w, "stopping")
    /\ UNCHANGED <<plan, rows, stopVars, local, attempt, resv>>

ArmRefused(w) ==
    /\ pc[w] = "loop" /\ cur[w] \in Arms
    /\ Raise(w)

ArmBlocked(w) ==
    /\ pc[w] = "loop" /\ cur[w] \in Arms /\ stops = 0
    /\ ~DependencyMet(cur[w])
    /\ Heartbeat(w) /\ Transition(cur[w], "blocked")
    /\ ArmEnds(w, "blocked")
    /\ UNCHANGED <<plan, suite, auth, consumed, runtime, turn, stopVars, result,
                   groups, attempt, resv>>

ArmBegins(w) ==
    /\ pc[w] = "loop" /\ cur[w] \in Arms /\ stops = 0
    /\ DependencyMet(cur[w])
    /\ Heartbeat(w) /\ Transition(cur[w], "preflight")
    /\ Goto(w, "preflight")
    /\ UNCHANGED <<plan, suite, auth, consumed, runtime, turn, stopVars, local,
                   attempt, resv>>

(* _start_runtime_group for a fresh arm; a resuming one needs the app       *)
(* server this worker has open for its conversation.  Then the contract of  *)
(* the thread is compared with the arm's.                                   *)
ThreadAvailable(w) == cur[w] \in resumes => FirstArm(cur[w]) \in groups[w]

ThreadStarts(w) ==
    /\ pc[w] = "preflight" /\ ThreadAvailable(w)
    /\ groups' = [groups EXCEPT ![w] = @ \cup {FirstArm(cur[w])}]
    /\ \/ Transition(cur[w], "thread_ready") /\ Goto(w, "thread_ready") /\ UNCHANGED <<cur, soft>>
       \/ Transition(cur[w], "failed") /\ ArmEnds(w, "failed")
    /\ UNCHANGED <<plan, suite, auth, consumed, runtime, turn, stopVars, result,
                   attempt, lease, resv>>

ThreadFails(w) == pc[w] = "preflight" /\ Raise(w)

-----------------------------------------------------------------------------
(* One inference.                                                           *)
Reservations(state) ==
    {x \in Workers \X Arms : resv[x[1]][x[2]] = state}

(* _reserve_inference *)
MayReserveUncounted ==      \* variant: open reservations are not counted
    auth = "valid" /\ consumed < Cap
MayReserve ==
    auth = "valid" /\ consumed + Cardinality(Reservations("open")) < Cap

ReserveInference(w) ==
    /\ pc[w] = "thread_ready" /\ MayReserve
    /\ resv' = [resv EXCEPT ![w][cur[w]] = "open"]
    /\ Transition(cur[w], "inference_reserved") /\ Goto(w, "inference_reserved")
    /\ UNCHANGED <<plan, suite, auth, consumed, runtime, turn, stopVars, local,
                   attempt, lease>>

(* The authorization has ended or is used up, or the sample before it fails.*)
ReserveFails(w) == pc[w] = "thread_ready" /\ Raise(w)

(* _begin_turn: the snapshot must be of the runtime campaign's first        *)
(* version, and its name and the turn's row are the arm's, so an arm has    *)
(* at most one.                                                             *)
TurnPossibleAgain(a) == runtime = "open"     \* variant: the rows are not unique
TurnPossible(a) == runtime = "open" /\ turn[a] = "none"

BeginTurn(w) ==
    /\ pc[w] = "inference_reserved" /\ TurnPossible(cur[w])
    /\ turn' = [turn EXCEPT ![cur[w]] = "open"]
    /\ Goto(w, "turn") \/ Goto(w, "raised")
    /\ UNCHANGED <<plan, suite, auth, consumed, runtime, arm, stopVars, local,
                   attempt, lease, resv>>

BeginTurnFails(w) == pc[w] = "inference_reserved" /\ Raise(w)

(* on_event, _consume_inference: the first event of the turn.               *)
ConsumeInference(w) ==
    /\ pc[w] = "turn" /\ resv[w][cur[w]] = "open"
    /\ resv' = [resv EXCEPT ![w][cur[w]] = "reached"]
    /\ consumed' = consumed + 1
    /\ Transition(cur[w], "inference_started") /\ Goto(w, "inference_started")
    /\ UNCHANGED <<plan, suite, auth, runtime, turn, stopVars, local, attempt, lease>>

(* _release_reservation: a reached inference is never refunded.             *)
ReleaseReservation(w) ==
    /\ resv' = [resv EXCEPT ![w][cur[w]] = IF @ = "open" THEN "released" ELSE @]
    /\ UNCHANGED consumed

(* _turn_with_controls: while the turn runs its lease is kept fresh.        *)
TurnRuns(w) ==
    /\ pc[w] \in {"turn", "inference_started"} /\ lease[w] = "stale"
    /\ Heartbeat(w)
    /\ UNCHANGED <<plan, rows, stopVars, pc, local, attempt, resv>>

(* The turn ends without an answer: timeout, interruption by a stop, or an  *)
(* error.  The app server is closed; the sample taken then may fail.        *)
TurnLost(w, outcome) ==
    /\ pc[w] \in {"turn", "inference_started"}
    /\ outcome = "stopped" => stops > 0
    /\ ReleaseReservation(w)
    /\ turn' = [turn EXCEPT ![cur[w]] = outcome] /\ Transition(cur[w], outcome)
    /\ groups' = [groups EXCEPT ![w] = @ \ {FirstArm(cur[w])}]
    /\ \/ ArmEnds(w, outcome)
       \/ Goto(w, "raised") /\ UNCHANGED <<cur, soft>>
    /\ \/ UNCHANGED stops
       \/ outcome = "stopped" /\ stops' = stops - 1   \* forced termination completes it
    /\ UNCHANGED <<plan, suite, auth, runtime, stopper, result, attempt, lease>>

(* An answer although no event has reached the worker.                      *)
TurnSilent(w) ==
    /\ pc[w] = "turn"
    /\ ReleaseReservation(w) /\ Transition(cur[w], "failed")
    /\ ArmEnds(w, "failed")
    /\ UNCHANGED <<plan, suite, auth, runtime, turn, stopVars, result, groups,
                   attempt, lease>>

(* The answer is judged: failed by policy (a retry, a tool call, missing    *)
(* usage, tokens over the cap), malformed, invalid, or completed.           *)
TurnAnswered(w, outcome) ==
    /\ pc[w] = "inference_started"
    /\ ReleaseReservation(w)
    /\ turn' = [turn EXCEPT ![cur[w]] = outcome] /\ Transition(cur[w], outcome)
    /\ groups' = [groups EXCEPT ![w] =
                     IF outcome # "failed" /\ Stateless(cur[w]) THEN @ \ {cur[w]} ELSE @]
    /\ \/ ArmEnds(w, outcome)
       \/ outcome # "failed" /\ Goto(w, "raised") /\ UNCHANGED <<cur, soft>>
    /\ UNCHANGED <<plan, suite, auth, runtime, stopVars, result, attempt, lease>>

(* _finish_result raises: an artifact of the answer exceeds a quota.        *)
AnswerNotKept(w) == pc[w] = "inference_started" /\ Raise(w)

-----------------------------------------------------------------------------
(* The end of a worker.                                                     *)

(* _block_remaining from the current arm on.                                *)
BlockRemaining(w, current) ==
    arm' = [a \in Arms |-> IF a < cur[w] \/ arm[a] \in Terminal THEN arm[a]
                           ELSE IF a = cur[w] THEN current ELSE "blocked"]

(* _close_groups; a sample that cannot be taken raises before the app       *)
(* server is closed.                                                        *)
CloseGroups(w) == groups' = [groups EXCEPT ![w] = {}]

(* The handler of an exception in the loop.                                 *)
CleanUp(w) ==
    /\ pc[w] = "raised"
    /\ BlockRemaining(w, "failed")
    /\ CloseGroups(w) \/ UNCHANGED groups
    /\ Goto(w, "failing")
    /\ UNCHANGED <<plan, suite, auth, consumed, runtime, turn, stopVars, cur, soft,
                   result, attempt, lease, resv>>

(* run: the runtime campaign is finished, then the attempt.                 *)
FinishAttempt(w, status) ==
    /\ attempt' = [attempt EXCEPT ![w] = "ended"]
    /\ result' = [result EXCEPT ![w] = status]
    /\ runtime' = IF lease[w] = "none" THEN runtime ELSE "finished"
    /\ Goto(w, "settling")

Fail(w) ==
    /\ pc[w] = "failing"
    /\ FinishAttempt(w, "failed")
    /\ UNCHANGED <<plan, suite, auth, consumed, arm, turn, stopVars, cur, soft, groups,
                   lease, resv>>

(* The handler of WorkerStopped.                                            *)
Stop(w) ==
    /\ pc[w] = "stopping"
    /\ BlockRemaining(w, "blocked") /\ CloseGroups(w)
    /\ stops' = IF stops > 0 THEN stops - 1 ELSE 0
    /\ FinishAttempt(w, "stopped")
    /\ UNCHANGED <<plan, suite, auth, consumed, turn, stopper, cur, soft, lease, resv>>

StopRaises(w) ==
    /\ pc[w] = "stopping"
    /\ BlockRemaining(w, "blocked")
    /\ Goto(w, "failing")
    /\ UNCHANGED <<plan, suite, auth, consumed, runtime, turn, stopVars, local,
                   attempt, lease, resv>>

(* All arms are done: the suite is completed unless an arm has failed.      *)
Finish(w) ==
    /\ pc[w] = "loop" /\ cur[w] \notin Arms
    /\ CloseGroups(w)
    /\ FinishAttempt(w, IF soft[w] THEN "failed" ELSE "completed")
    /\ auth' = IF auth = "valid" /\ ~soft[w] THEN "completed" ELSE auth
    /\ UNCHANGED <<plan, suite, consumed, arm, turn, stopVars, cur, soft, lease, resv>>

FinishRaises(w) ==
    /\ pc[w] = "loop" /\ cur[w] \notin Arms
    /\ Goto(w, "failing")
    /\ UNCHANGED <<plan, rows, stopVars, local, attempt, lease, resv>>

(* The suite's status, _fail_suite for a worker that has raised.            *)
SettleSuite(w) ==
    /\ pc[w] = "settling"
    /\ suite' = result[w]
    /\ Goto(w, "releasing")
    /\ UNCHANGED <<plan, auth, consumed, runtime, arm, turn, stopVars, local, attempt,
                   lease, resv>>

(* A process that is gone keeps nothing.                                    *)
Forget(w) ==
    /\ cur' = [cur EXCEPT ![w] = 1] /\ soft' = [soft EXCEPT ![w] = FALSE]
    /\ result' = [result EXCEPT ![w] = "none"] /\ groups' = [groups EXCEPT ![w] = {}]

(* _release_lease *)
ReleaseLease(w) ==
    /\ pc[w] = "releasing"
    /\ lease' = [lease EXCEPT ![w] = IF @ = "none" THEN @ ELSE "released"]
    /\ Goto(w, "done") /\ Forget(w)
    /\ UNCHANGED <<plan, rows, stopVars, attempt, resv>>

-----------------------------------------------------------------------------
(* Time, crashes and their recovery.                                        *)
ExpireLease(w) ==
    /\ lease[w] = "fresh"
    /\ lease' = [lease EXCEPT ![w] = "stale"]
    /\ UNCHANGED <<plan, rows, stopVars, pc, local, attempt, resv>>

Crash(w) ==
    /\ Alive(w)
    /\ Goto(w, "dead") /\ Forget(w)
    /\ UNCHANGED <<plan, rows, stopVars, attempt, lease, resv>>

(* recover_stale_workers, for one lease.                                    *)
RecoveredSuiteKept == suite      \* variant: the suite's status is left alone
RecoveredSuite == IF suite = "running" THEN "failed" ELSE suite

RecoverStaleWorker(w) ==
    /\ lease[w] = "stale" /\ ~Alive(w)
    /\ lease' = [lease EXCEPT ![w] = "released"]
    /\ attempt' = [attempt EXCEPT ![w] =
                      IF @ \in {"launching", "running"} THEN "interrupted" ELSE @]
    /\ resv' = [resv EXCEPT ![w] =
                   [a \in Arms |-> IF @[a] = "open" THEN "released" ELSE @[a]]]
    /\ suite' = RecoveredSuite
    /\ UNCHANGED <<plan, auth, consumed, runtime, arm, turn, stopVars, pc, local>>

-----------------------------------------------------------------------------
Arm(w) ==
    \/ ArmStopped(w) \/ ArmRefused(w) \/ ArmBlocked(w) \/ ArmBegins(w)
    \/ ThreadStarts(w) \/ ThreadFails(w)
    \/ ReserveInference(w) \/ ReserveFails(w)
    \/ BeginTurn(w) \/ BeginTurnFails(w) \/ ConsumeInference(w)
    \/ \E o \in {"stopped", "failed"} : TurnLost(w, o)
    \/ TurnSilent(w)
    \/ \E o \in {"invalid", "failed", "completed"} : TurnAnswered(w, o)
    \/ AnswerNotKept(w)

Work(w) ==
    \/ CreateAttempt(w) \/ AcquireLease(w) \/ LeaseRefused(w)
    \/ MarkSuiteRunning(w) \/ Arm(w) \/ CleanUp(w)
    \/ Fail(w) \/ Stop(w) \/ StopRaises(w) \/ Finish(w) \/ FinishRaises(w)
    \/ SettleSuite(w) \/ ReleaseLease(w)

Next ==
    \/ Prepare \/ Authorize \/ StopRead \/ StopWrite
    \/ \E w \in Workers :
          Launch(w) \/ Work(w) \/ TurnRuns(w) \/ ExpireLease(w) \/ Crash(w)
             \/ RecoverStaleWorker(w)

Spec == Init /\ [][Next]_vars

(* A live process goes on: a turn that is not answered is timed out, and a  *)
(* request_stop that has read goes on to write.  The lease of a dead worker *)
(* expires, and every request for the suite's progress looks for stale      *)
(* workers.  Nothing is assumed of operators and app servers.               *)
FairSpec ==
    /\ Spec
    /\ WF_vars(StopWrite)
    /\ \A w \in Workers :
          WF_vars(Work(w)) /\ WF_vars(~Alive(w) /\ ExpireLease(w)) /\ WF_vars(RecoverStaleWorker(w))

-----------------------------------------------------------------------------
(* The type of every variable.                                              *)
TypeOK ==
    /\ plan \in Plans
    /\ suite \in {"draft", "prepared", "authorized", "running", "stopped", "failed", "completed"}
    /\ auth \in {"none", "valid", "revoked", "completed"}
    /\ consumed \in 0..Cap /\ runtime \in {"none", "open", "finished"}
    /\ arm \in [Arms -> Terminal \cup AtWork \cup {"planned"}]
    /\ turn \in [Arms -> Terminal \cup {"none", "open"}]
    /\ stops \in 0..MaxStops /\ stopper \in {"idle", "attempt", "no attempt"}
    /\ pc \in [Workers -> AtWork \cup
                 {"off", "verified", "launching", "leased", "loop", "stopping",
                  "raised", "failing", "settling", "releasing", "done", "dead"}]
    /\ cur \in [Workers -> 1..(N + 1)] /\ soft \in [Workers -> BOOLEAN]
    /\ result \in [Workers -> {"none", "stopped", "failed", "completed"}]
    /\ attempt \in [Workers -> {"none", "launching", "running", "ended", "interrupted"}]
    /\ lease \in [Workers -> {"none", "fresh", "stale", "released"}]
    /\ resv \in [Workers -> [Arms -> {"none", "open", "reached", "released"}]]
    /\ groups \in [Workers -> SUBSET Arms]

(* The authorized number of inferences is a hard cap that is counted        *)
(* exactly: a reached inference is never refunded, and neither reservations *)
(* that a failed worker left open nor a second worker can exceed the cap.   *)
(* _reserve_inference, _consume_inference, _release_reservation,            *)
(* recover_stale_workers.                                                   *)
InferenceAccounting ==
    /\ consumed = Cardinality(Reservations("reached"))
    /\ consumed + Cardinality(Reservations("open")) <= Cap

(* One worker at a time works on the arms of a suite, although a lease may  *)
(* expire while its worker is alive: _acquire_lease, _heartbeat.            *)
OneWorkerAtWork ==
    Cardinality({w \in Workers : pc[w] \in AtWork \cup {"loop", "stopping", "raised"}}) <= 1

(* "automatic paid resume forbidden": no arm is asked twice, and with       *)
(* fail_closed all of the inferences of a suite are one worker's, since a   *)
(* worker that gets the lease of another one that crashed or failed cannot  *)
(* pass the first arm whose turn was begun.  _reserve_inference, _begin_turn.*)
NoPaidResume ==
    \A x, y \in Reservations("reached") : x[2] = y[2] \/ failClosed => x[1] = y[1]

(* A running suite ends, whatever fails and wherever its worker dies.       *)
SuiteEnds == suite = "running" ~> suite # "running"
=============================================================================
