---------------------------- MODULE Verification -----------------------------
(***************************************************************************)
(* Candidate verification: the durable rows that ResearchStore keeps       *)
(* (candidates, candidate actions, pins, verification jobs, the campaign), *)
(* the volatile M4VerificationBroker that moves them, its worker processes *)
(* and the manifest each one leaves on disk, across crashes and resumes.   *)
(*                                                                         *)
(* One action per SQLite transaction: a crash can fall between any two.    *)
(* pump() is split into its phases dispatch, start and poll, because the   *)
(* order of the three is what keeps accepted targets eligible.  A job id   *)
(* is a hash of campaign and candidate, so jobs are indexed by candidate;  *)
(* priorities are abstracted to a free choice of order.                    *)
(***************************************************************************)
EXTENDS Naturals, FiniteSets, M4Verdict

CONSTANTS
    Candidates,      \* graphs the archive may retain
    Actions,         \* ids of promote_candidate / schedule_verification actions
    MaxQueue,        \* max_queue of the broker
    MaxConcurrent,   \* max_concurrent of the broker
    MaxAttempts,     \* bound on execution attempts (crashes and resumes)
    CycleFree,       \* candidates without a cycle of a forbidden length
    Admissible,      \* candidates that satisfy the target's degree/connectivity
    Faulty           \* the verifier implementation that may lie, if any

ASSUME BoundsAssumption ==
    /\ MaxQueue \in Nat \ {0}
    /\ MaxConcurrent \in 1..MaxQueue
    /\ MaxAttempts \in Nat \ {0}

ASSUME TruthAssumption ==
    /\ CycleFree \subseteq Candidates
    /\ Admissible \subseteq Candidates
    /\ Faulty \in {"none", "reference", "checker"}

VARIABLES
    campaign,    \* research_campaigns.state
    candidate,   \* campaign_candidates.state, "absent" before the row exists
    action,      \* director_actions.validation_status and its outcome
    targets,     \* candidate ids in the action's parameters
    expired,     \* actions whose lease_expires_at has passed
    pin,         \* campaign_candidate_pins: state, and "linked" once it names a job
    job,         \* campaign_verification_jobs.state
    success,     \* candidates named by a success row of campaign_terminal_events
    attempt,     \* number of the current execution attempt
    phase,       \* where the coordinator is
    todo,        \* pending actions fetched by dispatch_pending_actions
    running,     \* M4VerificationBroker.running
    visit,       \* running jobs poll() has still to look at in this pump
    worker,      \* the process behind each running job
    result,      \* the manifest on its result queue
    writer,      \* attempt whose worker wrote the manifest.json on disk
    orphans      \* workers that outlived the coordinator that started them

durable == <<campaign, candidate, action, targets, expired, pin, job, success, attempt>>
broker == <<phase, todo, running, visit>>
processes == <<worker, result, writer, orphans>>
vars == <<durable, broker, processes>>

CampaignStates == {"running", "stopped", "succeeded"}
CandidateStates == {"absent", "retained", "promoted", "certified", "rejected"}
ActionStates == {"none", "pending", "applied", "failed", "stale_target",
                 "rejected_lease_expired", "rejected"}
PinStates == {"none", "active", "linked", "released"}
JobStates == {"none", "queued", "running", "completed", "unknown", "failed"}
Phases == {"down", "recovering", "idle", "dispatch", "start", "poll"}
WorkerStates == {"none", "working", "overdue", "reported", "errored", "exited"}
Eligible == {"retained", "promoted"}
Open == {"queued", "running"}
NoManifest == [status |-> "TOOL_FAILURE", valid |-> FALSE]

Init ==
    /\ campaign = "running"
    /\ candidate = [c \in Candidates |-> "absent"]
    /\ action = [a \in Actions |-> "none"]
    /\ targets = [a \in Actions |-> {}]
    /\ expired = {}
    /\ pin = [a \in Actions |-> [c \in Candidates |-> "none"]]
    /\ job = [c \in Candidates |-> "none"]
    /\ success = {}
    /\ attempt = 1
    /\ phase = "idle"
    /\ todo = {} /\ running = {} /\ visit = {}
    /\ worker = [c \in Candidates |-> "none"]
    /\ result = [c \in Candidates |-> NoManifest]
    /\ writer = [c \in Candidates |-> 0]
    /\ orphans = {}

-----------------------------------------------------------------------------
(* Rows created by the rest of the coordinator, between two pumps.         *)

(* CandidateArchive and retain_campaign_candidate: INSERT OR IGNORE.       *)
Retain(c) ==
    /\ phase = "idle"
    /\ candidate[c] = "absent"
    /\ candidate' = [candidate EXCEPT ![c] = "retained"]
    /\ UNCHANGED <<campaign, action, targets, expired, pin, job, success, attempt>>
    /\ UNCHANGED <<broker, processes>>

(* commit_decision_batch for one candidate action: a stale snapshot        *)
(* rejects it, an ineligible target makes it stale_target, otherwise it is *)
(* accepted and every target is pinned in the same transaction.            *)
Commit(a, T, fresh) ==
    /\ phase = "idle"
    /\ action[a] = "none"
    /\ LET accepted == fresh /\ \A c \in T : candidate[c] \in Eligible IN
       /\ action' = [action EXCEPT ![a] = IF accepted THEN "pending"
                                          ELSE IF fresh THEN "stale_target" ELSE "rejected"]
       /\ targets' = [targets EXCEPT ![a] = T]
       /\ pin' = IF accepted
                 THEN [pin EXCEPT ![a] = [c \in Candidates |-> IF c \in T THEN "active" ELSE "none"]]
                 ELSE pin
    /\ UNCHANGED <<campaign, candidate, expired, job, success, attempt>>
    /\ UNCHANGED <<broker, processes>>

LeaseExpires(a) ==
    /\ action[a] = "pending" /\ a \notin expired
    /\ expired' = expired \cup {a}
    /\ UNCHANGED <<campaign, candidate, action, targets, pin, job, success, attempt>>
    /\ UNCHANGED <<broker, processes>>

-----------------------------------------------------------------------------
(* record_action_outcome for an action that was not applied: the outcome   *)
(* row, and the release of the action's active pins that name no job.      *)
ReleaseUnlinked(pins) == [c \in Candidates |-> IF pins[c] = "active" THEN "released" ELSE pins[c]]

RecordActionOutcomeKeepsPins(a, status) ==  \* variant: the release is forgotten
    action' = [action EXCEPT ![a] = status] /\ UNCHANGED pin

RecordActionOutcome(a, status) ==
    /\ action' = [action EXCEPT ![a] = status]
    /\ pin' = [pin EXCEPT ![a] = ReleaseUnlinked(@)]

(* pump(): dispatch_pending_actions fetches the pending actions once.      *)
PumpBeginSkipsExpired ==  \* variant: expired actions are not fetched
    /\ phase = "idle"
    /\ phase' = "dispatch"
    /\ todo' = {a \in Actions : action[a] = "pending"} \ expired
    /\ UNCHANGED <<durable, running, visit, processes>>

PumpBegin ==
    /\ phase = "idle"
    /\ phase' = "dispatch"
    /\ todo' = {a \in Actions : action[a] = "pending"}
    /\ UNCHANGED <<durable, running, visit, processes>>

QueueDepthQueued == Cardinality({c \in Candidates : job[c] = "queued"})  \* variant
QueueDepth == Cardinality({c \in Candidates : job[c] \in Open})

DispatchExpired(a) ==
    /\ phase = "dispatch" /\ a \in todo
    /\ a \in expired
    /\ RecordActionOutcome(a, "rejected_lease_expired")
    /\ todo' = todo \ {a}
    /\ UNCHANGED <<campaign, candidate, targets, expired, job, success, attempt>>
    /\ UNCHANGED <<phase, running, visit, processes>>

DispatchQueueFull(a) ==
    /\ phase = "dispatch" /\ a \in todo
    /\ a \notin expired
    /\ QueueDepth + Cardinality(targets[a]) > MaxQueue
    /\ RecordActionOutcome(a, "failed")
    /\ todo' = todo \ {a}
    /\ UNCHANGED <<campaign, candidate, targets, expired, job, success, attempt>>
    /\ UNCHANGED <<phase, running, visit, processes>>

(* The transaction of queue_verification_action for eligible targets: a    *)
(* missing job is inserted, an unknown or failed one is queued again under *)
(* the same id, the pin names the job and is released at once if the job   *)
(* is already completed, the candidate is promoted, the action applied.    *)
QueuedPinEnded(j) == IF j \in {"completed", "unknown", "failed"} THEN "released" ELSE "linked"  \* variant
QueuedPin(j) == IF j = "completed" THEN "released" ELSE "linked"

QueueVerificationAction(a) ==
    LET T == targets[a] IN
    /\ job' = [c \in Candidates |->
                 IF c \in T /\ job[c] \in {"none", "unknown", "failed"} THEN "queued" ELSE job[c]]
    /\ pin' = [pin EXCEPT ![a] = [c \in Candidates |->
                 IF c \in T THEN QueuedPin(job[c]) ELSE @[c]]]
    /\ candidate' = [c \in Candidates |-> IF c \in T THEN "promoted" ELSE candidate[c]]
    /\ action' = [action EXCEPT ![a] = "applied"]

(* Within the queue bound: a vanished candidate is reported stale, a       *)
(* rejected or certified one raises out of the coordinator loop, which     *)
(* parks the campaign and shuts the broker down.                           *)
DispatchQueue(a) ==
    /\ phase = "dispatch" /\ a \in todo
    /\ a \notin expired
    /\ QueueDepth + Cardinality(targets[a]) <= MaxQueue
    /\ IF \E c \in targets[a] : candidate[c] = "absent"
       THEN /\ RecordActionOutcome(a, "stale_target")
            /\ todo' = todo \ {a}
            /\ UNCHANGED <<campaign, candidate, job, phase, running, worker>>
       ELSE IF \E c \in targets[a] : candidate[c] \in {"certified", "rejected"}
       THEN /\ campaign' = IF campaign = "running" THEN "stopped" ELSE campaign
            /\ phase' = "down" /\ todo' = {} /\ running' = {}
            /\ worker' = [c \in Candidates |-> "none"]
            /\ UNCHANGED <<action, pin, candidate, job>>
       ELSE /\ QueueVerificationAction(a)
            /\ todo' = todo \ {a}
            /\ UNCHANGED <<campaign, phase, running, worker>>
    /\ UNCHANGED <<targets, expired, success, attempt, visit, result, writer, orphans>>

DispatchEnd ==
    /\ phase = "dispatch" /\ todo = {}
    /\ phase' = "start"
    /\ UNCHANGED <<durable, todo, running, visit, processes>>

(* start_ready: mark_verification_started, then process.start.             *)
StartReady(c) ==
    /\ phase = "start"
    /\ Cardinality(running) < MaxConcurrent
    /\ job[c] = "queued"
    /\ job' = [job EXCEPT ![c] = "running"]
    /\ running' = running \cup {c}
    /\ worker' = [worker EXCEPT ![c] = "working"]
    /\ UNCHANGED <<campaign, candidate, action, targets, expired, pin, success, attempt>>
    /\ UNCHANGED <<phase, todo, visit, result, writer, orphans>>

StartEnd ==
    /\ phase = "start"
    /\ \/ Cardinality(running) >= MaxConcurrent
       \/ \A c \in Candidates : job[c] # "queued"
    /\ phase' = "poll"
    /\ visit' = running
    /\ UNCHANGED <<durable, todo, running, processes>>

(* complete_verification_job, one transaction: nothing unless the row is   *)
(* still running; otherwise job, candidate and every pin linked to the job *)
(* move together, and the first certified candidate of a campaign that has *)
(* not ended makes the campaign succeed and writes the terminal event.     *)
FirstSuccess(status) == status = "COUNTEREXAMPLE_VERIFIED" /\ campaign = "running"

CompleteVerificationJob(c, status) ==
    /\ IF job[c] = "running"
       THEN /\ job' = [job EXCEPT ![c] = JobStateOf(status)]
            /\ candidate' = [candidate EXCEPT ![c] = CandidateStateOf(status)]
            /\ pin' = [a \in Actions |-> [pin[a] EXCEPT ![c] =
                                            IF @ = "linked" THEN "released" ELSE @]]
            /\ campaign' = IF FirstSuccess(status) THEN "succeeded" ELSE campaign
            /\ success' = IF FirstSuccess(status) THEN success \cup {c} ELSE success
       ELSE UNCHANGED <<campaign, job, candidate, pin, success>>
    /\ running' = running \ {c}
    /\ worker' = [worker EXCEPT ![c] = "none"]
    /\ result' = [result EXCEPT ![c] = NoManifest]
    /\ UNCHANGED <<action, targets, expired, attempt, phase, todo, writer, orphans>>

(* poll() finds nothing: the job rotates to the end of the running map.    *)
PollNothing(c) ==
    /\ phase = "poll" /\ c \in visit
    /\ worker[c] = "working"
    /\ visit' = visit \ {c}
    /\ UNCHANGED <<durable, phase, todo, running, processes>>

(* poll() takes a result: the manifest must be readable on disk and equal  *)
(* to the one on the queue, so a manifest another worker wrote is refused. *)
PollResult(c, readable) ==
    /\ phase = "poll" /\ c \in visit
    /\ worker[c] = "reported"
    /\ CompleteVerificationJob(c, CommittedStatus(result[c], readable /\ writer[c] = attempt))
    /\ visit' = visit \ {c}

(* poll() finds an error report, a dead process, or a process past the     *)
(* wall-time limit, which it kills.                                        *)
PollFailureUnlimited(c) ==  \* variant: no wall-time limit
    /\ phase = "poll" /\ c \in visit
    /\ worker[c] \in {"errored", "exited"}
    /\ CompleteVerificationJob(c, "TOOL_FAILURE")
    /\ visit' = visit \ {c}

PollFailure(c) ==
    /\ phase = "poll" /\ c \in visit
    /\ worker[c] \in {"errored", "exited", "overdue"}
    /\ CompleteVerificationJob(c, "TOOL_FAILURE")
    /\ visit' = visit \ {c}

PollEnd ==
    /\ phase = "poll" /\ visit = {}
    /\ phase' = "idle"
    /\ UNCHANGED <<durable, todo, running, visit, processes>>

-----------------------------------------------------------------------------
(* The worker process: _verification_worker around certify().              *)

ManifestsOf == [c \in Candidates |->
    {Manifest(ref, cpp) : ref \in ReferenceRuns(c \in Admissible, c \in CycleFree, Faulty),
                          cpp \in CheckerRunsOn(c \in CycleFree, Faulty)}]

Alive(c) == worker[c] \in {"working", "overdue"}

(* certify writes manifest.json, then the manifest goes on the queue.      *)
WorkerReports(c, m) ==
    /\ Alive(c)
    /\ m \in ManifestsOf[c]
    /\ worker' = [worker EXCEPT ![c] = "reported"]
    /\ result' = [result EXCEPT ![c] = m]
    /\ writer' = [writer EXCEPT ![c] = attempt]
    /\ UNCHANGED <<durable, broker, orphans>>

(* An exception is reported as not ok; a killed process reports nothing.   *)
WorkerFails(c, how) ==
    /\ Alive(c)
    /\ how \in {"errored", "exited"}
    /\ worker' = [worker EXCEPT ![c] = how]
    /\ UNCHANGED <<durable, broker, result, writer, orphans>>

(* The wall clock passes 2 * timeout_seconds + 30.                         *)
WallTimeLimit(c) ==
    /\ worker[c] = "working"
    /\ worker' = [worker EXCEPT ![c] = "overdue"]
    /\ UNCHANGED <<durable, broker, result, writer, orphans>>

(* A worker of a crashed coordinator finishes: it writes into the same     *)
(* verifications/<job id> directory, or dies without writing.              *)
OrphanEnds(o, writes) ==
    /\ o \in orphans
    /\ orphans' = orphans \ {o}
    /\ writer' = IF writes THEN [writer EXCEPT ![o[1]] = o[2]] ELSE writer
    /\ UNCHANGED <<durable, broker, worker, result>>

-----------------------------------------------------------------------------
(* The end of an attempt, and the next one.                                *)

NoBroker ==
    /\ phase' = "down" /\ todo' = {} /\ running' = {} /\ visit' = {}
    /\ worker' = [c \in Candidates |-> "none"]
    /\ result' = [c \in Candidates |-> NoManifest]

(* The runner leaves its loop (operator pause or stop, deadline, budget,   *)
(* fault, or a success it has seen) and broker.shutdown kills the workers. *)
(* The job rows keep saying running.                                       *)
Shutdown ==
    /\ phase = "idle"
    /\ campaign' = IF campaign = "running" THEN "stopped" ELSE campaign
    /\ NoBroker
    /\ UNCHANGED <<candidate, action, targets, expired, pin, job, success, attempt>>
    /\ UNCHANGED <<writer, orphans>>

(* The coordinator dies anywhere; some of its workers may survive it.      *)
Crash(survivors) ==
    /\ phase # "down"
    /\ survivors \subseteq {c \in Candidates : Alive(c)}
    /\ NoBroker
    /\ orphans' = orphans \cup {<<c, attempt>> : c \in survivors}
    /\ UNCHANGED <<durable, writer>>

(* Resume: terminalize_stale_candidate_actions, then resume_campaign and   *)
(* create_execution_attempt.  A succeeded campaign is not resumable.       *)
ResumeCampaign ==
    /\ phase = "down"
    /\ campaign \in {"running", "stopped"}
    /\ attempt < MaxAttempts
    /\ LET stale == {a \in Actions : /\ action[a] = "pending"
                                     /\ \E c \in targets[a] : candidate[c] \notin Eligible} IN
       /\ action' = [a \in Actions |-> IF a \in stale THEN "stale_target" ELSE action[a]]
       /\ pin' = [a \in Actions |-> IF a \in stale THEN ReleaseUnlinked(pin[a]) ELSE pin[a]]
    /\ campaign' = "running"
    /\ attempt' = attempt + 1
    /\ phase' = "recovering"
    /\ UNCHANGED <<candidate, targets, expired, job, success>>
    /\ UNCHANGED <<todo, running, visit, processes>>

(* recover_interrupted_records: running jobs go back to the queue.         *)
RecoverInterruptedForgets ==  \* variant: interrupted jobs keep their state
    /\ phase = "recovering" /\ phase' = "idle"
    /\ UNCHANGED <<durable, todo, running, visit, processes>>

RecoverInterrupted ==
    /\ phase = "recovering"
    /\ job' = [c \in Candidates |-> IF job[c] = "running" THEN "queued" ELSE job[c]]
    /\ phase' = "idle"
    /\ UNCHANGED <<campaign, candidate, action, targets, expired, pin, success, attempt>>
    /\ UNCHANGED <<todo, running, visit, processes>>

-----------------------------------------------------------------------------
Dispatch == \E a \in Actions : DispatchExpired(a) \/ DispatchQueueFull(a) \/ DispatchQueue(a)

Poll == \E c \in Candidates :
    \/ PollNothing(c)
    \/ \E readable \in BOOLEAN : PollResult(c, readable)
    \/ PollFailure(c)

(* Every step of pump(), which the runner calls again and again.           *)
Pump ==
    \/ PumpBegin \/ Dispatch \/ DispatchEnd
    \/ \E c \in Candidates : StartReady(c)
    \/ StartEnd \/ Poll \/ PollEnd

Next ==
    \/ \E c \in Candidates : Retain(c)
    \/ \E a \in Actions, T \in SUBSET Candidates \ {{}}, fresh \in BOOLEAN : Commit(a, T, fresh)
    \/ \E a \in Actions : LeaseExpires(a)
    \/ Pump
    \/ \E c \in Candidates, m \in Manifests : WorkerReports(c, m)
    \/ \E c \in Candidates, how \in {"errored", "exited"} : WorkerFails(c, how)
    \/ \E c \in Candidates : WallTimeLimit(c)
    \/ \E o \in orphans, writes \in BOOLEAN : OrphanEnds(o, writes)
    \/ Shutdown
    \/ \E survivors \in SUBSET Candidates : Crash(survivors)
    \/ ResumeCampaign
    \/ RecoverInterrupted

Spec == Init /\ [][Next]_vars

(* The runner keeps pumping while it is up, its recovery runs to the end,  *)
(* and wall clocks advance.  No worker is assumed to answer.               *)
Fairness ==
    /\ WF_vars(Pump)
    /\ WF_vars(RecoverInterrupted)
    /\ \A c \in Candidates : WF_vars(WallTimeLimit(c))

FairSpec == Spec /\ Fairness

-----------------------------------------------------------------------------
(* Every variable has its type.                                            *)
TypeOK ==
    /\ campaign \in CampaignStates
    /\ candidate \in [Candidates -> CandidateStates]
    /\ action \in [Actions -> ActionStates]
    /\ targets \in [Actions -> SUBSET Candidates]
    /\ expired \subseteq Actions
    /\ pin \in [Actions -> [Candidates -> PinStates]]
    /\ job \in [Candidates -> JobStates]
    /\ success \subseteq Candidates
    /\ attempt \in 1..MaxAttempts
    /\ phase \in Phases
    /\ todo \subseteq Actions
    /\ running \subseteq Candidates
    /\ visit \subseteq Candidates
    /\ worker \in [Candidates -> WorkerStates]
    /\ result \in [Candidates -> Manifests]
    /\ writer \in [Candidates -> 0..MaxAttempts]
    /\ orphans \subseteq Candidates \X (1..MaxAttempts)

(* "Accepted candidate target is pinned": while an accepted action waits   *)
(* for its outcome, and while a job for a candidate is queued or running,  *)
(* some pin holds the candidate.  commit_decision_batch,                   *)
(* queue_verification_action, recover_interrupted_records.                 *)
ClaimedCandidatesPinned ==
    /\ \A a \in Actions : action[a] = "pending" => \A c \in targets[a] : pin[a][c] = "active"
    /\ \A c \in Candidates : job[c] \in Open => \E a \in Actions : pin[a][c] = "linked"

(* No pin outlives what it protects: an unreleased pin belongs to an       *)
(* action without an outcome or to a job that is still open.  The releases *)
(* of record_action_outcome, queue_verification_action and                 *)
(* complete_verification_job cover every way a claim can end.              *)
NoLeakedPin ==
    \A a \in Actions, c \in Candidates :
        /\ pin[a][c] = "active" => action[a] = "pending"
        /\ pin[a][c] = "linked" => job[c] \in Open

(* An accepted action never reaches queue_verification_action with a       *)
(* target that was meanwhile rejected or certified: the RuntimeError there *)
(* would park the whole campaign.  It depends on pump() dispatching before *)
(* it polls, and on crashes leaving that order intact.                     *)
PendingTargetsEligible ==
    \A a \in Actions : action[a] = "pending" =>
        \A c \in targets[a] : candidate[c] \in Eligible

(* The bounded queue: dispatch_pending_actions checks the depth before it  *)
(* queues, and no requeue, retry or restart gets past the bound.           *)
QueueBounded == Cardinality({c \in Candidates : job[c] \in Open}) <= MaxQueue

(* Outside recovery the rows that say running are exactly the broker's     *)
(* running map, whatever crashed before: no job runs twice or is lost.     *)
RunningRowsHaveWorkers ==
    phase \notin {"down", "recovering"} =>
        /\ running = {c \in Candidates : job[c] = "running"}
        /\ \A c \in running : worker[c] # "none"

(* M4 alone certifies: with at most one faulty verifier implementation a   *)
(* certified candidate has no forbidden cycle, and it is admissible unless *)
(* the reference verifier, the only one to check that, is the faulty one.  *)
(* certify, _valid_manifest, poll.                                         *)
CertifiedIsSound ==
    \A c \in Candidates : candidate[c] = "certified" =>
        /\ c \in CycleFree
        /\ Faulty # "reference" => c \in Admissible

(* A certified candidate and a succeeded campaign go together, and exactly *)
(* one success event names one certified candidate.                        *)
CertificationEndsCampaign ==
    /\ (campaign = "succeeded") <=> \E c \in Candidates : candidate[c] = "certified"
    /\ (campaign = "succeeded") <=> success # {}
    /\ \A c, d \in success : c = d
    /\ \A c \in success : candidate[c] = "certified"

(* What the invariants above rest on.  The order of pump(): between the    *)
(* end of dispatch and the end of poll no accepted action waits, and the   *)
(* broker's maps are empty while there is no broker.                       *)
PumpOrder ==
    /\ phase \in {"start", "poll"} => \A a \in Actions : action[a] # "pending"
    /\ phase = "dispatch" => \A a \in Actions : action[a] = "pending" <=> a \in todo
    /\ phase # "poll" => visit = {}
    /\ visit \subseteq running
    /\ phase \in {"down", "recovering"} => running = {}
    /\ phase # "down" => campaign # "stopped"

(* Job rows and candidate rows never disagree: an open job is about a      *)
(* promoted candidate, and a candidate has a verdict exactly if its job is *)
(* completed.  queue_verification_action, complete_verification_job.       *)
JobsMatchCandidates ==
    \A c \in Candidates :
        /\ job[c] \in Open => candidate[c] = "promoted"
        /\ candidate[c] \in {"certified", "rejected"} <=> job[c] = "completed"

PinsBelongToTargets ==
    \A a \in Actions, c \in Candidates :
        /\ action[a] = "none" => pin[a][c] = "none"
        /\ pin[a][c] # "none" => c \in targets[a]

ResultsComeFromWorkers ==
    \A c \in Candidates : result[c] = NoManifest \/ result[c] \in ManifestsOf[c]

(* The inductive invariant of the proofs.                                  *)
IInv ==
    /\ TypeOK /\ PumpOrder /\ JobsMatchCandidates
    /\ PinsBelongToTargets /\ ResultsComeFromWorkers
    /\ ClaimedCandidatesPinned /\ NoLeakedPin /\ PendingTargetsEligible
    /\ RunningRowsHaveWorkers /\ CertifiedIsSound /\ CertificationEndsCampaign

(* "A terminal completed job is not repeated on Resume": a completed job   *)
(* and the verdict it gave never change again, in any later attempt.       *)
VerdictsFinal ==
    [][\A c \in Candidates :
         /\ job[c] = "completed" => job'[c] = "completed"
         /\ candidate[c] \in {"certified", "rejected"} => candidate'[c] = candidate[c]]_vars

(* The abstract promise.                                                   *)
Abstract == INSTANCE Certification WITH
    verdict   <- [c \in Candidates |-> IF candidate[c] \in {"certified", "rejected"}
                                       THEN candidate[c] ELSE "open"],
    announced <- success,
    succeeded <- campaign = "succeeded"

(* The store and the broker together implement the abstract promise.       *)
ImplementsCertification == Abstract!Spec

(* Every accepted candidate action gets an outcome unless the attempt ends *)
(* first.  dispatch_pending_actions, pump().                               *)
ActionsSettle ==
    \A a \in Actions : action[a] = "pending" ~> (action[a] # "pending" \/ phase = "down")

(* Every queued or running job reaches a terminal state unless the attempt *)
(* ends first; no worker has to cooperate.  The wall-time limit of poll(). *)
JobsSettle ==
    \A c \in Candidates : job[c] \in Open ~> (job[c] \notin Open \/ phase = "down")
=============================================================================
