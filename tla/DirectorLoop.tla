---------------------------- MODULE DirectorLoop -----------------------------
(* The coordinator of a campaign: the main loop of CampaignRunner, the      *)
(* Director task it starts (ActiveResearchOrchestrator.tick), the trigger   *)
(* engine, the commit of a decision into the ledger (commit_decision_batch) *)
(* and the campaign's state over crashes and resumes.  An attempt is driven *)
(* by the app server ("llm") or by the passive scheduler ("passive").       *)
(*                                                                          *)
(* The main loop and the task are coroutines of one thread: control passes  *)
(* between them at awaits only, and each action is the code between two     *)
(* awaits.  One lane and one candidate stand for the targets of a decision. *)
(* The campaign's state version is modelled by whether the version of the   *)
(* snapshot under review is still the current one, the lane's version by    *)
(* whether it moved since that snapshot.                                    *)
EXTENDS Naturals, FiniteSets

CONSTANTS
    Modes,        \* the director modes an attempt may choose
    MaxTurns,     \* maximum_director_turns
    MaxAttempts   \* bound on the attempts of the campaign

ASSUME ModesAssumption == Modes \subseteq {"llm", "passive"} /\ Modes # {}
ASSUME BoundsAssumption == MaxTurns \in Nat \ {0} /\ MaxAttempts \in Nat \ {0}

VARIABLES
    camp,      \* research_campaigns.state
    fresh,     \* the snapshot's campaign_state_version is the campaign's
    moved,     \* the target lane's version is not the snapshot's
    lane,      \* state of the target lane's row
    cand,      \* state of the target candidate's row
    trig,      \* director_triggers.status of the attempt's latest trigger
    recovery,  \* the plan has provider_recovery_attempts > 0
    attempt,   \* number of the attempt
    mode,      \* the attempt's director mode
    phase,     \* "up", "ending" (finally block) or "down"
    task,      \* where the Director task is
    replan,    \* the task is in its second cycle
    snap,      \* the targets the snapshot under review offers
    clash,     \* action ids were taken in the workspace since the snapshot
    ahead,     \* the passive scheduler's memory is ahead of its durable state
    pending,   \* TriggerEngine._pending, by class of reason
    heard,     \* TriggerEngine.enabled_events, by class of reason
    used,      \* completed_director_turns
    control,   \* an operator command the loop has not read yet
    last,      \* targets of the actions the last batch accepted
    news       \* reasons that occurred since the last published snapshot

rows    == <<camp, fresh, moved, lane, cand, trig>>
plan    == <<recovery, attempt, mode>>
cycle   == <<task, replan, snap, clash, ahead>>
engine  == <<pending, heard>>
loop    == <<phase, used, control>>
history == <<last, news>>
vars    == <<rows, plan, cycle, engine, loop, history>>

(* Reasons for a review, by how the trigger engine treats them: bootstrap   *)
(* and recovery; CRITICAL_REASONS; stale_action_replan, which no decision   *)
(* can switch off but which waits for the debounce and the minimum interval *)
(* (as action_lease_expired does); the review events a decision may switch  *)
(* off.                                                                     *)
Reasons   == {"urgent", "critical", "internal", "optional"}
Immediate == {"urgent", "critical"}
Events    == {"critical", "optional"}

Ended     == {"succeeded", "completed_deadline_reached", "stopped_by_operator",
              "budget_exhausted", "director_replan_exhausted"}
StopStates == Ended \cup {"paused_by_operator", "paused_fault"}
Resumable == {"running", "paused_by_operator", "stopped_by_operator",
              "completed_deadline_reached", "budget_exhausted", "paused_fault"}

Init ==
    /\ camp = "running" /\ fresh = FALSE /\ moved = FALSE
    /\ lane = "gone" /\ cand = "none" /\ trig = "none"
    /\ recovery \in BOOLEAN /\ attempt = 1 /\ mode \in Modes
    /\ phase = "up" /\ used = 0 /\ control = "none"
    /\ task = "none" /\ replan = FALSE /\ snap = {} /\ clash = FALSE /\ ahead = FALSE
    /\ pending = {"urgent"} /\ heard = Events
    /\ last = {} /\ news = {}

-----------------------------------------------------------------------------
(* TriggerEngine.offer, or DeterministicReviewTrigger.offer in a passive    *)
(* attempt.  A critical event, taken or not, and a stale decision the       *)
(* engine was told of are news until a snapshot is published.               *)
HearsEnabled(r) ==      \* variant: a stale decision is an event like others
    IF mode = "passive" THEN r \in Immediate
    ELSE r = "urgent" \/ r \in heard

Hears(r) ==
    IF mode = "passive" THEN r \in Immediate
    ELSE r \in {"urgent", "internal"} \/ r \in heard

Offer(R) ==
    /\ pending' = pending \cup {r \in R : Hears(r)}
    /\ news' = news \cup (R \cap {"critical", "internal"})

(* TriggerEngine.configure with the events a decision asks for.             *)
Configured(asked) == asked \cup {"critical"}

-----------------------------------------------------------------------------
(* What pump_events applies: the outcomes of lanes and of the M4 broker.    *)
(* It is called by tick, by the Director task while it waits for the app    *)
(* server, and by _recover_director; never between a passive snapshot and   *)
(* the commit of its decision.                                              *)
Pumping ==
    /\ phase = "up"
    /\ \/ task = "scheduled"
       \/ task = "asking" /\ mode = "llm"
       \/ task = "failed" /\ mode = "llm" /\ recovery

PumpLeaves == UNCHANGED <<plan, cycle, heard, loop, trig, last>>

(* complete_lane_births *)
LaneBorn ==
    /\ Pumping /\ lane = "gone"
    /\ lane' = "live" /\ moved' = (task = "asking") /\ fresh' = FALSE
    /\ UNCHANGED <<camp, cand, pending, news>> /\ PumpLeaves

(* apply_lane_action_outcome, apply_multi_lane_action_outcome *)
LaneRevised ==
    /\ Pumping /\ lane = "live"
    /\ moved' = (task = "asking") /\ fresh' = FALSE
    /\ UNCHANGED <<camp, lane, cand, pending, news>> /\ PumpLeaves

(* record_lane_exit: only a failure moves the campaign's version and is a   *)
(* reason for a review.                                                     *)
LaneFails ==
    /\ Pumping /\ lane = "live"
    /\ lane' = "gone" /\ fresh' = FALSE
    /\ Offer({"critical"})
    /\ UNCHANGED <<camp, moved, cand>> /\ PumpLeaves

LaneExits ==
    /\ Pumping /\ lane = "live"
    /\ lane' = "gone"
    /\ UNCHANGED <<camp, fresh, moved, cand, pending, news>> /\ PumpLeaves

(* CandidateArchive.observe_checkpoint: a new global best is retained.      *)
CandidateRetained ==
    /\ Pumping /\ cand = "none"
    /\ cand' = "retained"
    /\ Offer({"optional"})
    /\ UNCHANGED <<camp, fresh, moved, lane>> /\ PumpLeaves

(* queue_verification_action *)
CandidateQueued ==
    /\ Pumping /\ cand = "retained"
    /\ cand' = "queued" /\ fresh' = FALSE
    /\ UNCHANGED <<camp, moved, lane, pending, news>> /\ PumpLeaves

(* complete_verification_job without a certificate: the candidate is        *)
(* rejected, or retained again when the outcome is unknown.                 *)
CandidateDecided ==
    /\ Pumping /\ cand = "queued"
    /\ cand' \in {"none", "retained"}
    /\ Offer({"critical"})
    /\ UNCHANGED <<camp, fresh, moved, lane>> /\ PumpLeaves

(* complete_verification_job with the certificate of a counterexample.      *)
CandidateCertified ==
    /\ Pumping /\ cand = "queued"
    /\ cand' = "none"
    /\ IF camp \in {"succeeded", "completed_deadline_reached", "stopped_by_operator"}
       THEN UNCHANGED <<camp, fresh>>
       ELSE camp' = "succeeded" /\ fresh' = FALSE
    /\ Offer({"critical"})
    /\ UNCHANGED <<moved, lane>> /\ PumpLeaves

PumpEvents ==
    \/ LaneBorn \/ LaneRevised \/ LaneFails \/ LaneExits
    \/ CandidateRetained \/ CandidateQueued \/ CandidateDecided \/ CandidateCertified

(* Another durable writer, while a decision is being made: it moves the     *)
(* campaign's version, takes action ids of the workspace, or changes the    *)
(* candidate's row.                                                         *)
OtherWriter ==
    /\ phase = "up" /\ task = "asking"
    /\ \/ fresh' = FALSE /\ UNCHANGED <<clash, cand>>
       \/ mode = "llm" /\ clash' = TRUE /\ UNCHANGED <<fresh, cand>>
       \/ cand = "retained" /\ cand' = "none" /\ UNCHANGED <<fresh, clash>>
    /\ UNCHANGED <<camp, moved, lane, trig, plan, task, replan, snap, ahead,
                   engine, loop, history>>

-----------------------------------------------------------------------------
(* _run_cycle up to its first await: publish a snapshot, pin its            *)
(* checkpoints, record the trigger, ask the provider.                       *)
Publish ==
    /\ task' = "asking"
    /\ snap' = (IF lane = "live" THEN {"lane"} ELSE {})
               \cup (IF cand = "retained" THEN {"candidate"} ELSE {})
    /\ fresh' = TRUE /\ moved' = FALSE /\ clash' = FALSE
    /\ trig' = "committed"
    /\ last' = {} /\ news' = {}
    /\ UNCHANGED <<camp, lane, cand, plan, ahead, heard, loop>>

(* tick: no review is due.  Debounce and minimum interval hold back only    *)
(* reasons that are not immediate, and a passive review nothing.            *)
TickIdle ==
    /\ phase = "up" /\ task = "scheduled"
    /\ pending \cap Immediate = {}
    /\ mode = "passive" => pending = {}
    /\ task' = "idle"
    /\ UNCHANGED <<rows, plan, replan, snap, clash, ahead, engine, loop, history>>

(* tick: a review is due, for a pending reason, the maximum interval or the *)
(* candidate delta; consume takes all of the pending reasons.               *)
TickCycle ==
    /\ phase = "up" /\ task = "scheduled"
    /\ pending' = {} /\ replan' = FALSE
    /\ Publish

(* run_due_cycle: the one fresh replan.                                     *)
Replan ==
    /\ phase = "up" /\ task = "replan"
    /\ replan' = TRUE
    /\ UNCHANGED pending
    /\ Publish

(* A decision is a set of actions: what each one targets, and whether its   *)
(* id and idempotency key are new, repeat a recorded key, or clash with an  *)
(* id taken since the snapshot.  validate_decision has checked that the     *)
(* snapshot offers the targets; the scheduler's ids are always new.  Two    *)
(* kinds of actions in one decision give every combination of statuses the  *)
(* code tells apart.                                                        *)
Actions == [id : {"new", "repeat", "clash"}, target : {"none", "lane", "candidate"}]

PossibleDecisions == {{d, e} : d \in Actions, e \in Actions}

Decisions ==
    {D \in PossibleDecisions :
        \A d \in D : /\ d.target \in snap \cup {"none"}
                     /\ d.id = "clash" => clash
                     /\ mode = "passive" => d.id = "new"}

(* commit_decision_batch: the status of one action.                         *)
StatusUnchecked(d) ==      \* variant: the lane's row is not looked at
    IF d.id = "repeat" THEN "rejected_duplicate_idempotency"
    ELSE IF ~fresh THEN "rejected_stale_campaign"
    ELSE IF d.target = "candidate" /\ cand # "retained" THEN "stale_target"
    ELSE "accepted"

Status(d) ==
    IF d.id = "repeat" THEN "rejected_duplicate_idempotency"
    ELSE IF d.target = "lane" /\ (lane # "live" \/ moved) THEN "rejected_stale_state"
    ELSE IF ~fresh THEN "rejected_stale_campaign"
    ELSE IF d.target = "candidate" /\ cand # "retained" THEN "stale_target"
    ELSE "accepted"

Collides(D) == \E d \in D : d.id = "clash"
Statuses(D) == IF Collides(D) THEN {"rejected_action_id_collision"} ELSE {Status(d) : d \in D}

(* A batch with a collision is refused whole; so is a scheduler's batch     *)
(* with any refused action.                                                 *)
Refused(D) == Collides(D) \/ (mode = "passive" /\ Statuses(D) # {"accepted"})

CommitDecisionBatch(D) ==
    /\ last' = IF Refused(D) THEN {} ELSE {d.target : d \in {e \in D : Status(e) = "accepted"}}
    /\ trig' = IF ~Refused(D) THEN "decided"
               ELSE IF mode = "passive" THEN "rejected_invalid" ELSE trig

(* finish_campaign *)
FinishCampaign(kind) ==
    camp' = IF camp \in Ended \ {"budget_exhausted"} THEN camp ELSE kind

(* _run_cycle and run_due_cycle after a Director's answer that was valid,   *)
(* perhaps after one repair turn.                                           *)
AnswerDirector(D, asked) ==
    LET again == Statuses(D) \cap {"stale_target", "rejected_action_id_collision"} # {}
        stale == Statuses(D) \cap {"rejected_stale_campaign", "rejected_stale_state"} # {}
    IN
    /\ phase = "up" /\ task = "asking" /\ mode = "llm"
    /\ CommitDecisionBatch(D)
    /\ heard' = Configured(asked)
    /\ Offer(IF stale THEN {"internal"} ELSE {})
    /\ fresh' = FALSE
    /\ task' = IF again /\ ~replan THEN "replan" ELSE "done"
    /\ IF again /\ replan THEN FinishCampaign("director_replan_exhausted") ELSE camp' = camp
    /\ moved' = FALSE /\ snap' = {} /\ clash' = FALSE
    /\ UNCHANGED <<lane, cand, plan, replan, ahead, loop>>

(* The same for the passive scheduler, whose memory moves on when it        *)
(* decides and is rewound when the whole batch was stale.  A state that is  *)
(* not the committed one is refused by _insert_passive_scheduler_decision.  *)
AheadAfter(refused, rewound) == refused /\ ~rewound

AnswerScheduler(D) ==
    LET rewound == Statuses(D) = {"rejected_stale_campaign"} /\ ~replan IN
    /\ phase = "up" /\ task = "asking" /\ mode = "passive" /\ ~ahead
    /\ CommitDecisionBatch(D)
    /\ ahead' = AheadAfter(Refused(D), rewound)
    /\ fresh' = FALSE
    /\ task' = IF ~Refused(D) THEN "done" ELSE IF rewound THEN "replan" ELSE "failed"
    /\ moved' = FALSE /\ snap' = {} /\ clash' = FALSE
    /\ UNCHANGED <<camp, lane, cand, plan, replan, engine, news, loop>>

(* The answer is invalid after the repair turn, or the scheduler's output   *)
(* is: RuntimeError or PassiveSchedulerFault.                               *)
AnswerInvalid ==
    /\ phase = "up" /\ task = "asking"
    /\ trig' = "rejected_invalid" /\ task' = "failed"
    /\ fresh' = FALSE /\ moved' = FALSE /\ snap' = {} /\ clash' = FALSE
    /\ UNCHANGED <<camp, lane, cand, plan, replan, ahead, engine, loop, history>>

(* The provider raises: a lost server, a timeout.                           *)
AnswerFails ==
    /\ phase = "up" /\ task = "asking"
    /\ trig' = "failed" /\ task' = "failed"
    /\ fresh' = FALSE /\ moved' = FALSE /\ snap' = {} /\ clash' = FALSE
    /\ UNCHANGED <<camp, lane, cand, plan, replan, ahead, engine, loop, history>>

Answers ==
    \/ \E D \in Decisions :
          \/ AnswerScheduler(D)
          \/ \E asked \in SUBSET {"optional"} : AnswerDirector(D, asked)
    \/ AnswerInvalid \/ AnswerFails

-----------------------------------------------------------------------------
(* The main loop.  It runs when the task has ended, when there is none, and *)
(* while the task waits for the app server.                                 *)
LoopLeaves == UNCHANGED <<fresh, moved, lane, cand, trig, plan, replan, snap, clash, ahead, history>>

TurnsOfCycle == IF replan THEN 2 ELSE 1

ReapTask ==
    /\ phase = "up" /\ task \in {"done", "idle"}
    /\ used' = IF task = "done" /\ mode = "llm" THEN used + TurnsOfCycle ELSE used
    /\ task' = "none" /\ replan' = FALSE /\ last' = {}
    /\ UNCHANGED <<camp, fresh, moved, lane, cand, trig, plan, snap, clash, ahead,
                   phase, control, engine, news>>

(* _recover_director restarts the app server, in as many attempts as the    *)
(* plan allows.                                                             *)
RecoverDirector ==
    /\ phase = "up" /\ task = "failed" /\ mode = "llm" /\ recovery
    /\ task' = "none"
    /\ Offer({"urgent"})
    /\ UNCHANGED <<rows, plan, replan, snap, clash, ahead, heard, loop, last>>

(* The exception of the task, or of a recovery that failed, leaves the      *)
(* loop: paused_fault, unless the campaign has ended.                       *)
FaultStateAlways == "paused_fault"      \* variant: a fault overwrites any state
FaultState == IF camp \in Ended THEN camp ELSE "paused_fault"

Raise ==
    /\ phase = "up" /\ task = "failed"
    /\ camp' = FaultState
    /\ phase' = "ending"
    /\ UNCHANGED <<task, used, control, engine>> /\ LoopLeaves

AtLoop == phase = "up" /\ (task = "none" \/ (task = "asking" /\ mode = "llm"))

Leave(state) ==
    /\ camp' = state
    /\ phase' = "ending"
    /\ UNCHANGED <<task, used, control, engine>> /\ LoopLeaves

LoopEnds == AtLoop /\ camp \in StopStates /\ Leave(camp)

Continues == AtLoop /\ camp \notin StopStates

LoopStop == Continues /\ control = "STOP" /\ Leave("stopped_by_operator")

LoopPause == Continues /\ control = "PAUSE" /\ Leave("paused_by_operator")

(* The clock is read in this step: the deadline may have passed or not.     *)
LoopDeadline == Continues /\ control = "none" /\ Leave("completed_deadline_reached")

BudgetLeft == mode = "passive" \/ used < MaxTurns

LoopBudget ==
    /\ Continues /\ control = "none"
    /\ task = "none" /\ ~BudgetLeft
    /\ Leave("budget_exhausted")

LoopScheduleFirst ==      \* variant: a command waits while ticks are scheduled
    /\ Continues
    /\ task = "none" /\ BudgetLeft
    /\ task' = "scheduled"
    /\ UNCHANGED <<camp, loop, engine>> /\ LoopLeaves

LoopSchedule ==
    /\ Continues /\ control = "none"
    /\ task = "none" /\ BudgetLeft
    /\ task' = "scheduled"
    /\ UNCHANGED <<camp, loop, engine>> /\ LoopLeaves

(* What dies with the process.                                              *)
ProcessGone ==
    /\ phase' = "down" /\ task' = "none" /\ replan' = FALSE /\ snap' = {} /\ clash' = FALSE
    /\ ahead' = FALSE /\ pending' = {} /\ heard' = Events /\ used' = 0 /\ control' = "none"
    /\ last' = {} /\ news' = {}
    /\ fresh' = FALSE /\ moved' = FALSE

(* finally: the task is cancelled, which fails its trigger; then the        *)
(* processes are shut down and the attempt is recorded.                     *)
Finally ==
    /\ phase = "ending"
    /\ trig' = IF task = "asking" THEN "failed" ELSE trig
    /\ ProcessGone
    /\ UNCHANGED <<camp, lane, cand, plan>>

Loop ==
    \/ ReapTask \/ RecoverDirector \/ Raise
    \/ LoopEnds \/ LoopStop \/ LoopPause \/ LoopDeadline \/ LoopBudget \/ LoopSchedule
    \/ Finally

-----------------------------------------------------------------------------
(* research-campaign control: a command the loop has not seen.              *)
Command(c) ==
    /\ phase = "up" /\ control = "none"
    /\ control' = c
    /\ UNCHANGED <<rows, plan, cycle, engine, phase, used, history>>

Crash ==
    /\ phase \in {"up", "ending"}
    /\ ProcessGone
    /\ UNCHANGED <<camp, lane, cand, trig, plan>>

(* resume_campaign, from a resumable state or after a host restart; a new   *)
(* attempt may choose another mode and starts from a bootstrap trigger and  *)
(* the scheduler's committed state.                                         *)
Resume(m) ==
    /\ phase = "down" /\ attempt < MaxAttempts
    /\ camp \in Resumable
    /\ camp' = "running" /\ attempt' = attempt + 1 /\ mode' = m
    /\ phase' = "up" /\ pending' = {"urgent"} /\ trig' = "none"
    /\ UNCHANGED <<fresh, moved, lane, cand, recovery, cycle, heard, used, control, history>>

Next ==
    \/ PumpEvents \/ OtherWriter
    \/ TickIdle \/ TickCycle \/ Replan \/ Answers
    \/ Loop
    \/ \E c \in {"STOP", "PAUSE"} : Command(c)
    \/ Crash
    \/ \E m \in Modes : Resume(m)

Spec == Init /\ [][Next]_vars

(* The coroutines are scheduled by one event loop.  A provider that never   *)
(* answers is timed out: weak fairness of AnswerFails says no more than     *)
(* that the task does not wait for ever.  A pending reason that is held     *)
(* back by the debounce or the minimum interval becomes due as time passes: *)
(* strong fairness of the tick that takes it.  The maximum interval is not  *)
(* relied on, and nothing is assumed of lanes, candidates, operators or     *)
(* other writers.                                                           *)
FairSpec ==
    /\ Spec
    /\ WF_vars(Loop) /\ WF_vars(TickIdle \/ TickCycle) /\ SF_vars(TickCycle /\ pending # {})
    /\ WF_vars(Replan) /\ WF_vars(AnswerFails)

-----------------------------------------------------------------------------
(* The type of every variable.                                             *)
TypeOK ==
    /\ camp \in StopStates \cup {"running"} /\ fresh \in BOOLEAN /\ moved \in BOOLEAN
    /\ lane \in {"live", "gone"} /\ cand \in {"none", "retained", "queued"}
    /\ trig \in {"none", "committed", "decided", "failed", "rejected_invalid"}
    /\ recovery \in BOOLEAN /\ attempt \in 1..MaxAttempts /\ mode \in Modes
    /\ phase \in {"up", "ending", "down"}
    /\ task \in {"none", "scheduled", "idle", "asking", "replan", "done", "failed"}
    /\ replan \in BOOLEAN /\ snap \subseteq {"lane", "candidate"}
    /\ clash \in BOOLEAN /\ ahead \in BOOLEAN
    /\ pending \subseteq Reasons /\ heard \subseteq Events
    /\ used \in 0..(MaxTurns + 1)
    /\ control \in {"none", "STOP", "PAUSE"}
    /\ last \subseteq {"none", "lane", "candidate"} /\ news \subseteq {"critical", "internal"}

(* An accepted action acts on what its author saw: no campaign change since *)
(* the snapshot, its lane alive at the version the snapshot shows, its      *)
(* candidate still retained.  commit_decision_batch; a lane that ends by    *)
(* itself does not move the campaign's version.                             *)
AcceptedTargetsCurrent ==
    [][last' # last /\ last' # {} =>
         /\ fresh
         /\ "lane" \in last' => lane = "live" /\ ~moved
         /\ "candidate" \in last' => cand = "retained"]_vars

(* Within an attempt an outcome stands: a fault, a deadline, the operator   *)
(* or an exhausted replan never replaces it, only a certificate may.  A     *)
(* certified campaign stays certified in every later step.                  *)
OutcomeLatched ==
    [][camp' # camp /\ camp \in Ended =>
         camp # "succeeded" /\ (camp' = "succeeded" \/ attempt' # attempt)]_vars

(* Every reason for a review is followed by a snapshot that reflects it,    *)
(* unless the attempt ends: failures and verdicts that arrive while the     *)
(* Director thinks, and stale decisions, without waiting for the maximum    *)
(* interval.                                                                *)
EventsReviewed == news # {} ~> (news = {} \/ phase = "down")

(* A STOP that the loop has not read ends the attempt, whatever the         *)
(* Director is doing and however often its provider has to be restarted.    *)
StopHonoured == control = "STOP" ~> phase = "down"
=============================================================================
