------------------------- MODULE DirectorLoopProofs --------------------------
(***************************************************************************)
(* Machine-checked proofs about DirectorLoop, for every turn budget and    *)
(* any number of attempts: a decision acts only on what its author saw, an *)
(* outcome stands, the budget is overdrawn by at most the turn of a        *)
(* replan, and the passive scheduler decides from its committed state.     *)
(***************************************************************************)
EXTENDS DirectorLoop, TLAPS

(* A cycle is started with budget left, and nothing runs in a process that *)
(* is gone.                                                                *)
Budgeted ==
    /\ mode = "llm" /\ phase = "up" /\ task # "none" => used < MaxTurns
    /\ phase = "down" => task = "none"

(* A campaign whose budget is exhausted has left its loop.                 *)
BudgetEnds == camp = "budget_exhausted" => phase # "up"

(* The passive scheduler's memory is ahead of its committed state only     *)
(* when its task has failed, which ends the attempt.                       *)
SchedulerSound ==
    ahead => mode = "passive" /\ (phase = "ending" \/ (phase = "up" /\ task = "failed"))

IInv == TypeOK /\ Budgeted /\ BudgetEnds /\ SchedulerSound

-----------------------------------------------------------------------------
(* The types, the flags apart from the rest.                               *)
Flags ==
    /\ fresh \in BOOLEAN /\ moved \in BOOLEAN /\ recovery \in BOOLEAN
    /\ replan \in BOOLEAN /\ clash \in BOOLEAN /\ ahead \in BOOLEAN

Data ==
    /\ camp \in StopStates \cup {"running"}
    /\ lane \in {"live", "gone"} /\ cand \in {"none", "retained", "queued"}
    /\ trig \in {"none", "committed", "decided", "failed", "rejected_invalid"}
    /\ attempt \in 1..MaxAttempts /\ mode \in Modes
    /\ phase \in {"up", "ending", "down"}
    /\ task \in {"none", "scheduled", "idle", "asking", "replan", "done", "failed"}
    /\ snap \subseteq {"lane", "candidate"}
    /\ pending \subseteq Reasons /\ heard \subseteq Events
    /\ used \in 0..(MaxTurns + 1)
    /\ control \in {"none", "STOP", "PAUSE"}
    /\ last \subseteq {"none", "lane", "candidate"} /\ news \subseteq {"critical", "internal"}

(* The type invariant is its flags and its data.                           *)
LEMMA TypeParts == TypeOK <=> Flags /\ Data
BY DEF TypeOK, Flags, Data

(* The same for the next state.                                            *)
LEMMA TypePartsNext == Flags' /\ Data' => TypeOK'
BY DEF TypeOK, Flags, Data

(* Every step leaves the flags Boolean.                                    *)
LEMMA FlagsKept ==
    ASSUME Flags, Next
    PROVE  Flags'
<1>1. CASE PumpEvents
  <2>1. UNCHANGED <<recovery, replan, clash, ahead>>
    BY <1>1 DEF PumpEvents, LaneBorn, LaneRevised, LaneExits, CandidateQueued, LaneFails, CandidateRetained,
       CandidateDecided, CandidateCertified, PumpLeaves, plan, cycle
  <2>2. fresh' = fresh \/ fresh' = FALSE
    BY <1>1 DEF PumpEvents, LaneBorn, LaneRevised, LaneExits, CandidateQueued, LaneFails, CandidateRetained,
       CandidateDecided, CandidateCertified
  <2>3. moved' = moved \/ moved' \in BOOLEAN
    BY <1>1 DEF PumpEvents, LaneBorn, LaneRevised, LaneExits, CandidateQueued, LaneFails, CandidateRetained,
       CandidateDecided, CandidateCertified
  <2> QED
    BY <2>1, <2>2, <2>3, Zenon DEF Flags
<1>2. CASE OtherWriter
  <2>1. UNCHANGED <<recovery, replan, ahead, moved>>
    BY <1>2 DEF OtherWriter, plan
  <2>2. fresh' = fresh \/ fresh' = FALSE
    BY <1>2 DEF OtherWriter
  <2>3. clash' = clash \/ clash' = TRUE
    BY <1>2 DEF OtherWriter
  <2> QED
    BY <2>1, <2>2, <2>3, Zenon DEF Flags
<1>3. CASE TickIdle
  BY <1>3 DEF TickIdle, rows, plan, Flags
<1>4. CASE TickCycle \/ Replan
  <2>1. /\ UNCHANGED <<recovery, ahead>>
        /\ fresh' = TRUE /\ moved' = FALSE /\ clash' = FALSE
    BY <1>4 DEF TickCycle, Replan, Publish, plan
  <2>2. replan' = TRUE \/ replan' = FALSE
    BY <1>4 DEF TickCycle, Replan
  <2> QED
    BY <2>1, <2>2, Zenon DEF Flags
<1>5. CASE Answers
  <2>1. /\ UNCHANGED <<recovery, replan>>
        /\ fresh' = FALSE /\ moved' = FALSE /\ clash' = FALSE
    BY <1>5 DEF Answers, AnswerInvalid, AnswerFails, AnswerScheduler, AnswerDirector, plan
  <2>2. ahead' = ahead \/ ahead' \in BOOLEAN
    BY <1>5 DEF Answers, AnswerInvalid, AnswerFails, AnswerScheduler, AnswerDirector, AheadAfter
  <2> QED
    BY <2>1, <2>2, Zenon DEF Flags
<1>6. CASE Loop
  <2>1. CASE Finally
    <3>1. /\ UNCHANGED recovery
          /\ fresh' = FALSE /\ moved' = FALSE /\ clash' = FALSE /\ replan' = FALSE /\ ahead' = FALSE
      BY <2>1 DEF Finally, ProcessGone, plan
    <3> QED
      BY <3>1, Zenon DEF Flags
  <2>2. CASE ReapTask
    <3>1. UNCHANGED <<fresh, moved, recovery, clash, ahead>> /\ replan' = FALSE
      BY <2>2 DEF ReapTask, plan
    <3> QED
      BY <3>1, Zenon DEF Flags
  <2>3. CASE ~Finally /\ ~ReapTask
    <3>1. UNCHANGED <<fresh, moved, recovery, replan, clash, ahead>>
      BY <1>6, <2>3 DEF Loop, RecoverDirector, Raise, LoopEnds, LoopStop, LoopPause, LoopDeadline, LoopBudget,
         LoopSchedule, Leave, LoopLeaves, rows, plan
    <3> QED
      BY <3>1 DEF Flags
  <2> QED
    BY <2>1, <2>2, <2>3
<1>7. CASE Crash
  <2>1. /\ UNCHANGED recovery
        /\ fresh' = FALSE /\ moved' = FALSE /\ clash' = FALSE /\ replan' = FALSE /\ ahead' = FALSE
    BY <1>7 DEF Crash, ProcessGone, plan
  <2> QED
    BY <2>1, Zenon DEF Flags
<1>8. CASE (\E c \in {"STOP", "PAUSE"} : Command(c)) \/ (\E m \in Modes : Resume(m))
  <2>1. UNCHANGED <<fresh, moved, recovery, replan, clash, ahead>>
    BY <1>8 DEF Command, Resume, rows, plan, cycle
  <2> QED
    BY <2>1 DEF Flags
<1> QED
  BY <1>1, <1>2, <1>3, <1>4, <1>5, <1>6, <1>7, <1>8 DEF Next

-----------------------------------------------------------------------------
(* What each coroutine does to the types and to the rest of the invariant. *)

(* TriggerEngine.offer.                                                    *)
LEMMA OfferTyped ==
    ASSUME Data, NEW R \in SUBSET Reasons, Offer(R)
    PROVE  pending' \subseteq Reasons /\ news' \subseteq {"critical", "internal"}
BY DEF Offer, Data

(* pump_events, and another writer.                                        *)
LEMMA PumpTyped ==
    ASSUME Data, PumpEvents \/ OtherWriter
    PROVE  Data'
<1>1. CASE LaneBorn \/ LaneRevised \/ LaneExits \/ CandidateQueued
  <2>1. /\ UNCHANGED <<camp, trig, attempt, mode, phase, task, snap, pending, heard, used, control, last, news>>
        /\ lane' \in {lane, "live", "gone"} /\ cand' \in {cand, "queued"}
    BY <1>1 DEF LaneBorn, LaneRevised, LaneExits, CandidateQueued, PumpLeaves, plan, cycle, loop
  <2> QED
    BY <2>1 DEF Data
<1>2. CASE LaneFails \/ CandidateRetained \/ CandidateDecided
  <2>1. pending' \subseteq Reasons /\ news' \subseteq {"critical", "internal"}
    BY <1>2, OfferTyped DEF LaneFails, CandidateRetained, CandidateDecided, Reasons
  <2>2. /\ UNCHANGED <<camp, trig, attempt, mode, phase, task, snap, heard, used, control, last>>
        /\ lane' \in {lane, "gone"} /\ cand' \in {cand, "none", "retained"}
    BY <1>2 DEF LaneFails, CandidateRetained, CandidateDecided, PumpLeaves, plan, cycle, loop
  <2> QED
    BY <2>1, <2>2 DEF Data
<1>3. CASE CandidateCertified
  <2>1. pending' \subseteq Reasons /\ news' \subseteq {"critical", "internal"}
    BY <1>3, OfferTyped DEF CandidateCertified, Reasons
  <2> QED
    BY <1>3, <2>1 DEF CandidateCertified, PumpLeaves, plan, cycle, loop, StopStates, Ended, Data
<1>4. CASE OtherWriter
  BY <1>4 DEF OtherWriter, plan, engine, loop, history, Data
<1> QED
  BY <1>1, <1>2, <1>3, <1>4 DEF PumpEvents

(* An event or another writer never starts a cycle and ends a campaign     *)
(* only with a certificate.                                                *)
LEMMA PumpSound ==
    ASSUME IInv, PumpEvents \/ OtherWriter
    PROVE  Budgeted' /\ BudgetEnds' /\ SchedulerSound'
<1>1. UNCHANGED <<phase, used, mode, task, ahead>> /\ (camp' = camp \/ camp' = "succeeded")
  BY DEF PumpEvents, OtherWriter, LaneBorn, LaneRevised, LaneExits, CandidateQueued, LaneFails, CandidateRetained,
     CandidateDecided, CandidateCertified, PumpLeaves, plan, cycle, loop
<1> QED
  BY <1>1 DEF IInv, Budgeted, BudgetEnds, SchedulerSound

(* tick and run_due_cycle, up to the question.                             *)
LEMMA TickTyped ==
    ASSUME Data, TickIdle \/ TickCycle \/ Replan
    PROVE  Data'
BY DEF TickIdle, TickCycle, Replan, Publish, rows, plan, engine, loop, history, Data

(* A tick that publishes or replans continues a cycle that was started     *)
(* with budget left.                                                       *)
LEMMA TickSound ==
    ASSUME IInv, TickIdle \/ TickCycle \/ Replan
    PROVE  Budgeted' /\ BudgetEnds' /\ SchedulerSound'
<1>1. /\ UNCHANGED <<camp, phase, used, mode, ahead>> /\ phase = "up"
      /\ task \in {"scheduled", "replan"} /\ task' # "none"
  BY DEF TickIdle, TickCycle, Replan, Publish, rows, plan, loop
<1> QED
  BY <1>1 DEF IInv, Budgeted, BudgetEnds, SchedulerSound

(* commit_decision_batch.                                                  *)
LEMMA BatchTyped ==
    ASSUME Data, NEW D \in Decisions, CommitDecisionBatch(D)
    PROVE  /\ last' \subseteq {"none", "lane", "candidate"}
           /\ trig' \in {"none", "committed", "decided", "failed", "rejected_invalid"}
<1>1. \A d \in D : d.target \in {"none", "lane", "candidate"}
  BY DEF Decisions, PossibleDecisions, Actions
<1>2. last' \subseteq {d.target : d \in D}
  BY DEF CommitDecisionBatch
<1> QED
  BY <1>1, <1>2 DEF CommitDecisionBatch, Data

(* The cycle after the answer.                                             *)
LEMMA AnswersTyped ==
    ASSUME Data, Answers
    PROVE  Data'
<1>1. CASE AnswerInvalid \/ AnswerFails
  BY <1>1 DEF AnswerInvalid, AnswerFails, plan, engine, loop, history, Data
<1>2. ASSUME NEW D \in Decisions, AnswerScheduler(D)
      PROVE  Data'
  <2>1. /\ last' \subseteq {"none", "lane", "candidate"}
        /\ trig' \in {"none", "committed", "decided", "failed", "rejected_invalid"}
    BY <1>2, BatchTyped DEF AnswerScheduler
  <2>2. heard' = heard
    BY <1>2 DEF AnswerScheduler, engine
  <2>3. task' \in {"done", "replan", "failed"}
    BY <1>2 DEF AnswerScheduler
  <2>4. /\ UNCHANGED <<camp, lane, cand, recovery, attempt, mode, replan, pending, heard, news, phase, used, control>>
        /\ fresh' = FALSE /\ moved' = FALSE /\ snap' = {} /\ clash' = FALSE
    BY <1>2 DEF AnswerScheduler, plan, engine, loop
  <2> QED
    BY <2>1, <2>2, <2>3, <2>4 DEF Data
<1>3. ASSUME NEW D \in Decisions, NEW asked \in SUBSET {"optional"}, AnswerDirector(D, asked)
      PROVE  Data'
  <2>1. /\ last' \subseteq {"none", "lane", "candidate"}
        /\ trig' \in {"none", "committed", "decided", "failed", "rejected_invalid"}
    BY <1>3, BatchTyped DEF AnswerDirector
  <2>2. /\ task' \in {"replan", "done"} /\ heard' = asked \cup {"critical"}
        /\ pending' \subseteq Reasons /\ news' \subseteq {"critical", "internal"}
    BY <1>3 DEF AnswerDirector, Configured, Offer, Reasons, Data
  <2>3. camp' = camp \/ camp' = "director_replan_exhausted"
    BY <1>3 DEF AnswerDirector, FinishCampaign
  <2>4. /\ UNCHANGED <<lane, cand, recovery, attempt, mode, replan, ahead, phase, used, control>>
        /\ fresh' = FALSE /\ moved' = FALSE /\ snap' = {} /\ clash' = FALSE
    BY <1>3 DEF AnswerDirector, plan, loop
  <2> QED
    BY <2>1, <2>2, <2>3, <2>4 DEF Events, StopStates, Ended, Data
<1> QED
  BY <1>1, <1>2, <1>3 DEF Answers

(* An answer ends its cycle; a scheduler that is ahead of its committed    *)
(* state has failed (_insert_passive_scheduler_decision).                  *)
LEMMA AnswersSound ==
    ASSUME IInv, Answers
    PROVE  Budgeted' /\ BudgetEnds' /\ SchedulerSound'
<1>1. /\ UNCHANGED <<phase, used, mode>> /\ phase = "up" /\ task = "asking" /\ task' # "none"
      /\ camp' = camp \/ camp' = "director_replan_exhausted"
  BY DEF Answers, AnswerInvalid, AnswerFails, AnswerScheduler, AnswerDirector, FinishCampaign, plan, loop
<1>2. ahead' => ahead \/ (mode = "passive" /\ task' = "failed")
  <2>1. ASSUME NEW D \in Decisions, AnswerScheduler(D), ahead'
        PROVE  mode = "passive" /\ task' = "failed"
    <3>1. Refused(D) /\ ~(Statuses(D) = {"rejected_stale_campaign"} /\ ~replan)
      BY <2>1 DEF AnswerScheduler, AheadAfter
    <3> QED
      BY <2>1, <3>1 DEF AnswerScheduler
  <2> QED
    BY <2>1 DEF Answers, AnswerInvalid, AnswerFails, AnswerDirector
<1> QED
  BY <1>1, <1>2 DEF IInv, Budgeted, BudgetEnds, SchedulerSound

(* The main loop.                                                          *)
LEMMA LoopTyped ==
    ASSUME Data, Budgeted, Loop
    PROVE  Data'
<1>1. CASE ReapTask
  <2>1. used' \in 0 .. (MaxTurns + 1)
    BY <1>1, BoundsAssumption DEF ReapTask, TurnsOfCycle, Budgeted, Data
  <2> QED
    BY <1>1, <2>1 DEF ReapTask, plan, engine, Data
<1>2. CASE RecoverDirector
  <2>1. pending' \subseteq Reasons /\ news' \subseteq {"critical", "internal"}
    BY <1>2, OfferTyped DEF RecoverDirector, Reasons
  <2> QED
    BY <1>2, <2>1 DEF RecoverDirector, rows, plan, loop, Data
<1>3. CASE Raise
  BY <1>3 DEF Raise, FaultState, LoopLeaves, plan, engine, history, StopStates, Data
<1>4. ASSUME NEW state \in StopStates, Leave(state)
      PROVE  Data'
  BY <1>4 DEF Leave, LoopLeaves, plan, engine, history, Data
<1>5. CASE LoopEnds \/ LoopStop \/ LoopPause \/ LoopDeadline \/ LoopBudget
  BY <1>4, <1>5 DEF LoopEnds, LoopStop, LoopPause, LoopDeadline, LoopBudget, StopStates, Ended
<1>6. CASE LoopSchedule
  BY <1>6 DEF LoopSchedule, LoopLeaves, plan, engine, loop, history, Data
<1>7. CASE Finally
  BY <1>7, BoundsAssumption DEF Finally, ProcessGone, plan, Events, Data
<1> QED
  BY <1>1, <1>2, <1>3, <1>5, <1>6, <1>7 DEF Loop

(* The loop starts a cycle only with budget left, and leaves when none is. *)
LEMMA LoopSound ==
    ASSUME IInv, Loop
    PROVE  Budgeted' /\ BudgetEnds' /\ SchedulerSound'
<1>1. CASE ReapTask \/ RecoverDirector
  <2>1. UNCHANGED <<camp, phase, mode, ahead>> /\ phase = "up" /\ task' = "none"
    BY <1>1 DEF ReapTask, RecoverDirector, rows, plan, loop
  <2>2. task # "failed" \/ mode = "llm"
    BY <1>1 DEF ReapTask, RecoverDirector
  <2> QED
    BY <2>1, <2>2 DEF IInv, Budgeted, BudgetEnds, SchedulerSound
<1>2. CASE Raise \/ LoopEnds \/ LoopStop \/ LoopPause \/ LoopDeadline \/ LoopBudget
  <2>1. phase' = "ending" /\ UNCHANGED <<mode, ahead>>
    BY <1>2 DEF Raise, LoopEnds, LoopStop, LoopPause, LoopDeadline, LoopBudget, Leave, LoopLeaves, plan
  <2> QED
    BY <2>1 DEF IInv, Budgeted, BudgetEnds, SchedulerSound
<1>3. CASE LoopSchedule
  <2>1. /\ UNCHANGED <<camp, phase, used, mode, ahead>> /\ phase = "up" /\ task = "none"
        /\ mode = "passive" \/ used < MaxTurns
    BY <1>3 DEF LoopSchedule, Continues, AtLoop, BudgetLeft, LoopLeaves, plan, loop
  <2> QED
    BY <2>1 DEF IInv, Budgeted, BudgetEnds, SchedulerSound
<1>4. CASE Finally
  BY <1>4 DEF Finally, ProcessGone, Budgeted, BudgetEnds, SchedulerSound
<1> QED
  BY <1>1, <1>2, <1>3, <1>4 DEF Loop

(* Commands, crashes and resumes.                                          *)
Outside ==
    \/ \E c \in {"STOP", "PAUSE"} : Command(c)
    \/ Crash
    \/ \E m \in Modes : Resume(m)

(* Commands, crashes and resumes keep the types.                           *)
LEMMA OutsideTyped ==
    ASSUME Data, Outside
    PROVE  Data'
<1>1. ASSUME NEW c \in {"STOP", "PAUSE"}, Command(c) PROVE Data'
  BY <1>1 DEF Command, rows, plan, cycle, engine, history, Data
<1>2. CASE Crash
  BY <1>2, BoundsAssumption DEF Crash, ProcessGone, plan, Events, Data
<1>3. ASSUME NEW m \in Modes, Resume(m) PROVE Data'
  BY <1>3, BoundsAssumption DEF Resume, cycle, history, Reasons, Data
<1> QED
  BY <1>1, <1>2, <1>3 DEF Outside

(* A crash takes the task with it, and a resume starts from the rows       *)
(* alone.                                                                  *)
LEMMA OutsideSound ==
    ASSUME IInv, Outside
    PROVE  Budgeted' /\ BudgetEnds' /\ SchedulerSound'
<1>1. ASSUME NEW c \in {"STOP", "PAUSE"}, Command(c) PROVE UNCHANGED <<camp, phase, used, mode, task, ahead>>
  BY <1>1 DEF Command, rows, plan, cycle
<1>2. Crash => phase' = "down" /\ task' = "none" /\ ahead' = FALSE
  BY DEF Crash, ProcessGone
<1>3. ASSUME NEW m \in Modes, Resume(m)
      PROVE  phase = "down" /\ phase' = "up" /\ camp' = "running" /\ task' = task /\ ahead' = ahead
  BY <1>3 DEF Resume, cycle
<1> QED
  BY <1>1, <1>2, <1>3 DEF Outside, IInv, Budgeted, BudgetEnds, SchedulerSound

(* The invariant is kept by every step.                                    *)
LEMMA NextKeeps ==
    ASSUME IInv, [Next]_vars
    PROVE  IInv'
<1>1. CASE UNCHANGED vars
  <2>1. TypeOK'
    BY <1>1 DEF vars, rows, plan, cycle, engine, loop, history, IInv, TypeOK
  <2>2. Budgeted' /\ BudgetEnds' /\ SchedulerSound'
    BY <1>1 DEF vars, rows, plan, cycle, engine, loop, history, IInv, Budgeted, BudgetEnds, SchedulerSound
  <2> QED
    BY <2>1, <2>2 DEF IInv
<1>2. CASE Next
  <2>1. Flags /\ Data /\ Budgeted
    BY TypeParts DEF IInv
  <2>2. Flags'
    BY <1>2, <2>1, FlagsKept
  <2>3. CASE PumpEvents \/ OtherWriter
    BY <2>1, <2>2, <2>3, PumpTyped, PumpSound, TypePartsNext DEF IInv
  <2>4. CASE TickIdle \/ TickCycle \/ Replan
    BY <2>1, <2>2, <2>4, TickTyped, TickSound, TypePartsNext DEF IInv
  <2>5. CASE Answers
    BY <2>1, <2>2, <2>5, AnswersTyped, AnswersSound, TypePartsNext DEF IInv
  <2>6. CASE Loop
    BY <2>1, <2>2, <2>6, LoopTyped, LoopSound, TypePartsNext DEF IInv
  <2>7. CASE Outside
    BY <2>1, <2>2, <2>7, OutsideTyped, OutsideSound, TypePartsNext DEF IInv
  <2> QED
    BY <1>2, <2>3, <2>4, <2>5, <2>6, <2>7 DEF Next, Outside
<1> QED
  BY <1>1, <1>2

(* The invariant holds initially.                                          *)
LEMMA InitInv ==
    ASSUME Init
    PROVE  IInv
<1>1. TypeOK
  <2>1. Flags
    BY Zenon DEF Init, Flags
  <2>2. Data
    BY BoundsAssumption DEF Init, Data, Reasons, Events, StopStates
  <2> QED
    BY <2>1, <2>2, TypeParts
<1>2. Budgeted /\ BudgetEnds /\ SchedulerSound
  BY DEF Init, Budgeted, BudgetEnds, SchedulerSound
<1> QED
  BY <1>1, <1>2 DEF IInv

(* The inductive invariant of the Director's loop: cycles start with       *)
(* budget left, an exhausted campaign has left its loop, and the scheduler *)
(* is ahead of its committed state only on the way out.                    *)
THEOREM Invariant == Spec => []IInv
<1>1. Init => IInv
  BY InitInv
<1>2. IInv /\ [Next]_vars => IInv'
  BY NextKeeps
<1> QED
  BY <1>1, <1>2, PTL DEF Spec

(* Every variable of the Director's loop keeps its type (campaign.py,      *)
(* run).                                                                   *)
THEOREM TypeCorrect == Spec => []TypeOK
<1>1. IInv => TypeOK
  BY DEF IInv
<1> QED
  BY <1>1, Invariant, PTL


(* A lane-targeting action is accepted only at a fresh campaign version    *)
(* and the lane's version; a candidate's only while it is retained.        *)
LEMMA AcceptedCurrent ==
    ASSUME NEW d, Status(d) = "accepted"
    PROVE  /\ fresh
           /\ d.target = "lane" => lane = "live" /\ ~moved
           /\ d.target = "candidate" => cand = "retained"
BY DEF Status

(* The same for the targets a batch records.                               *)
LEMMA BatchCurrent ==
    ASSUME NEW D, CommitDecisionBatch(D), last' # {}
    PROVE  /\ fresh
           /\ "lane" \in last' => lane = "live" /\ ~moved
           /\ "candidate" \in last' => cand = "retained"
<1>1. \A t \in last' : \E d \in D : Status(d) = "accepted" /\ d.target = t
  BY DEF CommitDecisionBatch
<1> QED
  BY <1>1, AcceptedCurrent

(* Only the commit of a batch accepts anything.                            *)
LEMMA OnlyBatchesAccept ==
    ASSUME Next, last' # last, last' # {}
    PROVE  \E D \in Decisions : CommitDecisionBatch(D)
<1>1. Answers
  <2>1. ~PumpEvents /\ ~OtherWriter
    BY DEF PumpEvents, OtherWriter, LaneBorn, LaneRevised, LaneExits, CandidateQueued, LaneFails,
       CandidateRetained, CandidateDecided, CandidateCertified, PumpLeaves, history
  <2>2. ~TickIdle /\ ~TickCycle /\ ~Replan
    BY DEF TickIdle, TickCycle, Replan, Publish, history
  <2>3. ~Loop
    BY DEF Loop, ReapTask, RecoverDirector, Raise, LoopEnds, LoopStop, LoopPause, LoopDeadline, LoopBudget,
       LoopSchedule, Leave, LoopLeaves, Finally, ProcessGone, history
  <2>4. ~Outside
    BY DEF Outside, Command, Crash, ProcessGone, Resume, history
  <2> QED
    BY <2>1, <2>2, <2>3, <2>4 DEF Next, Outside
<1> QED
  BY <1>1 DEF Answers, AnswerInvalid, AnswerFails, AnswerScheduler, AnswerDirector, history

(* Whatever happens while the Director or the scheduler decides, an        *)
(* accepted action finds the campaign, its lane and its candidate as the   *)
(* snapshot showed them (commit_decision_batch).                           *)
THEOREM DecisionsActOnWhatTheirAuthorSaw == Spec => AcceptedTargetsCurrent
<1>1. [Next]_vars =>
        [last' # last /\ last' # {} =>
           /\ fresh
           /\ "lane" \in last' => lane = "live" /\ ~moved
           /\ "candidate" \in last' => cand = "retained"]_vars
  BY OnlyBatchesAccept, BatchCurrent
<1> QED
  BY <1>1, PTL DEF Spec, AcceptedTargetsCurrent

(* What an attempt does to an outcome.                                     *)
LEMMA OutcomeStands ==
    ASSUME IInv, Next, camp' # camp, camp \in Ended
    PROVE  camp # "succeeded" /\ (camp' = "succeeded" \/ attempt' # attempt)
<1>1. CASE PumpEvents
  BY <1>1 DEF PumpEvents, LaneBorn, LaneRevised, LaneExits, CandidateQueued, LaneFails,
     CandidateRetained, CandidateDecided, CandidateCertified
<1>2. ~OtherWriter /\ ~TickIdle /\ ~TickCycle /\ ~Replan
  BY DEF OtherWriter, TickIdle, TickCycle, Replan, Publish, rows
<1>3. ~Answers
  <2>1. ASSUME Answers PROVE phase = "up" /\ (camp' = camp \/ camp \notin Ended \ {"budget_exhausted"})
    BY <2>1 DEF Answers, AnswerInvalid, AnswerFails, AnswerScheduler, AnswerDirector, FinishCampaign
  <2> QED
    BY <2>1 DEF IInv, BudgetEnds
<1>4. ~Loop
  <2>1. ~ReapTask /\ ~RecoverDirector /\ ~Raise /\ ~LoopSchedule /\ ~Finally /\ ~LoopEnds
    BY DEF ReapTask, RecoverDirector, Raise, FaultState, LoopSchedule, Finally, LoopEnds, Leave, rows
  <2>2. ~LoopStop /\ ~LoopPause /\ ~LoopDeadline /\ ~LoopBudget
    BY DEF LoopStop, LoopPause, LoopDeadline, LoopBudget, Continues, StopStates
  <2> QED
    BY <2>1, <2>2 DEF Loop
<1>5. CASE Outside
  <2>1. PICK m \in Modes : Resume(m)
    BY <1>5 DEF Outside, Command, Crash, rows
  <2> QED
    BY <2>1, BoundsAssumption, TypeParts DEF Resume, Resumable, IInv, Data
<1> QED
  BY <1>1, <1>2, <1>3, <1>4, <1>5 DEF Next, Outside

(* Within an attempt an outcome is replaced by a certificate only, and a   *)
(* certified campaign stays certified (finish_campaign).                   *)
THEOREM OutcomesStand == Spec => OutcomeLatched
<1>1. IInv /\ [Next]_vars =>
        [camp' # camp /\ camp \in Ended =>
           camp # "succeeded" /\ (camp' = "succeeded" \/ attempt' # attempt)]_vars
  BY OutcomeStands
<1> QED
  BY <1>1, Invariant, PTL DEF Spec, OutcomeLatched

(* The turn budget is overdrawn by at most the second turn of a replan,    *)
(* and no cycle is under way once it is spent.                             *)
BudgetKept ==
    /\ used <= MaxTurns + 1
    /\ mode = "llm" /\ phase = "up" /\ used >= MaxTurns => task = "none"

(* Over any sequence of cycles, replans, crashes and resumes the Director  *)
(* takes at most one turn more than its budget (TurnsOfCycle).             *)
THEOREM BudgetOverdrawnByAReplanOnly == Spec => []BudgetKept
<1>1. IInv => BudgetKept
  BY TypeParts, BoundsAssumption DEF IInv, Budgeted, Data, BudgetKept
<1> QED
  BY <1>1, Invariant, PTL

(* A passive scheduler that is asked decides from its committed state, so  *)
(* _insert_passive_scheduler_decision never meets another one.             *)
SchedulerInStep == phase = "up" /\ task \in {"asking", "replan", "done", "none"} => ~ahead

(* No failure, replan or resume leaves a scheduler in use whose memory     *)
(* differs from its committed state                                        *)
(* (_insert_passive_scheduler_decision).                                   *)
THEOREM SchedulerDecidesFromItsCommittedState == Spec => []SchedulerInStep
<1>1. IInv => SchedulerInStep
  BY DEF IInv, SchedulerSound, SchedulerInStep
<1> QED
  BY <1>1, Invariant, PTL

=============================================================================
