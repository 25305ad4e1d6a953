------------------------- MODULE VerificationProofs --------------------------
(***************************************************************************)
(* Machine-checked proofs about Verification, for any sets of candidates   *)
(* and actions, any queue and concurrency bounds, any number of attempts   *)
(* and either verifier faulty.  The inductive invariant is IInv; the type  *)
(* invariant is proved first and used in every other step.                 *)
(***************************************************************************)
EXTENDS Verification, M4Certify, FiniteSetTheorems, TLAPS

-----------------------------------------------------------------------------
(* The verdict pipeline.                                                   *)

(* A row state a status becomes is a state of the row, and a finished job  *)
(* is neither queued nor running.  complete_verification_job.              *)
LEMMA StatusRows ==
    ASSUME NEW status
    PROVE  /\ JobStateOf(status) \in {"completed", "unknown", "failed"}
           /\ CandidateStateOf(status) \in {"certified", "rejected", "retained"}
           /\ CandidateStateOf(status) = "certified" <=> status = "COUNTEREXAMPLE_VERIFIED"
           /\ CandidateStateOf(status) = "retained" <=> JobStateOf(status) # "completed"
BY DEF JobStateOf, CandidateStateOf

(* certify() reports a counterexample only if the reference verifier said  *)
(* VERIFIED and the checker said ABSENT.                                   *)
LEMMA SuccessNeedsBoth ==
    ASSUME NEW ref, NEW cpp, CertifyStatus(ref, cpp) = "COUNTEREXAMPLE_VERIFIED"
    PROVE  ref.status = "VERIFIED" /\ cpp.status = "ABSENT"
BY DEF CertifyStatus

(* verify_reference_bounded says VERIFIED only for a worker that answered  *)
(* it: no timeout, crash or lost report counts as a proof.                 *)
LEMMA ReferenceVerified ==
    ASSUME NEW run \in ReferenceFates \cup ReferenceAnswers,
           VerifyReference(run).status = "VERIFIED"
    PROVE  run = "VERIFIED"
BY DEF VerifyReference, ReferenceFates, ReferenceAnswers

(* verify_cpp says ABSENT only for a checker that ran to a clean end and   *)
(* printed it.                                                             *)
LEMMA CheckerAbsent ==
    ASSUME NEW run \in CheckerRuns \cup {MissingChecker},
           CheckerStatus(run) = "ABSENT"
    PROVE  run \in CheckerRuns /\ run.payload = "ABSENT"
BY DEF CheckerStatus, CheckerRuns, CheckerExits, CheckerPayloads, MissingChecker

(* A success manifest speaks the truth about its graph when at most one of *)
(* the two implementations is faulty.                                      *)
LEMMA ManifestSound ==
    ASSUME NEW c \in Candidates, NEW m \in ManifestsOf[c],
           m.status = "COUNTEREXAMPLE_VERIFIED"
    PROVE  c \in CycleFree /\ (Faulty # "reference" => c \in Admissible)
<1>1. PICK ref \in ReferenceRuns(c \in Admissible, c \in CycleFree, Faulty),
            cpp \in CheckerRunsOn(c \in CycleFree, Faulty) : m = Manifest(ref, cpp)
  BY DEF ManifestsOf
<1>2. CertifyStatus(VerifyReference(ref), VerifyCpp(cpp)) = "COUNTEREXAMPLE_VERIFIED"
  BY <1>1 DEF Manifest
<1>3. VerifyReference(ref).status = "VERIFIED" /\ VerifyCpp(cpp).status = "ABSENT"
  BY <1>2, SuccessNeedsBoth
<1>4. ref = "VERIFIED"
  BY <1>3, ReferenceVerified DEF ReferenceRuns, HonestReference, ReferenceAnswers, ReferenceFates
<1>5. CheckerStatus(cpp) = "ABSENT"
  BY <1>3 DEF VerifyCpp
<1>6. cpp \in CheckerRuns /\ cpp.payload = "ABSENT"
  BY <1>5, CheckerAbsent DEF CheckerRunsOn
<1>7. c \in CycleFree \/ Faulty = "checker"
  BY <1>6 DEF CheckerRunsOn, MissingChecker
<1>8. Faulty # "reference" => c \in Admissible /\ c \in CycleFree
  BY <1>4 DEF ReferenceRuns, HonestReference, ReferenceFates
<1> QED BY <1>7, <1>8, TruthAssumption

-----------------------------------------------------------------------------
(* Type correctness.                                                       *)

(* The empty result queue has the type of a manifest.                      *)
LEMMA NoManifestTyped == NoManifest \in Manifests
BY DEF NoManifest, Manifests, Statuses

(* A fresh campaign is well typed.                                         *)
LEMMA TypeInit == Init => TypeOK
BY BoundsAssumption, NoManifestTyped
   DEF Init, TypeOK, CampaignStates, CandidateStates, ActionStates, PinStates, JobStates,
       Phases, WorkerStates

(* Completing a job keeps every row and map in its type.                   *)
LEMMA CompleteTyped ==
    ASSUME TypeOK, NEW c \in Candidates, NEW status,
           CompleteVerificationJob(c, status), visit' = visit \ {c}
    PROVE  TypeOK'
<1>1. JobStateOf(status) \in JobStates /\ CandidateStateOf(status) \in CandidateStates
  BY StatusRows DEF JobStates, CandidateStates
<1>2. job' \in [Candidates -> JobStates] /\ candidate' \in [Candidates -> CandidateStates]
  BY <1>1 DEF TypeOK, CompleteVerificationJob, FirstSuccess
<1>3. pin' \in [Actions -> [Candidates -> PinStates]]
  BY DEF TypeOK, CompleteVerificationJob, FirstSuccess, PinStates
<1>4. campaign' \in CampaignStates /\ success' \subseteq Candidates
  BY DEF TypeOK, CompleteVerificationJob, FirstSuccess, CampaignStates
<1>5. worker' \in [Candidates -> WorkerStates] /\ result' \in [Candidates -> Manifests]
  BY NoManifestTyped DEF TypeOK, CompleteVerificationJob, FirstSuccess, WorkerStates
<1>6. running' \subseteq Candidates /\ visit' \subseteq Candidates
  BY DEF TypeOK, CompleteVerificationJob, FirstSuccess
<1> QED BY <1>2, <1>3, <1>4, <1>5, <1>6 DEF TypeOK, CompleteVerificationJob, FirstSuccess

(* Every step of the store, the broker, a worker, a crash or a resume      *)
(* keeps the types.                                                        *)
LEMMA TypeNext == TypeOK /\ [Next]_vars => TypeOK'
<1> SUFFICES ASSUME TypeOK, [Next]_vars PROVE TypeOK'
  OBVIOUS
<1> USE DEF TypeOK, durable, broker, processes
<1>1. ASSUME NEW c \in Candidates, Retain(c) PROVE TypeOK'
  BY <1>1 DEF Retain, CandidateStates
<1>2. ASSUME NEW a \in Actions, NEW T \in SUBSET Candidates \ {{}}, NEW fresh \in BOOLEAN,
             Commit(a, T, fresh)
      PROVE TypeOK'
  BY <1>2 DEF Commit, ActionStates, PinStates
<1>3. ASSUME NEW a \in Actions, LeaseExpires(a) PROVE TypeOK'
  BY <1>3 DEF LeaseExpires
<1>4. ASSUME PumpBegin PROVE TypeOK'
  BY <1>4 DEF PumpBegin, Phases
<1>5. ASSUME NEW a \in Actions, DispatchExpired(a) PROVE TypeOK'
  BY <1>5 DEF DispatchExpired, RecordActionOutcome, ReleaseUnlinked, ActionStates, PinStates
<1>6. ASSUME NEW a \in Actions, DispatchQueueFull(a) PROVE TypeOK'
  BY <1>6 DEF DispatchQueueFull, RecordActionOutcome, ReleaseUnlinked, ActionStates, PinStates
<1>7. ASSUME NEW a \in Actions, DispatchQueue(a) PROVE TypeOK'
  <2>1. CASE \E c \in targets[a] : candidate[c] = "absent"
    <3>1. RecordActionOutcome(a, "stale_target")
      BY <1>7, <2>1 DEF DispatchQueue
    <3>2. action' \in [Actions -> ActionStates] /\ pin' \in [Actions -> [Candidates -> PinStates]]
      BY <3>1 DEF RecordActionOutcome, ReleaseUnlinked, ActionStates, PinStates
    <3> QED BY <1>7, <2>1, <3>2 DEF DispatchQueue
  <2>2. CASE /\ ~ \E c \in targets[a] : candidate[c] = "absent"
             /\ \E c \in targets[a] : candidate[c] \in {"certified", "rejected"}
    BY <1>7, <2>2 DEF DispatchQueue, CampaignStates, Phases, WorkerStates
  <2>3. CASE /\ ~ \E c \in targets[a] : candidate[c] = "absent"
             /\ ~ \E c \in targets[a] : candidate[c] \in {"certified", "rejected"}
    <3>1. QueueVerificationAction(a)
      BY <1>7, <2>3 DEF DispatchQueue
    <3>2. action' \in [Actions -> ActionStates] /\ pin' \in [Actions -> [Candidates -> PinStates]]
      BY <3>1 DEF QueueVerificationAction, QueuedPin, ActionStates, PinStates
    <3>3. job' \in [Candidates -> JobStates] /\ candidate' \in [Candidates -> CandidateStates]
      BY <3>1 DEF QueueVerificationAction, QueuedPin, JobStates, CandidateStates
    <3> QED BY <1>7, <2>3, <3>2, <3>3 DEF DispatchQueue
  <2> QED BY <2>1, <2>2, <2>3
<1>8. ASSUME DispatchEnd PROVE TypeOK'
  BY <1>8 DEF DispatchEnd, Phases
<1>9. ASSUME NEW c \in Candidates, StartReady(c) PROVE TypeOK'
  BY <1>9 DEF StartReady, JobStates, WorkerStates
<1>10. ASSUME StartEnd PROVE TypeOK'
  BY <1>10 DEF StartEnd, Phases
<1>11. ASSUME NEW c \in Candidates, PollNothing(c) PROVE TypeOK'
  BY <1>11 DEF PollNothing
<1>12. ASSUME NEW c \in Candidates, NEW readable \in BOOLEAN, PollResult(c, readable) PROVE TypeOK'
  BY <1>12, CompleteTyped DEF PollResult
<1>13. ASSUME NEW c \in Candidates, PollFailure(c) PROVE TypeOK'
  BY <1>13, CompleteTyped DEF PollFailure
<1>14. ASSUME PollEnd PROVE TypeOK'
  BY <1>14 DEF PollEnd, Phases
<1>15. ASSUME NEW c \in Candidates, NEW m \in Manifests, WorkerReports(c, m) PROVE TypeOK'
  BY <1>15, BoundsAssumption DEF WorkerReports, WorkerStates
<1>16. ASSUME NEW c \in Candidates, NEW how \in {"errored", "exited"}, WorkerFails(c, how) PROVE TypeOK'
  BY <1>16 DEF WorkerFails, WorkerStates
<1>17. ASSUME NEW c \in Candidates, WallTimeLimit(c) PROVE TypeOK'
  BY <1>17 DEF WallTimeLimit, WorkerStates
<1>18. ASSUME NEW o \in orphans, NEW writes \in BOOLEAN, OrphanEnds(o, writes) PROVE TypeOK'
  <2>1. o[1] \in Candidates /\ o[2] \in 0..MaxAttempts
    BY BoundsAssumption
  <2> QED BY <1>18, <2>1 DEF OrphanEnds
<1>19. ASSUME Shutdown PROVE TypeOK'
  BY <1>19, NoManifestTyped DEF Shutdown, NoBroker, CampaignStates, Phases, WorkerStates
<1>20. ASSUME NEW survivors \in SUBSET Candidates, Crash(survivors) PROVE TypeOK'
  <2>1. orphans' \subseteq Candidates \X (1..MaxAttempts)
    BY <1>20 DEF Crash
  <2> QED BY <1>20, <2>1, NoManifestTyped DEF Crash, NoBroker, Phases, WorkerStates
<1>21. ASSUME ResumeCampaign PROVE TypeOK'
  <2>1. action' \in [Actions -> ActionStates] /\ pin' \in [Actions -> [Candidates -> PinStates]]
    BY <1>21 DEF ResumeCampaign, ReleaseUnlinked, ActionStates, PinStates
  <2>2. attempt' \in 1..MaxAttempts
    BY <1>21, BoundsAssumption DEF ResumeCampaign
  <2> QED BY <1>21, <2>1, <2>2 DEF ResumeCampaign, CampaignStates, Phases
<1>22. ASSUME RecoverInterrupted PROVE TypeOK'
  BY <1>22 DEF RecoverInterrupted, JobStates, Phases
<1>23. CASE UNCHANGED vars
  BY <1>23 DEF vars
<1> HIDE DEF TypeOK, durable, broker, processes
<1> QED
  BY <1>1, <1>2, <1>3, <1>4, <1>5, <1>6, <1>7, <1>8, <1>9, <1>10, <1>11, <1>12, <1>13, <1>14,
     <1>15, <1>16, <1>17, <1>18, <1>19, <1>20, <1>21, <1>22, <1>23 DEF Next, Pump, Dispatch, Poll

(* Every reachable state is well typed, for all values of the constants.   *)
THEOREM TypeCorrect == Spec => []TypeOK
BY TypeInit, TypeNext, PTL DEF Spec

-----------------------------------------------------------------------------
(* The inductive invariant.                                                *)

(* The inductive invariant holds for a fresh campaign.                     *)
LEMMA InvariantInit == Init => IInv
<1> SUFFICES ASSUME Init PROVE IInv
  OBVIOUS
<1>1. TypeOK
  BY TypeInit
<1>2. PumpOrder /\ JobsMatchCandidates /\ PinsBelongToTargets /\ ResultsComeFromWorkers
  BY DEF Init, PumpOrder, JobsMatchCandidates, PinsBelongToTargets, ResultsComeFromWorkers, Open
<1>3. ClaimedCandidatesPinned /\ NoLeakedPin /\ PendingTargetsEligible /\ RunningRowsHaveWorkers
  BY DEF Init, ClaimedCandidatesPinned, NoLeakedPin, PendingTargetsEligible,
         RunningRowsHaveWorkers, Open
<1>4. CertifiedIsSound /\ CertificationEndsCampaign
  BY DEF Init, CertifiedIsSound, CertificationEndsCampaign
<1> QED BY <1>1, <1>2, <1>3, <1>4 DEF IInv

(* A status that poll() commits as a counterexample came from a worker's   *)
(* manifest, hence is true of the graph.                                   *)
LEMMA CommittedSound ==
    ASSUME IInv, NEW c \in Candidates, NEW intact \in BOOLEAN,
           CommittedStatus(result[c], intact) = "COUNTEREXAMPLE_VERIFIED"
    PROVE  c \in CycleFree /\ (Faulty # "reference" => c \in Admissible)
<1>1. result[c].status = "COUNTEREXAMPLE_VERIFIED"
  BY DEF CommittedStatus
<1>2. result[c] \in ManifestsOf[c]
  BY <1>1 DEF IInv, ResultsComeFromWorkers, NoManifest
<1> QED BY <1>1, <1>2, ManifestSound

(* complete_verification_job keeps the invariant when the job is one that  *)
(* poll() is looking at and a success is a true one.                       *)
LEMMA CompleteInvariant ==
    ASSUME IInv, TypeOK', NEW c \in visit, phase = "poll", NEW status,
           status = "COUNTEREXAMPLE_VERIFIED" =>
               c \in CycleFree /\ (Faulty # "reference" => c \in Admissible),
           CompleteVerificationJob(c, status), visit' = visit \ {c}
    PROVE  IInv'
<1>1. /\ c \in Candidates /\ c \in running /\ job[c] = "running"
      /\ candidate[c] = "promoted" /\ campaign # "stopped"
      /\ \A a \in Actions : action[a] # "pending"
  BY DEF IInv, TypeOK, PumpOrder, RunningRowsHaveWorkers, JobsMatchCandidates, Open
<1>2. /\ job' = [job EXCEPT ![c] = JobStateOf(status)]
      /\ candidate' = [candidate EXCEPT ![c] = CandidateStateOf(status)]
  BY <1>1 DEF CompleteVerificationJob, FirstSuccess
<1>3. \A a \in Actions, d \in Candidates :
          pin'[a][d] = IF d = c /\ pin[a][d] = "linked" THEN "released" ELSE pin[a][d]
  BY <1>1 DEF CompleteVerificationJob, FirstSuccess, IInv, TypeOK
<1>4. PumpOrder'
  BY <1>1 DEF IInv, PumpOrder, CompleteVerificationJob, FirstSuccess
<1>5. JobsMatchCandidates'
  <2> SUFFICES ASSUME NEW d \in Candidates
               PROVE  /\ job'[d] \in Open => candidate'[d] = "promoted"
                      /\ candidate'[d] \in {"certified", "rejected"} <=> job'[d] = "completed"
    BY DEF JobsMatchCandidates
  <2>1. CASE d # c
    BY <1>2, <2>1 DEF IInv, TypeOK, JobsMatchCandidates
  <2>2. CASE d = c
    BY <1>1, <1>2, <2>2, StatusRows DEF IInv, TypeOK, Open
  <2> QED BY <2>1, <2>2
<1>6. PinsBelongToTargets'
  BY <1>3 DEF IInv, PinsBelongToTargets, CompleteVerificationJob, FirstSuccess
<1>7. ResultsComeFromWorkers'
  BY DEF IInv, TypeOK, ResultsComeFromWorkers, CompleteVerificationJob, FirstSuccess
<1>8. ClaimedCandidatesPinned'
  <2>1. \A d \in Candidates : job'[d] \in Open => d # c /\ job[d] \in Open
    BY <1>1, <1>2, StatusRows DEF IInv, TypeOK, Open
  <2>2. action' = action /\ targets' = targets
    BY DEF CompleteVerificationJob, FirstSuccess
  <2> QED BY <1>1, <1>3, <2>1, <2>2 DEF IInv, ClaimedCandidatesPinned
<1>9. NoLeakedPin'
  <2>1. \A d \in Candidates : d # c => job'[d] = job[d]
    BY <1>2 DEF IInv, TypeOK
  <2>2. action' = action
    BY DEF CompleteVerificationJob, FirstSuccess
  <2> QED BY <1>3, <2>1, <2>2 DEF IInv, NoLeakedPin
<1>10. PendingTargetsEligible'
  BY <1>1 DEF CompleteVerificationJob, FirstSuccess, PendingTargetsEligible
<1>11. RunningRowsHaveWorkers'
  BY <1>1, <1>2, StatusRows DEF IInv, TypeOK, RunningRowsHaveWorkers, CompleteVerificationJob, FirstSuccess
<1>12. CertifiedIsSound'
  BY <1>1, <1>2, StatusRows DEF IInv, TypeOK, CertifiedIsSound
<1>13. CertificationEndsCampaign'
  <2>1. CASE status = "COUNTEREXAMPLE_VERIFIED"
    <3>1. candidate'[c] = "certified" /\ campaign' = "succeeded"
      BY <1>1, <1>2, <2>1, StatusRows
         DEF CompleteVerificationJob, FirstSuccess, IInv, TypeOK, CampaignStates
    <3>2. success' = IF campaign = "running" THEN success \cup {c} ELSE success
      BY <1>1, <2>1 DEF CompleteVerificationJob, FirstSuccess
    <3>3. \A d \in success : candidate[d] = "certified" /\ d \in Candidates
      BY DEF IInv, TypeOK, CertificationEndsCampaign
    <3>4. \A d \in success' : candidate'[d] = "certified"
      BY <1>1, <1>2, <3>1, <3>2, <3>3 DEF IInv, TypeOK
    <3>5. campaign = "running" => success = {}
      BY DEF IInv, CertificationEndsCampaign
    <3>6. campaign = "running" \/ success # {}
      BY <1>1 DEF IInv, TypeOK, CampaignStates, CertificationEndsCampaign
    <3>7. success' # {} /\ \A d, e \in success' : d = e
      BY <3>2, <3>5, <3>6 DEF IInv, CertificationEndsCampaign
    <3> QED BY <1>1, <3>1, <3>4, <3>7 DEF CertificationEndsCampaign
  <2>2. CASE status # "COUNTEREXAMPLE_VERIFIED"
    <3>1. campaign' = campaign /\ success' = success
      BY <1>1, <2>2 DEF CompleteVerificationJob, FirstSuccess
    <3>2. candidate'[c] # "certified"
      BY <1>1, <1>2, <2>2, StatusRows DEF IInv, TypeOK
    <3>3. \A d \in Candidates : candidate'[d] = "certified" <=> candidate[d] = "certified"
      BY <1>1, <1>2, <3>2 DEF IInv, TypeOK
    <3> QED BY <3>1, <3>3 DEF IInv, TypeOK, CertificationEndsCampaign
  <2> QED BY <2>1, <2>2
<1> QED
  BY <1>4, <1>5, <1>6, <1>7, <1>8, <1>9, <1>10, <1>11, <1>12, <1>13 DEF IInv

(* Every step preserves the inductive invariant: one case per action, one  *)
(* step per conjunct the action can disturb.                               *)
LEMMA InvariantNext == IInv /\ [Next]_vars => IInv'
<1> SUFFICES ASSUME IInv, [Next]_vars PROVE IInv'
  OBVIOUS
<1>0. TypeOK'
  BY TypeNext DEF IInv
<1> USE DEF durable, broker, processes
<1>1. ASSUME NEW c \in Candidates, Retain(c) PROVE IInv'
  <2>1. JobsMatchCandidates'
    BY <1>0, <1>1 DEF IInv, TypeOK, JobsMatchCandidates, PendingTargetsEligible, Eligible, Open,
       Retain
  <2>2. PendingTargetsEligible'
    BY <1>0, <1>1 DEF IInv, TypeOK, PendingTargetsEligible, Eligible, Retain
  <2>3. CertifiedIsSound'
    BY <1>0, <1>1 DEF IInv, TypeOK, CertifiedIsSound, PendingTargetsEligible, Eligible, Retain
  <2>4. CertificationEndsCampaign'
    BY <1>0, <1>1 DEF IInv, TypeOK, CertificationEndsCampaign, PumpOrder,
       PendingTargetsEligible, Eligible, Retain
  <2>5. PumpOrder' /\ PinsBelongToTargets' /\ ResultsComeFromWorkers' /\
     ClaimedCandidatesPinned' /\ NoLeakedPin' /\ RunningRowsHaveWorkers'
    BY <1>0, <1>1 DEF IInv, TypeOK, PumpOrder, PinsBelongToTargets, ResultsComeFromWorkers,
       ClaimedCandidatesPinned, Open, NoLeakedPin, RunningRowsHaveWorkers, Retain
  <2> QED BY <1>0, <2>1, <2>2, <2>3, <2>4, <2>5 DEF IInv
<1>2. ASSUME NEW a \in Actions, NEW T \in SUBSET Candidates \ {{}}, NEW fresh \in BOOLEAN,
   Commit(a, T, fresh) PROVE IInv'
  <2>1. PumpOrder'
    BY <1>0, <1>2 DEF IInv, TypeOK, PumpOrder, Commit
  <2>2. PinsBelongToTargets'
    BY <1>0, <1>2 DEF IInv, TypeOK, PinsBelongToTargets, Commit
  <2>3. ClaimedCandidatesPinned'
    BY <1>0, <1>2 DEF IInv, TypeOK, ClaimedCandidatesPinned, PinsBelongToTargets, Open, Commit
  <2>4. NoLeakedPin'
    BY <1>0, <1>2 DEF IInv, TypeOK, NoLeakedPin, PinsBelongToTargets, Open, Commit
  <2>5. PendingTargetsEligible'
    BY <1>0, <1>2 DEF IInv, TypeOK, PendingTargetsEligible, Eligible, Commit
  <2>6. JobsMatchCandidates' /\ ResultsComeFromWorkers' /\ RunningRowsHaveWorkers' /\
     CertifiedIsSound' /\ CertificationEndsCampaign'
    BY <1>0, <1>2 DEF IInv, TypeOK, JobsMatchCandidates, PendingTargetsEligible, Eligible, Open,
       ResultsComeFromWorkers, RunningRowsHaveWorkers, PumpOrder, CertifiedIsSound,
       CertificationEndsCampaign, Commit
  <2> QED BY <1>0, <2>1, <2>2, <2>3, <2>4, <2>5, <2>6 DEF IInv
<1>3. ASSUME NEW a \in Actions, LeaseExpires(a) PROVE IInv'
  <2>1. PumpOrder' /\ JobsMatchCandidates' /\ PinsBelongToTargets' /\ ResultsComeFromWorkers' /\
     ClaimedCandidatesPinned' /\ NoLeakedPin' /\ PendingTargetsEligible' /\
     RunningRowsHaveWorkers' /\ CertifiedIsSound' /\ CertificationEndsCampaign'
    BY <1>0, <1>3 DEF IInv, TypeOK, PumpOrder, JobsMatchCandidates, PendingTargetsEligible,
       Eligible, Open, PinsBelongToTargets, ResultsComeFromWorkers, ClaimedCandidatesPinned,
       NoLeakedPin, RunningRowsHaveWorkers, CertifiedIsSound, CertificationEndsCampaign,
       LeaseExpires
  <2> QED BY <1>0, <2>1 DEF IInv
<1>4. ASSUME PumpBegin PROVE IInv'
  <2>1. PumpOrder'
    BY <1>0, <1>4 DEF IInv, TypeOK, PumpOrder, PumpBegin
  <2>2. RunningRowsHaveWorkers'
    BY <1>0, <1>4 DEF IInv, TypeOK, RunningRowsHaveWorkers, PumpOrder, PumpBegin
  <2>3. JobsMatchCandidates' /\ PinsBelongToTargets' /\ ResultsComeFromWorkers' /\
     ClaimedCandidatesPinned' /\ NoLeakedPin' /\ PendingTargetsEligible' /\ CertifiedIsSound' /\
     CertificationEndsCampaign'
    BY <1>0, <1>4 DEF IInv, TypeOK, JobsMatchCandidates, PendingTargetsEligible, Eligible, Open,
       PinsBelongToTargets, ResultsComeFromWorkers, ClaimedCandidatesPinned, NoLeakedPin,
       CertifiedIsSound, CertificationEndsCampaign, PumpOrder, PumpBegin
  <2> QED BY <1>0, <2>1, <2>2, <2>3 DEF IInv
<1>5. ASSUME NEW a \in Actions, DispatchExpired(a) PROVE IInv'
  <2>1. PumpOrder'
    BY <1>0, <1>5 DEF IInv, TypeOK, PumpOrder, DispatchExpired, RecordActionOutcome,
       ReleaseUnlinked
  <2>2. PinsBelongToTargets'
    BY <1>0, <1>5 DEF IInv, TypeOK, PinsBelongToTargets, DispatchExpired, RecordActionOutcome,
       ReleaseUnlinked
  <2>3. ClaimedCandidatesPinned'
    BY <1>0, <1>5 DEF IInv, TypeOK, ClaimedCandidatesPinned, PinsBelongToTargets, Open,
       DispatchExpired, RecordActionOutcome, ReleaseUnlinked
  <2>4. NoLeakedPin'
    BY <1>0, <1>5 DEF IInv, TypeOK, NoLeakedPin, PinsBelongToTargets, Open, DispatchExpired,
       RecordActionOutcome, ReleaseUnlinked
  <2>5. PendingTargetsEligible'
    BY <1>0, <1>5 DEF IInv, TypeOK, PendingTargetsEligible, Eligible, DispatchExpired,
       RecordActionOutcome, ReleaseUnlinked
  <2>6. JobsMatchCandidates' /\ ResultsComeFromWorkers' /\ RunningRowsHaveWorkers' /\
     CertifiedIsSound' /\ CertificationEndsCampaign'
    BY <1>0, <1>5 DEF IInv, TypeOK, JobsMatchCandidates, PendingTargetsEligible, Eligible, Open,
       ResultsComeFromWorkers, RunningRowsHaveWorkers, PumpOrder, CertifiedIsSound,
       CertificationEndsCampaign, DispatchExpired, RecordActionOutcome, ReleaseUnlinked
  <2> QED BY <1>0, <2>1, <2>2, <2>3, <2>4, <2>5, <2>6 DEF IInv
<1>6. ASSUME NEW a \in Actions, DispatchQueueFull(a) PROVE IInv'
  <2>1. PumpOrder'
    BY <1>0, <1>6 DEF IInv, TypeOK, PumpOrder, DispatchQueueFull, RecordActionOutcome,
       ReleaseUnlinked
  <2>2. PinsBelongToTargets'
    BY <1>0, <1>6 DEF IInv, TypeOK, PinsBelongToTargets, DispatchQueueFull, RecordActionOutcome,
       ReleaseUnlinked
  <2>3. ClaimedCandidatesPinned'
    BY <1>0, <1>6 DEF IInv, TypeOK, ClaimedCandidatesPinned, PinsBelongToTargets, Open,
       DispatchQueueFull, RecordActionOutcome, ReleaseUnlinked
  <2>4. NoLeakedPin'
    BY <1>0, <1>6 DEF IInv, TypeOK, NoLeakedPin, PinsBelongToTargets, Open, DispatchQueueFull,
       RecordActionOutcome, ReleaseUnlinked
  <2>5. PendingTargetsEligible'
    BY <1>0, <1>6 DEF IInv, TypeOK, PendingTargetsEligible, Eligible, DispatchQueueFull,
       RecordActionOutcome, ReleaseUnlinked
  <2>6. JobsMatchCandidates' /\ ResultsComeFromWorkers' /\ RunningRowsHaveWorkers' /\
     CertifiedIsSound' /\ CertificationEndsCampaign'
    BY <1>0, <1>6 DEF IInv, TypeOK, JobsMatchCandidates, PendingTargetsEligible, Eligible, Open,
       ResultsComeFromWorkers, RunningRowsHaveWorkers, PumpOrder, CertifiedIsSound,
       CertificationEndsCampaign, DispatchQueueFull, RecordActionOutcome, ReleaseUnlinked
  <2> QED BY <1>0, <2>1, <2>2, <2>3, <2>4, <2>5, <2>6 DEF IInv
<1>7. ASSUME NEW a \in Actions, DispatchQueue(a) PROVE IInv'
  <2>1. action[a] = "pending" /\ \A c \in targets[a] : candidate[c] \in Eligible
    BY <1>7 DEF DispatchQueue, IInv, PumpOrder, PendingTargetsEligible
  <2>2. /\ QueueVerificationAction(a) /\ phase = "dispatch" /\ todo' = todo \ {a}
        /\ UNCHANGED <<campaign, phase, running, worker, targets, expired, success, attempt,
                       visit, result, writer, orphans>>
    BY <1>7, <2>1 DEF DispatchQueue, Eligible
  <2>3. PumpOrder'
    BY <1>0, <2>1, <2>2 DEF IInv, TypeOK, PumpOrder, QueueVerificationAction, QueuedPin
  <2>4. JobsMatchCandidates'
    BY <1>0, <2>1, <2>2 DEF IInv, TypeOK, JobsMatchCandidates, PendingTargetsEligible, Eligible,
       Open, QueueVerificationAction
  <2>5. PinsBelongToTargets'
    BY <1>0, <2>1, <2>2 DEF IInv, TypeOK, PinsBelongToTargets, QueueVerificationAction, QueuedPin
  <2>6. ClaimedCandidatesPinned'
    BY <1>0, <2>1, <2>2 DEF IInv, TypeOK, ClaimedCandidatesPinned, PinsBelongToTargets, Open,
       QueueVerificationAction, QueuedPin
  <2>7. NoLeakedPin'
    BY <1>0, <2>1, <2>2 DEF IInv, TypeOK, NoLeakedPin, PinsBelongToTargets, Open,
       QueueVerificationAction, QueuedPin, JobStates
  <2>8. PendingTargetsEligible'
    BY <1>0, <2>1, <2>2 DEF IInv, TypeOK, PendingTargetsEligible, Eligible,
       QueueVerificationAction
  <2>9. RunningRowsHaveWorkers'
    BY <1>0, <2>1, <2>2 DEF IInv, TypeOK, RunningRowsHaveWorkers, PumpOrder,
       QueueVerificationAction
  <2>10. CertifiedIsSound'
    BY <1>0, <2>1, <2>2 DEF IInv, TypeOK, CertifiedIsSound, PendingTargetsEligible, Eligible,
       QueueVerificationAction
  <2>11. CertificationEndsCampaign'
    BY <1>0, <2>1, <2>2 DEF IInv, TypeOK, CertificationEndsCampaign, PumpOrder,
       PendingTargetsEligible, Eligible, QueueVerificationAction
  <2>12. ResultsComeFromWorkers'
    BY <1>0, <2>1, <2>2 DEF IInv, TypeOK, ResultsComeFromWorkers, QueueVerificationAction, QueuedPin
  <2> QED BY <1>0, <2>3, <2>4, <2>5, <2>6, <2>7, <2>8, <2>9, <2>10, <2>11, <2>12 DEF IInv
<1>8. ASSUME DispatchEnd PROVE IInv'
  <2>1. PumpOrder'
    BY <1>0, <1>8 DEF IInv, TypeOK, PumpOrder, DispatchEnd
  <2>2. RunningRowsHaveWorkers'
    BY <1>0, <1>8 DEF IInv, TypeOK, RunningRowsHaveWorkers, PumpOrder, DispatchEnd
  <2>3. JobsMatchCandidates' /\ PinsBelongToTargets' /\ ResultsComeFromWorkers' /\
     ClaimedCandidatesPinned' /\ NoLeakedPin' /\ PendingTargetsEligible' /\ CertifiedIsSound' /\
     CertificationEndsCampaign'
    BY <1>0, <1>8 DEF IInv, TypeOK, JobsMatchCandidates, PendingTargetsEligible, Eligible, Open,
       PinsBelongToTargets, ResultsComeFromWorkers, ClaimedCandidatesPinned, NoLeakedPin,
       CertifiedIsSound, CertificationEndsCampaign, PumpOrder, DispatchEnd
  <2> QED BY <1>0, <2>1, <2>2, <2>3 DEF IInv
<1>9. ASSUME NEW c \in Candidates, StartReady(c) PROVE IInv'
  <2>1. PumpOrder'
    BY <1>0, <1>9 DEF IInv, TypeOK, PumpOrder, StartReady
  <2>2. JobsMatchCandidates'
    BY <1>0, <1>9 DEF IInv, TypeOK, JobsMatchCandidates, PendingTargetsEligible, Eligible, Open,
       StartReady
  <2>3. ClaimedCandidatesPinned'
    BY <1>0, <1>9 DEF IInv, TypeOK, ClaimedCandidatesPinned, PinsBelongToTargets, Open,
       StartReady
  <2>4. NoLeakedPin'
    BY <1>0, <1>9 DEF IInv, TypeOK, NoLeakedPin, PinsBelongToTargets, Open, StartReady
  <2>5. RunningRowsHaveWorkers'
    BY <1>0, <1>9 DEF IInv, TypeOK, RunningRowsHaveWorkers, PumpOrder, StartReady
  <2>6. PinsBelongToTargets' /\ ResultsComeFromWorkers' /\ PendingTargetsEligible' /\
     CertifiedIsSound' /\ CertificationEndsCampaign'
    BY <1>0, <1>9 DEF IInv, TypeOK, PinsBelongToTargets, ResultsComeFromWorkers,
       PendingTargetsEligible, Eligible, CertifiedIsSound, CertificationEndsCampaign, PumpOrder,
       StartReady
  <2> QED BY <1>0, <2>1, <2>2, <2>3, <2>4, <2>5, <2>6 DEF IInv
<1>10. ASSUME StartEnd PROVE IInv'
  <2>1. PumpOrder'
    BY <1>0, <1>10 DEF IInv, TypeOK, PumpOrder, StartEnd
  <2>2. RunningRowsHaveWorkers'
    BY <1>0, <1>10 DEF IInv, TypeOK, RunningRowsHaveWorkers, PumpOrder, StartEnd
  <2>3. JobsMatchCandidates' /\ PinsBelongToTargets' /\ ResultsComeFromWorkers' /\
     ClaimedCandidatesPinned' /\ NoLeakedPin' /\ PendingTargetsEligible' /\ CertifiedIsSound' /\
     CertificationEndsCampaign'
    BY <1>0, <1>10 DEF IInv, TypeOK, JobsMatchCandidates, PendingTargetsEligible, Eligible,
       Open, PinsBelongToTargets, ResultsComeFromWorkers, ClaimedCandidatesPinned, NoLeakedPin,
       CertifiedIsSound, CertificationEndsCampaign, PumpOrder, StartEnd
  <2> QED BY <1>0, <2>1, <2>2, <2>3 DEF IInv
<1>11. ASSUME NEW c \in Candidates, PollNothing(c) PROVE IInv'
  <2>1. PumpOrder'
    BY <1>0, <1>11 DEF IInv, TypeOK, PumpOrder, PollNothing
  <2>2. JobsMatchCandidates' /\ PinsBelongToTargets' /\ ResultsComeFromWorkers' /\
     ClaimedCandidatesPinned' /\ NoLeakedPin' /\ PendingTargetsEligible' /\
     RunningRowsHaveWorkers' /\ CertifiedIsSound' /\ CertificationEndsCampaign'
    BY <1>0, <1>11 DEF IInv, TypeOK, JobsMatchCandidates, PendingTargetsEligible, Eligible,
       Open, PinsBelongToTargets, ResultsComeFromWorkers, ClaimedCandidatesPinned, NoLeakedPin,
       RunningRowsHaveWorkers, PumpOrder, CertifiedIsSound, CertificationEndsCampaign,
       PollNothing
  <2> QED BY <1>0, <2>1, <2>2 DEF IInv
<1>12. ASSUME NEW c \in Candidates, NEW readable \in BOOLEAN, PollResult(c, readable) PROVE IInv'
  <2>1. (readable /\ writer[c] = attempt) \in BOOLEAN
    OBVIOUS
  <2> QED BY <1>0, <1>12, <2>1, CompleteInvariant, CommittedSound DEF PollResult
<1>13. ASSUME NEW c \in Candidates, PollFailure(c) PROVE IInv'
  BY <1>0, <1>13, CompleteInvariant DEF PollFailure
<1>14. ASSUME PollEnd PROVE IInv'
  <2>1. PumpOrder'
    BY <1>0, <1>14 DEF IInv, TypeOK, PumpOrder, PollEnd
  <2>2. RunningRowsHaveWorkers'
    BY <1>0, <1>14 DEF IInv, TypeOK, RunningRowsHaveWorkers, PumpOrder, PollEnd
  <2>3. JobsMatchCandidates' /\ PinsBelongToTargets' /\ ResultsComeFromWorkers' /\
     ClaimedCandidatesPinned' /\ NoLeakedPin' /\ PendingTargetsEligible' /\ CertifiedIsSound' /\
     CertificationEndsCampaign'
    BY <1>0, <1>14 DEF IInv, TypeOK, JobsMatchCandidates, PendingTargetsEligible, Eligible,
       Open, PinsBelongToTargets, ResultsComeFromWorkers, ClaimedCandidatesPinned, NoLeakedPin,
       CertifiedIsSound, CertificationEndsCampaign, PumpOrder, PollEnd
  <2> QED BY <1>0, <2>1, <2>2, <2>3 DEF IInv
<1>15. ASSUME NEW c \in Candidates, NEW m \in Manifests, WorkerReports(c, m) PROVE IInv'
  <2>1. ResultsComeFromWorkers'
    BY <1>0, <1>15 DEF IInv, TypeOK, ResultsComeFromWorkers, WorkerReports, Alive
  <2>2. RunningRowsHaveWorkers'
    BY <1>0, <1>15 DEF IInv, TypeOK, RunningRowsHaveWorkers, PumpOrder, WorkerReports, Alive
  <2>3. PumpOrder' /\ JobsMatchCandidates' /\ PinsBelongToTargets' /\ ClaimedCandidatesPinned'
     /\ NoLeakedPin' /\ PendingTargetsEligible' /\ CertifiedIsSound' /\
     CertificationEndsCampaign'
    BY <1>0, <1>15 DEF IInv, TypeOK, PumpOrder, JobsMatchCandidates, PendingTargetsEligible,
       Eligible, Open, PinsBelongToTargets, ClaimedCandidatesPinned, NoLeakedPin,
       CertifiedIsSound, CertificationEndsCampaign, WorkerReports, Alive
  <2> QED BY <1>0, <2>1, <2>2, <2>3 DEF IInv
<1>16. ASSUME NEW c \in Candidates, NEW how \in {"errored", "exited"}, WorkerFails(c, how) PROVE
   IInv'
  <2>1. RunningRowsHaveWorkers'
    BY <1>0, <1>16 DEF IInv, TypeOK, RunningRowsHaveWorkers, PumpOrder, WorkerFails, Alive
  <2>2. PumpOrder' /\ JobsMatchCandidates' /\ PinsBelongToTargets' /\ ResultsComeFromWorkers' /\
     ClaimedCandidatesPinned' /\ NoLeakedPin' /\ PendingTargetsEligible' /\ CertifiedIsSound' /\
     CertificationEndsCampaign'
    BY <1>0, <1>16 DEF IInv, TypeOK, PumpOrder, JobsMatchCandidates, PendingTargetsEligible,
       Eligible, Open, PinsBelongToTargets, ResultsComeFromWorkers, ClaimedCandidatesPinned,
       NoLeakedPin, CertifiedIsSound, CertificationEndsCampaign, WorkerFails, Alive
  <2> QED BY <1>0, <2>1, <2>2 DEF IInv
<1>17. ASSUME NEW c \in Candidates, WallTimeLimit(c) PROVE IInv'
  <2>1. RunningRowsHaveWorkers'
    BY <1>0, <1>17 DEF IInv, TypeOK, RunningRowsHaveWorkers, PumpOrder, WallTimeLimit
  <2>2. PumpOrder' /\ JobsMatchCandidates' /\ PinsBelongToTargets' /\ ResultsComeFromWorkers' /\
     ClaimedCandidatesPinned' /\ NoLeakedPin' /\ PendingTargetsEligible' /\ CertifiedIsSound' /\
     CertificationEndsCampaign'
    BY <1>0, <1>17 DEF IInv, TypeOK, PumpOrder, JobsMatchCandidates, PendingTargetsEligible,
       Eligible, Open, PinsBelongToTargets, ResultsComeFromWorkers, ClaimedCandidatesPinned,
       NoLeakedPin, CertifiedIsSound, CertificationEndsCampaign, WallTimeLimit
  <2> QED BY <1>0, <2>1, <2>2 DEF IInv
<1>18. ASSUME NEW o \in orphans, NEW writes \in BOOLEAN, OrphanEnds(o, writes) PROVE IInv'
  <2>1. PumpOrder' /\ JobsMatchCandidates' /\ PinsBelongToTargets' /\ ResultsComeFromWorkers' /\
     ClaimedCandidatesPinned' /\ NoLeakedPin' /\ PendingTargetsEligible' /\
     RunningRowsHaveWorkers' /\ CertifiedIsSound' /\ CertificationEndsCampaign'
    BY <1>0, <1>18 DEF IInv, TypeOK, PumpOrder, JobsMatchCandidates, PendingTargetsEligible,
       Eligible, Open, PinsBelongToTargets, ResultsComeFromWorkers, ClaimedCandidatesPinned,
       NoLeakedPin, RunningRowsHaveWorkers, CertifiedIsSound, CertificationEndsCampaign,
       OrphanEnds
  <2> QED BY <1>0, <2>1 DEF IInv
<1>19. ASSUME Shutdown PROVE IInv'
  <2>1. PumpOrder'
    BY <1>0, <1>19 DEF IInv, TypeOK, PumpOrder, Shutdown, NoBroker
  <2>2. ResultsComeFromWorkers'
    BY <1>0, <1>19 DEF IInv, TypeOK, ResultsComeFromWorkers, Shutdown, NoBroker
  <2>3. RunningRowsHaveWorkers'
    BY <1>0, <1>19 DEF IInv, TypeOK, RunningRowsHaveWorkers, PumpOrder, Shutdown, NoBroker
  <2>4. CertificationEndsCampaign'
    BY <1>0, <1>19 DEF IInv, TypeOK, CertificationEndsCampaign, PumpOrder,
       PendingTargetsEligible, Eligible, Shutdown, NoBroker
  <2>5. JobsMatchCandidates' /\ PinsBelongToTargets' /\ ClaimedCandidatesPinned' /\ NoLeakedPin'
     /\ PendingTargetsEligible' /\ CertifiedIsSound'
    BY <1>0, <1>19 DEF IInv, TypeOK, JobsMatchCandidates, PendingTargetsEligible, Eligible,
       Open, PinsBelongToTargets, ClaimedCandidatesPinned, NoLeakedPin, CertifiedIsSound,
       Shutdown, NoBroker
  <2> QED BY <1>0, <2>1, <2>2, <2>3, <2>4, <2>5 DEF IInv
<1>20. ASSUME NEW survivors \in SUBSET Candidates, Crash(survivors) PROVE IInv'
  <2>1. PumpOrder'
    BY <1>0, <1>20 DEF IInv, TypeOK, PumpOrder, Crash, NoBroker
  <2>2. ResultsComeFromWorkers'
    BY <1>0, <1>20 DEF IInv, TypeOK, ResultsComeFromWorkers, Crash, NoBroker
  <2>3. RunningRowsHaveWorkers'
    BY <1>0, <1>20 DEF IInv, TypeOK, RunningRowsHaveWorkers, PumpOrder, Crash, NoBroker
  <2>4. JobsMatchCandidates' /\ PinsBelongToTargets' /\ ClaimedCandidatesPinned' /\ NoLeakedPin'
     /\ PendingTargetsEligible' /\ CertifiedIsSound' /\ CertificationEndsCampaign'
    BY <1>0, <1>20 DEF IInv, TypeOK, JobsMatchCandidates, PendingTargetsEligible, Eligible,
       Open, PinsBelongToTargets, ClaimedCandidatesPinned, NoLeakedPin, CertifiedIsSound,
       CertificationEndsCampaign, PumpOrder, Crash, NoBroker
  <2> QED BY <1>0, <2>1, <2>2, <2>3, <2>4 DEF IInv
<1>21. ASSUME ResumeCampaign PROVE IInv'
  <2>1. PumpOrder'
    BY <1>0, <1>21 DEF IInv, TypeOK, PumpOrder, ResumeCampaign, ReleaseUnlinked
  <2>2. PinsBelongToTargets'
    BY <1>0, <1>21 DEF IInv, TypeOK, PinsBelongToTargets, ResumeCampaign, ReleaseUnlinked
  <2>3. ClaimedCandidatesPinned'
    BY <1>0, <1>21 DEF IInv, TypeOK, ClaimedCandidatesPinned, PinsBelongToTargets, Open,
       ResumeCampaign, ReleaseUnlinked
  <2>4. NoLeakedPin'
    BY <1>0, <1>21 DEF IInv, TypeOK, NoLeakedPin, PinsBelongToTargets, Open, ResumeCampaign,
       ReleaseUnlinked
  <2>5. PendingTargetsEligible'
    BY <1>0, <1>21 DEF IInv, TypeOK, PendingTargetsEligible, Eligible, ResumeCampaign,
       ReleaseUnlinked
  <2>6. RunningRowsHaveWorkers'
    BY <1>0, <1>21 DEF IInv, TypeOK, RunningRowsHaveWorkers, PumpOrder, ResumeCampaign,
       ReleaseUnlinked
  <2>7. CertificationEndsCampaign'
    BY <1>0, <1>21 DEF IInv, TypeOK, CertificationEndsCampaign, PumpOrder,
       PendingTargetsEligible, Eligible, ResumeCampaign, ReleaseUnlinked
  <2>8. JobsMatchCandidates' /\ ResultsComeFromWorkers' /\ CertifiedIsSound'
    BY <1>0, <1>21 DEF IInv, TypeOK, JobsMatchCandidates, PendingTargetsEligible, Eligible,
       Open, ResultsComeFromWorkers, CertifiedIsSound, ResumeCampaign, ReleaseUnlinked
  <2> QED BY <1>0, <2>1, <2>2, <2>3, <2>4, <2>5, <2>6, <2>7, <2>8 DEF IInv
<1>22. ASSUME RecoverInterrupted PROVE IInv'
  <2>1. PumpOrder'
    BY <1>0, <1>22 DEF IInv, TypeOK, PumpOrder, RecoverInterrupted
  <2>2. JobsMatchCandidates'
    BY <1>0, <1>22 DEF IInv, TypeOK, JobsMatchCandidates, PendingTargetsEligible, Eligible,
       Open, RecoverInterrupted
  <2>3. ClaimedCandidatesPinned'
    BY <1>0, <1>22 DEF IInv, TypeOK, ClaimedCandidatesPinned, PinsBelongToTargets, Open,
       RecoverInterrupted
  <2>4. NoLeakedPin'
    BY <1>0, <1>22 DEF IInv, TypeOK, NoLeakedPin, PinsBelongToTargets, Open, RecoverInterrupted
  <2>5. RunningRowsHaveWorkers'
    BY <1>0, <1>22 DEF IInv, TypeOK, RunningRowsHaveWorkers, PumpOrder, RecoverInterrupted
  <2>6. PinsBelongToTargets' /\ ResultsComeFromWorkers' /\ PendingTargetsEligible' /\
     CertifiedIsSound' /\ CertificationEndsCampaign'
    BY <1>0, <1>22 DEF IInv, TypeOK, PinsBelongToTargets, ResultsComeFromWorkers,
       PendingTargetsEligible, Eligible, CertifiedIsSound, CertificationEndsCampaign, PumpOrder,
       RecoverInterrupted
  <2> QED BY <1>0, <2>1, <2>2, <2>3, <2>4, <2>5, <2>6 DEF IInv
<1>23. CASE UNCHANGED vars
  BY <1>0, <1>23 DEF IInv, TypeOK, PumpOrder, JobsMatchCandidates, PendingTargetsEligible,
     Eligible, Open, PinsBelongToTargets, ResultsComeFromWorkers, ClaimedCandidatesPinned,
     NoLeakedPin, RunningRowsHaveWorkers, CertifiedIsSound, CertificationEndsCampaign, vars
<1> HIDE DEF durable, broker, processes
<1> QED
  BY <1>1, <1>2, <1>3, <1>4, <1>5, <1>6, <1>7, <1>8, <1>9, <1>10, <1>11, <1>12, <1>13, <1>14, <1>15, <1>16, <1>17, <1>18, <1>19, <1>20, <1>21, <1>22, <1>23 DEF Next, Pump, Dispatch, Poll

(* IInv holds in every reachable state.                                    *)
THEOREM InvariantHolds == Spec => []IInv
BY InvariantInit, InvariantNext, PTL DEF Spec

(* "Accepted candidate target is pinned", for every number of candidates,  *)
(* actions and attempts: from commit_decision_batch until the outcome, and *)
(* from there until the job has ended, a pin holds the candidate.          *)
THEOREM ClaimsArePinned == Spec => []ClaimedCandidatesPinned
<1>1. IInv => ClaimedCandidatesPinned
  BY DEF IInv
<1> QED BY <1>1, InvariantHolds, PTL

(* No pin outlives the action or the job it protects.                      *)
THEOREM PinsAreReleased == Spec => []NoLeakedPin
<1>1. IInv => NoLeakedPin
  BY DEF IInv
<1> QED BY <1>1, InvariantHolds, PTL

(* queue_verification_action never meets a rejected or certified target.   *)
THEOREM TargetsStayEligible == Spec => []PendingTargetsEligible
<1>1. IInv => PendingTargetsEligible
  BY DEF IInv
<1> QED BY <1>1, InvariantHolds, PTL

(* Running rows and the broker's processes agree outside recovery.         *)
THEOREM RowsMatchWorkers == Spec => []RunningRowsHaveWorkers
<1>1. IInv => RunningRowsHaveWorkers
  BY DEF IInv
<1> QED BY <1>1, InvariantHolds, PTL

(* Job rows and candidate rows never disagree about a verdict.             *)
THEOREM RowsAgree == Spec => []JobsMatchCandidates
<1>1. IInv => JobsMatchCandidates
  BY DEF IInv
<1> QED BY <1>1, InvariantHolds, PTL

(* With one faulty verifier at most, no graph with a forbidden cycle is    *)
(* ever certified.                                                         *)
THEOREM CertificationSound == Spec => []CertifiedIsSound
<1>1. IInv => CertifiedIsSound
  BY DEF IInv
<1> QED BY <1>1, InvariantHolds, PTL

(* The campaign succeeds with the first certified candidate, once.         *)
THEOREM SuccessMeansCertified == Spec => []CertificationEndsCampaign
<1>1. IInv => CertificationEndsCampaign
  BY DEF IInv
<1> QED BY <1>1, InvariantHolds, PTL

-----------------------------------------------------------------------------
(* What a step may not do.                                                 *)

(* Completing a job that poll() looks at gives its candidate the verdict   *)
(* of the status, and no other candidate changes.                          *)
LEMMA CompleteRows ==
    ASSUME IInv, NEW c \in visit, phase = "poll", NEW status, CompleteVerificationJob(c, status)
    PROVE  /\ c \in Candidates /\ job[c] = "running" /\ candidate[c] = "promoted"
           /\ job' = [job EXCEPT ![c] = JobStateOf(status)]
           /\ candidate' = [candidate EXCEPT ![c] = CandidateStateOf(status)]
           /\ campaign \in {"running", "succeeded"}
<1>1. c \in Candidates /\ job[c] = "running" /\ candidate[c] = "promoted" /\ campaign # "stopped"
  BY DEF IInv, TypeOK, PumpOrder, RunningRowsHaveWorkers, JobsMatchCandidates, Open
<1> QED BY <1>1 DEF CompleteVerificationJob, FirstSuccess, IInv, TypeOK, CampaignStates

(* Every other step leaves all verdicts, success rows and the success of   *)
(* the campaign as they are.                                               *)
Undecided ==
    /\ \A c \in Candidates : job[c] = "completed" <=> job'[c] = "completed"
    /\ \A c \in Candidates : \A v \in {"certified", "rejected"} : candidate[c] = v <=> candidate'[c] = v
    /\ success' = success
    /\ campaign = "succeeded" <=> campaign' = "succeeded"

(* A step either leaves every verdict, every success event and the success *)
(* of the campaign alone, or is a completion by poll().                    *)
LEMMA OnlyPollDecides ==
    ASSUME IInv, [Next]_vars
    PROVE  \/ Undecided
           \/ \E c \in visit : \E status :
                 /\ phase = "poll" /\ CompleteVerificationJob(c, status)
                 /\ status = "COUNTEREXAMPLE_VERIFIED" => c \in CycleFree
<1> USE DEF durable, broker, processes, Undecided
<1>1. ASSUME NEW c \in Candidates, Retain(c) PROVE Undecided
  BY <1>1 DEF Retain, IInv, TypeOK
<1>2. ASSUME NEW a \in Actions, DispatchQueue(a) PROVE Undecided
  <2>1. \A c \in targets[a] : candidate[c] \in Eligible
    BY <1>2 DEF DispatchQueue, IInv, PumpOrder, PendingTargetsEligible
  <2>2. QueueVerificationAction(a) /\ success' = success /\ campaign' = campaign
    BY <1>2, <2>1 DEF DispatchQueue, Eligible
  <2> QED BY <2>1, <2>2 DEF QueueVerificationAction, QueuedPin, Eligible, IInv, TypeOK
<1>3. ASSUME NEW c \in Candidates, StartReady(c) PROVE Undecided
  BY <1>3 DEF StartReady, IInv, TypeOK
<1>4. ASSUME NEW c \in Candidates, NEW readable \in BOOLEAN, PollResult(c, readable)
      PROVE \E d \in visit : \E status :
               /\ phase = "poll" /\ CompleteVerificationJob(d, status)
               /\ status = "COUNTEREXAMPLE_VERIFIED" => d \in CycleFree
  <2>1. (readable /\ writer[c] = attempt) \in BOOLEAN
    OBVIOUS
  <2> QED BY <1>4, <2>1, CommittedSound DEF PollResult
<1>5. ASSUME NEW c \in Candidates, PollFailure(c)
      PROVE \E d \in visit : \E status :
               /\ phase = "poll" /\ CompleteVerificationJob(d, status)
               /\ status = "COUNTEREXAMPLE_VERIFIED" => d \in CycleFree
  BY <1>5 DEF PollFailure
<1>6. ASSUME Shutdown PROVE Undecided
  BY <1>6 DEF Shutdown
<1>7. ASSUME ResumeCampaign PROVE Undecided
  BY <1>7 DEF ResumeCampaign
<1>8. ASSUME RecoverInterrupted PROVE Undecided
  BY <1>8 DEF RecoverInterrupted, IInv, TypeOK
<1>9. ASSUME NEW a \in Actions, DispatchExpired(a) \/ DispatchQueueFull(a) \/ LeaseExpires(a)
      PROVE Undecided
  BY <1>9 DEF DispatchExpired, DispatchQueueFull, LeaseExpires
<1>10. ASSUME NEW a \in Actions, NEW T \in SUBSET Candidates \ {{}}, NEW fresh \in BOOLEAN,
              Commit(a, T, fresh)
       PROVE Undecided
  BY <1>10 DEF Commit
<1>11. ASSUME PumpBegin \/ DispatchEnd \/ StartEnd \/ PollEnd PROVE Undecided
  BY <1>11 DEF PumpBegin, DispatchEnd, StartEnd, PollEnd
<1>12. ASSUME NEW c \in Candidates, PollNothing(c) \/ WallTimeLimit(c) PROVE Undecided
  BY <1>12 DEF PollNothing, WallTimeLimit
<1>13. ASSUME NEW c \in Candidates, NEW m \in Manifests, WorkerReports(c, m) PROVE Undecided
  BY <1>13 DEF WorkerReports
<1>14. ASSUME NEW c \in Candidates, NEW how \in {"errored", "exited"}, WorkerFails(c, how)
       PROVE Undecided
  BY <1>14 DEF WorkerFails
<1>15. ASSUME NEW o \in orphans, NEW writes \in BOOLEAN, OrphanEnds(o, writes) PROVE Undecided
  BY <1>15 DEF OrphanEnds
<1>16. ASSUME NEW survivors \in SUBSET Candidates, Crash(survivors) PROVE Undecided
  BY <1>16 DEF Crash
<1>17. CASE UNCHANGED vars
  BY <1>17 DEF vars
<1> HIDE DEF durable, broker, processes, Undecided
<1> QED
  BY <1>1, <1>2, <1>3, <1>4, <1>5, <1>6, <1>7, <1>8, <1>9, <1>10, <1>11, <1>12, <1>13, <1>14,
     <1>15, <1>16, <1>17 DEF Next, Pump, Dispatch, Poll

(* "A terminal completed job is not repeated on Resume", nor anywhere else,*)
(* and its verdict stands.                                                 *)
THEOREM VerdictsAreFinal == Spec => VerdictsFinal
<1> DEFINE Final == \A c \in Candidates :
              /\ job[c] = "completed" => job'[c] = "completed"
              /\ candidate[c] \in {"certified", "rejected"} => candidate'[c] = candidate[c]
<1>1. ASSUME IInv, [Next]_vars PROVE [Final]_vars
  <2>1. CASE Undecided
    BY <2>1 DEF Undecided
  <2>2. ASSUME NEW c \in visit, NEW status, phase = "poll", CompleteVerificationJob(c, status)
        PROVE Final
    BY <1>1, <2>2, CompleteRows DEF IInv, TypeOK
  <2> QED BY <1>1, <2>1, <2>2, OnlyPollDecides
<1> QED BY <1>1, InvariantHolds, PTL DEF Spec, VerdictsFinal

-----------------------------------------------------------------------------
(* The bounded queue.                                                      *)

OpenJobs == {c \in Candidates : job[c] \in Open}

(* Only queue_verification_action opens a job, and only for its targets.   *)
LEMMA OnlyDispatchOpens ==
    ASSUME IInv, [Next]_vars
    PROVE  \/ OpenJobs' \subseteq OpenJobs
           \/ \E a \in Actions : /\ QueueDepth + Cardinality(targets[a]) <= MaxQueue
                                 /\ OpenJobs' \subseteq OpenJobs \cup targets[a]
<1> USE DEF IInv, TypeOK
<1>1. ASSUME UNCHANGED job PROVE OpenJobs' \subseteq OpenJobs
  BY <1>1 DEF OpenJobs
<1>2. ASSUME NEW c \in Candidates, NEW status \in Statuses, CompleteVerificationJob(c, status)
      PROVE  OpenJobs' \subseteq OpenJobs
  BY <1>2, StatusRows DEF CompleteVerificationJob, OpenJobs, Open
<1>3. ASSUME NEW a \in Actions, DispatchQueue(a)
      PROVE  /\ QueueDepth + Cardinality(targets[a]) <= MaxQueue
             /\ OpenJobs' \subseteq OpenJobs \cup targets[a]
  BY <1>3 DEF DispatchQueue, QueueVerificationAction, OpenJobs, Open
<1>4. ASSUME NEW c \in Candidates, StartReady(c) PROVE OpenJobs' \subseteq OpenJobs
  BY <1>4 DEF StartReady, OpenJobs, Open
<1>5. ASSUME RecoverInterrupted PROVE OpenJobs' \subseteq OpenJobs
  BY <1>5 DEF RecoverInterrupted, OpenJobs, Open
<1>6. ASSUME NEW c \in Candidates, NEW readable \in BOOLEAN, PollResult(c, readable)
      PROVE  OpenJobs' \subseteq OpenJobs
  <2>1. CommittedStatus(result[c], readable /\ writer[c] = attempt) \in Statuses
    BY DEF CommittedStatus, Manifests, Statuses
  <2> QED BY <1>2, <1>6, <2>1 DEF PollResult
<1>7. ASSUME NEW c \in Candidates, PollFailure(c) PROVE OpenJobs' \subseteq OpenJobs
  BY <1>2, <1>7 DEF PollFailure, Statuses
<1> HIDE DEF IInv, TypeOK
<1>8. CASE UNCHANGED vars
  BY <1>1, <1>8 DEF vars, durable
<1>9. CASE Next
  BY <1>1, <1>3, <1>4, <1>5, <1>6, <1>7, <1>9
     DEF Next, Pump, Dispatch, Poll, durable, Retain, Commit, LeaseExpires, PumpBegin,
         DispatchExpired, DispatchQueueFull, DispatchEnd, StartEnd, PollNothing, PollEnd,
         WorkerReports, WorkerFails, WallTimeLimit, OrphanEnds, Shutdown, Crash, ResumeCampaign
<1> QED BY <1>8, <1>9

(* The queue bound survives every dispatch, retry, crash and resume.       *)
THEOREM QueueStaysBounded == IsFiniteSet(Candidates) => (Spec => []QueueBounded)
<1> SUFFICES ASSUME IsFiniteSet(Candidates) PROVE Spec => []QueueBounded
  OBVIOUS
<1>1. Init => QueueBounded
  <2> SUFFICES ASSUME Init PROVE QueueBounded
    OBVIOUS
  <2>1. {c \in Candidates : job[c] \in Open} = {}
    BY DEF Init, Open
  <2> QED BY <2>1, FS_EmptySet, BoundsAssumption DEF QueueBounded
<1>2. IInv /\ QueueBounded /\ [Next]_vars => QueueBounded'
  <2> SUFFICES ASSUME IInv, QueueBounded, [Next]_vars PROVE QueueBounded'
    OBVIOUS
  <2>1. IsFiniteSet(OpenJobs) /\ IsFiniteSet(OpenJobs')
    BY FS_Subset DEF OpenJobs
  <2>2. Cardinality(OpenJobs) \in Nat /\ Cardinality(OpenJobs') \in Nat
    BY <2>1, FS_CardinalityType
  <2>3. Cardinality(OpenJobs) <= MaxQueue /\ MaxQueue \in Nat
    BY BoundsAssumption DEF QueueBounded, OpenJobs
  <2>4. CASE OpenJobs' \subseteq OpenJobs
    <3>1. Cardinality(OpenJobs') <= Cardinality(OpenJobs)
      BY <2>1, <2>4, FS_Subset
    <3> QED BY <2>2, <2>3, <3>1 DEF QueueBounded, OpenJobs
  <2>5. ASSUME NEW a \in Actions, QueueDepth + Cardinality(targets[a]) <= MaxQueue,
               OpenJobs' \subseteq OpenJobs \cup targets[a]
        PROVE  QueueBounded'
    <3>1. IsFiniteSet(targets[a])
      BY FS_Subset DEF IInv, TypeOK
    <3>2. Cardinality(targets[a]) \in Nat /\ Cardinality(OpenJobs \cap targets[a]) \in Nat
      BY <2>1, <3>1, FS_CardinalityType, FS_Intersection
    <3>3. /\ IsFiniteSet(OpenJobs \cup targets[a])
          /\ Cardinality(OpenJobs \cup targets[a]) =
                Cardinality(OpenJobs) + Cardinality(targets[a]) - Cardinality(OpenJobs \cap targets[a])
      BY <2>1, <3>1, FS_Union
    <3>4. Cardinality(OpenJobs') <= Cardinality(OpenJobs \cup targets[a])
      BY <2>5, <3>3, FS_Subset
    <3>5. Cardinality(OpenJobs) + Cardinality(targets[a]) <= MaxQueue
      BY <2>5 DEF QueueDepth, OpenJobs
    <3>6. Cardinality(OpenJobs') <= MaxQueue
      BY <2>2, <2>3, <3>2, <3>3, <3>4, <3>5
    <3> QED BY <3>6 DEF QueueBounded, OpenJobs
  <2> QED BY <2>4, <2>5, OnlyDispatchOpens
<1> QED BY <1>1, <1>2, InvariantHolds, PTL DEF Spec

-----------------------------------------------------------------------------
(* Refinement: the store and the broker implement Certification.           *)

(* A fresh campaign has no verdict.                                        *)
LEMMA AbstractInit == Init => Abstract!Init
BY DEF Init, Abstract!Init

(* Under the invariant every step is a certification, a rejection or no    *)
(* step of the abstract specification.                                     *)
LEMMA AbstractNext == IInv /\ [Next]_vars => [Abstract!Next]_(Abstract!vars)
<1> SUFFICES ASSUME IInv, [Next]_vars PROVE [Abstract!Next]_(Abstract!vars)
  OBVIOUS
<1> DEFINE verdictOf(row) == [c \in Candidates |-> IF row[c] \in {"certified", "rejected"}
                                                  THEN row[c] ELSE "open"]
<1>1. CASE Undecided
  <2>1. verdictOf(candidate') = verdictOf(candidate)
    BY <1>1 DEF Undecided
  <2> QED BY <1>1, <2>1 DEF Undecided, Abstract!vars
<1>2. ASSUME NEW c \in visit, NEW status, phase = "poll", CompleteVerificationJob(c, status),
             status = "COUNTEREXAMPLE_VERIFIED" => c \in CycleFree
      PROVE [Abstract!Next]_(Abstract!vars)
  <2>1. /\ c \in Candidates /\ job[c] = "running" /\ candidate[c] = "promoted"
        /\ candidate' = [candidate EXCEPT ![c] = CandidateStateOf(status)]
        /\ campaign \in {"running", "succeeded"}
    BY <1>2, CompleteRows
  <2>2. CASE status = "COUNTEREXAMPLE_VERIFIED"
    <3>1. CandidateStateOf(status) = "certified" /\ c \in CycleFree
      BY <1>2, <2>2, StatusRows
    <3>2. verdictOf(candidate') = [verdictOf(candidate) EXCEPT ![c] = "certified"]
      BY <2>1, <3>1 DEF IInv, TypeOK
    <3>3. campaign' = "succeeded"
      BY <1>2, <2>1, <2>2 DEF CompleteVerificationJob, FirstSuccess
    <3>4. success' = IF campaign = "succeeded" THEN success ELSE {c}
      BY <1>2, <2>1, <2>2 DEF CompleteVerificationJob, FirstSuccess, IInv, CertificationEndsCampaign
    <3>5. Abstract!Certify(c)
      BY <2>1, <3>1, <3>2, <3>3, <3>4 DEF Abstract!Certify
    <3> QED BY <2>1, <3>5 DEF Abstract!Next
  <2>3. CASE status # "COUNTEREXAMPLE_VERIFIED"
    <3>1. campaign' = campaign /\ success' = success
      BY <1>2, <2>1, <2>3 DEF CompleteVerificationJob, FirstSuccess
    <3>2. CASE CandidateStateOf(status) = "rejected"
      <4>1. verdictOf(candidate') = [verdictOf(candidate) EXCEPT ![c] = "rejected"]
        BY <2>1, <3>2 DEF IInv, TypeOK
      <4>2. Abstract!Reject(c)
        BY <2>1, <3>1, <4>1 DEF Abstract!Reject
      <4> QED BY <2>1, <4>2 DEF Abstract!Next
    <3>3. CASE CandidateStateOf(status) = "retained"
      <4>1. verdictOf(candidate') = verdictOf(candidate)
        BY <2>1, <3>3 DEF IInv, TypeOK
      <4> QED BY <3>1, <4>1 DEF Abstract!vars
    <3> QED BY <2>3, <3>2, <3>3, StatusRows
  <2> QED BY <2>2, <2>3
<1> QED BY <1>1, <1>2, OnlyPollDecides

(* The detailed specification implements the abstract promise.             *)
THEOREM Refinement == Spec => ImplementsCertification
BY AbstractInit, AbstractNext, InvariantHolds, PTL
   DEF Spec, ImplementsCertification, Abstract!Spec

-----------------------------------------------------------------------------
(***************************************************************************)
(* One certification, step by step (M4Certify)                             *)
(***************************************************************************)

(* The two runs are ones the graph and the faulty implementation admit,    *)
(* and what is committed comes from their manifest.                        *)
CertifyInv ==
    /\ graph \in Instances
    /\ step \in {"reference", "checker", "manifest", "committed"}
    /\ step # "reference" => refRun \in ReferenceRuns(graph.admissible, graph.cycleFree, graph.faulty)
    /\ step \in {"manifest", "committed"} => cppRun \in CheckerRunsOn(graph.cycleFree, graph.faulty)
    /\ IF step = "committed"
       THEN committed \in {Manifest(refRun, cppRun).status, "TOOL_FAILURE"}
       ELSE committed = "none"

(* A checker that reports FOUND has a payload that passed                  *)
(* _cyclecheck_payload_error, so the graph has the cycle.                  *)
LEMMA FoundHasCycle ==
    ASSUME NEW cycleFree \in BOOLEAN, NEW faulty, NEW run \in CheckerRunsOn(cycleFree, faulty),
           VerifyCpp(run).status = "FOUND"
    PROVE  ~cycleFree
<1>1. CheckerStatus(run) = "FOUND"
  BY DEF VerifyCpp
<1>2. run.payload = "FOUND" /\ run \in CheckerRuns
  BY <1>1 DEF CheckerStatus, CheckerRunsOn, MissingChecker
<1> QED
  BY <1>2 DEF CheckerRunsOn, MissingChecker

(* A success needs both answers, and one of the two is honest.             *)
LEMMA CertifiedIsCycleFree ==
    ASSUME NEW admissible \in BOOLEAN, NEW cycleFree \in BOOLEAN, NEW faulty,
           NEW ref \in ReferenceRuns(admissible, cycleFree, faulty),
           NEW cpp \in CheckerRunsOn(cycleFree, faulty),
           Manifest(ref, cpp).status = "COUNTEREXAMPLE_VERIFIED"
    PROVE  cycleFree
<1>1. CertifyStatus(VerifyReference(ref), VerifyCpp(cpp)) = "COUNTEREXAMPLE_VERIFIED"
  BY DEF Manifest
<1>2. VerifyReference(ref).status = "VERIFIED" /\ VerifyCpp(cpp).status = "ABSENT"
  BY <1>1, SuccessNeedsBoth
<1>3. ref = "VERIFIED"
  BY <1>2, ReferenceVerified DEF ReferenceRuns, HonestReference, ReferenceAnswers, ReferenceFates
<1>4. CheckerStatus(cpp) = "ABSENT"
  BY <1>2 DEF VerifyCpp
<1>5. cpp \in CheckerRuns /\ cpp.payload = "ABSENT"
  BY <1>4, CheckerAbsent DEF CheckerRunsOn
<1>6. cycleFree \/ faulty = "checker"
  BY <1>5 DEF CheckerRunsOn, MissingChecker
<1>7. faulty # "reference" => cycleFree
  BY <1>3 DEF ReferenceRuns, HonestReference, ReferenceFates
<1> QED
  BY <1>6, <1>7

(* A rejection of a real counterexample needs the reference's INVALID.     *)
LEMMA RejectionOfATrueOne ==
    ASSUME NEW ref \in ReferenceFates \cup ReferenceAnswers, NEW faulty,
           NEW cpp \in CheckerRunsOn(TRUE, faulty),
           Manifest(ref, cpp).status = "INVALID_CANDIDATE"
    PROVE  ref = "INVALID"
<1>1. VerifyReference(ref).status = "INVALID" \/ VerifyCpp(cpp).status = "FOUND"
  BY DEF Manifest, CertifyStatus
<1>2. VerifyCpp(cpp).status # "FOUND"
  BY FoundHasCycle
<1> QED
  BY <1>1, <1>2 DEF VerifyReference, ReferenceFates, ReferenceAnswers

(* The invariant holds before the reference is run.                        *)
LEMMA CertifyInvInit == CertifyInit => CertifyInv
BY DEF CertifyInit, CertifyInv

(* Every run of a verifier, the cross-check and the commit keep it.        *)
LEMMA CertifyInvNext == CertifyInv /\ [CertifyNext]_certifyVars => CertifyInv'
<1> SUFFICES ASSUME CertifyInv, [CertifyNext]_certifyVars PROVE CertifyInv'
  OBVIOUS
<1>1. ASSUME NEW run, RunReference(run) PROVE CertifyInv'
  BY <1>1 DEF RunReference, CertifyInv
<1>2. ASSUME NEW run, RunChecker(run) PROVE CertifyInv'
  BY <1>2 DEF RunChecker, CertifyInv
<1>3. ASSUME NEW intact \in BOOLEAN, PollManifest(intact) PROVE CertifyInv'
  BY <1>3 DEF PollManifest, CommittedStatus, CertifyInv
<1>4. CASE UNCHANGED certifyVars
  BY <1>4 DEF certifyVars, CertifyInv
<1> QED
  BY <1>1, <1>2, <1>3, <1>4 DEF CertifyNext

(* It contains a single fault: a committed verdict against the graph needs *)
(* both verifiers, or a reference that calls the graph inadmissible.       *)
LEMMA CertifyInvContains == CertifyInv => SingleFaultContained
<1> SUFFICES ASSUME CertifyInv PROVE SingleFaultContained
  OBVIOUS
<1>1. graph.admissible \in BOOLEAN /\ graph.cycleFree \in BOOLEAN
  BY DEF CertifyInv, Instances
<1>2. CASE step # "committed"
  BY <1>2 DEF CertifyInv, SingleFaultContained
<1>3. CASE step = "committed"
  <2>1. /\ refRun \in ReferenceRuns(graph.admissible, graph.cycleFree, graph.faulty)
        /\ cppRun \in CheckerRunsOn(graph.cycleFree, graph.faulty)
        /\ committed \in {Manifest(refRun, cppRun).status, "TOOL_FAILURE"}
    BY <1>3 DEF CertifyInv
  <2>2. committed = "COUNTEREXAMPLE_VERIFIED" => graph.cycleFree
    BY <1>1, <2>1, CertifiedIsCycleFree
  <2>3. ASSUME committed = "INVALID_CANDIDATE", graph.admissible, graph.cycleFree
        PROVE  refRun = "INVALID"
    <3>1. refRun \in ReferenceFates \cup ReferenceAnswers
      BY <2>1 DEF ReferenceRuns, HonestReference, ReferenceAnswers
    <3>2. cppRun \in CheckerRunsOn(TRUE, graph.faulty)
      BY <1>1, <2>1, <2>3
    <3> QED
      BY <2>1, <2>3, <3>1, <3>2, RejectionOfATrueOne
  <2> QED
    BY <2>2, <2>3 DEF SingleFaultContained
<1> QED
  BY <1>2, <1>3

(* One lying implementation certifies no graph with a forbidden cycle, and *)
(* a real counterexample is lost to a lie only through the reference's     *)
(* INVALID.                                                                *)
THEOREM OneFaultCertifiesNothingFalse == CertifySpec => []SingleFaultContained
BY CertifyInvInit, CertifyInvNext, CertifyInvContains, PTL DEF CertifySpec
=============================================================================
