------------------------------ MODULE M4Verdict ------------------------------
(***************************************************************************)
(* The verdict pipeline of M4: what the two verifier paths report for one  *)
(* graph, the status certify() derives from the pair, which manifests the  *)
(* broker believes, and which job and candidate states a status becomes.   *)
(* Graphs, witnesses, timings and messages are abstracted away; every      *)
(* condition on exit status, payload and completeness is kept.             *)
(***************************************************************************)

(* What exact_verify can say of a graph that is (not) an admissible,       *)
(* forbidden-cycle-free graph, when the implementation is right.           *)
HonestReference(admissible, cycleFree) ==
    IF ~admissible THEN "INVALID" ELSE IF cycleFree THEN "VERIFIED" ELSE "REJECTED"

(* Fates of the reference worker process other than an answer.             *)
ReferenceFates == {"timeout", "memory_error", "died", "silent"}
ReferenceAnswers == {"VERIFIED", "REJECTED", "INVALID"}

(* verify_reference_bounded: the broker always sets a memory limit, so a   *)
(* worker that died without an answer counts as out of memory.             *)
VerifyReferenceOptimistic(run) ==  \* variant: a search cut short found nothing
    LET answered == run \in ReferenceAnswers \cup {"timeout"} IN
    [status   |-> IF run = "timeout" THEN "VERIFIED" ELSE IF answered THEN run ELSE "TOOL_FAILURE",
     complete |-> answered]

VerifyReference(run) ==
    [status   |-> IF run \in ReferenceAnswers THEN run
                  ELSE IF run = "timeout" THEN "UNKNOWN_TIMEOUT"
                  ELSE IF run \in {"memory_error", "died"} THEN "UNKNOWN_MEMORY_LIMIT"
                  ELSE "TOOL_FAILURE",
     complete |-> run \in ReferenceAnswers]

(* One execution of the cycle checker: how the bounded process ended and   *)
(* what it printed.  "malformed" is JSON that _cyclecheck_payload_error    *)
(* refuses, "alloc" an ERROR payload that mentions an allocation.          *)
CheckerExits == {"ok", "timeout", "nonzero"}
CheckerPayloads == {"FOUND", "ABSENT", "TIMEOUT", "ERROR", "alloc", "malformed", "garbage"}
CheckerRuns == [exit : CheckerExits, payload : CheckerPayloads]
MissingChecker == [exit |-> "missing", payload |-> "garbage"]

(* The ways either path may run on a graph when at most the implementation *)
(* named by "faulty" lies.  A FOUND payload carries a witness that         *)
(* _cyclecheck_payload_error checks against the graph, so even a faulty    *)
(* checker cannot invent a cycle.                                          *)
ReferenceRuns(admissible, cycleFree, faulty) ==
    ReferenceFates \cup
    (IF faulty = "reference" THEN ReferenceAnswers ELSE {HonestReference(admissible, cycleFree)})

CheckerRunsOn(cycleFree, faulty) ==
    {MissingChecker} \cup
    {r \in CheckerRuns : /\ r.payload = "FOUND" => ~cycleFree
                         /\ r.payload = "ABSENT" => cycleFree \/ faulty = "checker"}

(* verify_cpp under a memory limit.  Garbage from a failed process counts  *)
(* as out of memory; an ERROR about an allocation is renamed first and     *)
(* then, no longer an ERROR, turned into a tool failure by a nonzero exit. *)
(* "named" says whether the report carries its implementation name.        *)
CheckerStatusOptimistic(run) ==  \* variant: a checker out of time found no cycle
    IF run.exit = "timeout" \/ run.payload = "TIMEOUT" THEN "ABSENT"
    ELSE IF run.exit = "ok" /\ run.payload \in {"FOUND", "ABSENT"} THEN run.payload
    ELSE "TOOL_FAILURE"

CheckerStatus(run) ==
    IF run.exit = "timeout" \/ (run.exit # "missing" /\ run.payload = "TIMEOUT") THEN "UNKNOWN_TIMEOUT"
    ELSE IF run.exit = "nonzero" /\ run.payload = "garbage" THEN "UNKNOWN_MEMORY_LIMIT"
    ELSE IF run.exit = "ok" /\ run.payload = "alloc" THEN "UNKNOWN_MEMORY_LIMIT"
    ELSE IF run.exit # "missing" /\ run.payload = "ERROR" THEN "ERROR"
    ELSE IF run.exit = "ok" /\ run.payload \in {"FOUND", "ABSENT"} THEN run.payload
    ELSE "TOOL_FAILURE"

VerifyCpp(run) ==
    [status   |-> CheckerStatus(run),
     complete |-> CheckerStatus(run) \in {"FOUND", "ABSENT"},
     named    |-> \/ run.exit = "timeout"
                  \/ /\ run.exit \in {"ok", "nonzero"}
                     /\ run.payload \notin {"garbage", "malformed"}]

(* certify: the status of the manifest, in the order of its tests.         *)
CertifyStatus(ref, cpp) ==
    LET either(s) == ref.status = s \/ cpp.status = s IN
    IF ref.status = "INVALID" THEN "INVALID_CANDIDATE"
    ELSE IF either("UNKNOWN_TIMEOUT") THEN "UNKNOWN_TIMEOUT"
    ELSE IF either("UNKNOWN_MEMORY_LIMIT") THEN "UNKNOWN_MEMORY_LIMIT"
    ELSE IF either("TOOL_FAILURE") \/ cpp.status = "ERROR" THEN "TOOL_FAILURE"
    ELSE IF ref.status = "VERIFIED" /\ cpp.status = "ABSENT" THEN "COUNTEREXAMPLE_VERIFIED"
    ELSE IF ref.status = "REJECTED" /\ cpp.status = "FOUND" THEN "INVALID_CANDIDATE"
    ELSE "VERIFIER_DISAGREEMENT"

(* _valid_manifest: both implementations are named and, for a success,     *)
(* both reports are complete and favourable.                               *)
ValidManifest(status, ref, cpp) ==
    /\ cpp.named
    /\ status = "COUNTEREXAMPLE_VERIFIED" =>
          /\ {ref.status, cpp.status} = {"VERIFIED", "ABSENT"}
          /\ ref.complete /\ cpp.complete

Statuses == {"COUNTEREXAMPLE_VERIFIED", "INVALID_CANDIDATE", "UNKNOWN_TIMEOUT",
             "UNKNOWN_MEMORY_LIMIT", "TOOL_FAILURE", "VERIFIER_DISAGREEMENT"}

(* What the worker puts on its result queue: the manifest, reduced to its  *)
(* status and to whether _valid_manifest accepts it.                       *)
Manifest(refRun, cppRun) ==
    LET ref == VerifyReference(refRun)
        cpp == VerifyCpp(cppRun)
        status == CertifyStatus(ref, cpp)
    IN [status |-> status, valid |-> ValidManifest(status, ref, cpp)]

Manifests == [status : Statuses, valid : BOOLEAN]

(* poll: the status committed for a manifest that was (not) re-read from   *)
(* disk unchanged.                                                         *)
CommittedStatus(manifest, intact) ==
    IF intact /\ manifest.valid THEN manifest.status ELSE "TOOL_FAILURE"

(* complete_verification_job: the row states a status becomes.             *)
JobStateOf(status) ==
    IF status \in {"COUNTEREXAMPLE_VERIFIED", "INVALID_CANDIDATE"} THEN "completed"
    ELSE IF status = "VERIFIER_DISAGREEMENT" THEN "failed" ELSE "unknown"

CandidateStateOf(status) ==
    IF status = "COUNTEREXAMPLE_VERIFIED" THEN "certified"
    ELSE IF status = "INVALID_CANDIDATE" THEN "rejected" ELSE "retained"
=============================================================================
