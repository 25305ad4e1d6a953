------------------------------ MODULE M4Certify ------------------------------
(***************************************************************************)
(* One verification job from certify() to the status that poll() commits:  *)
(* the reference worker, the cycle checker, the manifest and the re-read   *)
(* of the manifest from disk, for every kind of graph, every fate of the   *)
(* two processes and at most one faulty implementation.                    *)
(***************************************************************************)
EXTENDS M4Verdict

VARIABLES
    graph,      \* the truth about the graph, and which implementation may lie
    step,       \* how far the job has come
    refRun,     \* what became of the reference worker
    cppRun,     \* what became of the cycle checker
    committed   \* the status complete_verification_job is called with

certifyVars == <<graph, step, refRun, cppRun, committed>>

Instances == [admissible : BOOLEAN, cycleFree : BOOLEAN, faulty : {"none", "reference", "checker"}]

CertifyInit ==
    /\ graph \in Instances
    /\ step = "reference"
    /\ refRun = "silent" /\ cppRun = MissingChecker
    /\ committed = "none"

RunReference(run) ==
    /\ step = "reference"
    /\ run \in ReferenceRuns(graph.admissible, graph.cycleFree, graph.faulty)
    /\ refRun' = run
    /\ step' = "checker"
    /\ UNCHANGED <<graph, cppRun, committed>>

(* certify runs the checker whatever the reference said.                   *)
RunChecker(run) ==
    /\ step = "checker"
    /\ run \in CheckerRunsOn(graph.cycleFree, graph.faulty)
    /\ cppRun' = run
    /\ step' = "manifest"
    /\ UNCHANGED <<graph, refRun, committed>>

PollManifest(intact) ==
    /\ step = "manifest"
    /\ committed' = CommittedStatus(Manifest(refRun, cppRun), intact)
    /\ step' = "committed"
    /\ UNCHANGED <<graph, refRun, cppRun>>

CertifyNext ==
    \/ \E run \in ReferenceFates \cup ReferenceAnswers : RunReference(run)
    \/ \E run \in CheckerRuns \cup {MissingChecker} : RunChecker(run)
    \/ \E intact \in BOOLEAN : PollManifest(intact)

CertifySpec == CertifyInit /\ [][CertifyNext]_certifyVars

-----------------------------------------------------------------------------

(* One faulty implementation certifies no graph with a forbidden cycle;    *)
(* and a real counterexample is lost to a lie only if the reference says   *)
(* it is inadmissible, which the checker cannot contradict.  certify,      *)
(* _cyclecheck_payload_error.                                              *)
SingleFaultContained ==
    /\ committed = "COUNTEREXAMPLE_VERIFIED" => graph.cycleFree
    /\ committed = "INVALID_CANDIDATE" /\ graph.admissible /\ graph.cycleFree => refRun = "INVALID"

=============================================================================
