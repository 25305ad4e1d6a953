SPECIFICATION Spec
CONSTANTS
    g1 = g1
    g2 = g2
    g3 = g3
    Graphs <- MCGraphs
    Counts <- MCCounts
    Size <- MCSize
    Lengths <- MCLengths
    Cap = 2
    Algorithms = {"random_restart", "simulated_annealing", "tabu"}
    PerturbationInterval = 3
    RestartThreshold = 2
    Tenures = {1, 2}
    AncestryLimit = 2
    BatchCandidates = 2
    MaxEvaluations = 4
    MaxVersion = 1
    MaxRestores = 1
INVARIANTS
    CutoffSound
    AncestryLinked
    ResumeExact
CHECK_DEADLOCK FALSE
