SPECIFICATION Spec
CONSTANTS
    c1 = c1
    c2 = c2
    r1 = r1
    r2 = r2
    None = None
    Ends = {"succeeded_certified_counterexample", "budget_exhausted"}
    Commands <- MCCommands
    Runners <- MCRunners
    MaxRequests = 1
SYMMETRY MCSymmetry
INVARIANTS
    FilesNameRows
    AttemptsAccounted
PROPERTY
    RequestsFresh
CHECK_DEADLOCK FALSE
