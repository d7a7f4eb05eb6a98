SPECIFICATION Spec
CONSTANTS
    Job = {j1, j2, j3}
    Orphan = {j3}
    Proc = {p1, p2, p3}
    WorkerId <- SharedId
    MaxAttempts = 2
    HolderMayStall = TRUE
    NoWorker = none
    NoJob = nojob
INVARIANTS
    SucceededHasEvaluation
PROPERTIES
    EvaluationNeverReplaced
SYMMETRY Symmetry
