SPECIFICATION Spec
CONSTANTS
    Job = {j1}
    Orphan = {}
    Proc = {p1, p2}
    WorkerId <- SharedId
    MaxAttempts = 2
    HolderMayStall = TRUE
    NoWorker = none
    NoJob = nojob
INVARIANTS
    NoStrandedJob
