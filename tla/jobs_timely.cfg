SPECIFICATION ViewFairSpec
CONSTANTS
    Job = {j1, j2, j3}
    Orphan = {j3}
    Proc = {p1, p2}
    WorkerId <- SharedId
    MaxAttempts = 2
    HolderMayStall = FALSE
    NoWorker = none
    NoJob = nojob
INVARIANTS
    TypeOK
    VerdictIffSucceeded
    NoStrandedJob
    AnnouncedOnce
    StaleWorkerNeverWrites
    ErrorMeansSucceeded
PROPERTIES
    ImplementsLifecycle
    EveryJobIsDecided
    OutcomeIsShown
