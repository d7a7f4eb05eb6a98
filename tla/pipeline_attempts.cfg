SPECIFICATION PipelineFairSpec
CONSTANTS
    Slot = {e1, e2}
    Lease = 5
    StoreTime = 1
    SandboxTime = 2
INVARIANTS
    LeaseIsLive
    VerdictIsTested
PROPERTIES
    WorkerReturns
    EvaluationsEnd
