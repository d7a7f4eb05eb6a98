SPECIFICATION GateSpec
CONSTANTS
    Kid = {k1}
    Thread = {t1, t2}
    User = {u1}
    Lifespan = 3
    Cooldown = 1
    Timeout = 1
    Limit = 2
    Window = 2
    MaxClock = 5
    Nobody = nobody
INVARIANTS
    AcceptedKeyIsRecent
    RefusedKeyIsYoung
    QuotaKept
SYMMETRY Symmetry
CHECK_DEADLOCK FALSE
