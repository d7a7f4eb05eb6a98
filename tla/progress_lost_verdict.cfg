SPECIFICATION Spec
CONSTANTS
    Lesson = {l1}
    Misconception = {m1}
    MisconceptionIds <- AllListed
    WithPractice = {l1}
    WithTransfer = {l1}
    Session = {s1}
    Proc = {p1}
    MaxAttempts = 3
    MaxSubmissions = 2
    None = none
INVARIANTS
    FailureIsInfrastructure
SYMMETRY Symmetry
CHECK_DEADLOCK FALSE
