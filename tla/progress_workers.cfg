SPECIFICATION Spec
CONSTANTS
    Lesson = {l1, l2}
    Misconception = {m1}
    MisconceptionIds <- AllListed
    WithPractice = {l1}
    WithTransfer = {l1}
    Session = {s1, s2}
    Proc = {p1, p2}
    MaxAttempts = 1
    MaxSubmissions = 3
    None = none
INVARIANTS
    MasteryIsEarned
    StepsAreGrounded
    OfferedStepIsAccepted
SYMMETRY Symmetry
CHECK_DEADLOCK FALSE
