SPECIFICATION Spec
CONSTANTS
    Lesson = {l1}
    Misconception = {m1}
    MisconceptionIds <- AllListed
    WithPractice = {l1}
    WithTransfer = {l1}
    Session = {s1}
    Proc = {p1}
    MaxAttempts = 2
    MaxSubmissions = 3
    None = none
INVARIANTS
    HistoryMatchesProgress
PROPERTIES
    ProgressNeverRegresses
SYMMETRY Symmetry
CHECK_DEADLOCK FALSE
