SPECIFICATION Spec
CONSTANTS
    Call = {c1, c2, c3}
    Key = {k1, k2}
    Payload = {a1, a2}
    NoCall = none
INVARIANTS
    OneSubmissionPerKey
    AnswersAreTrue
    SubmissionIsWhole
    AcceptedIsKept
SYMMETRY Symmetry
CHECK_DEADLOCK FALSE
