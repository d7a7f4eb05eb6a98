SPECIFICATION ContentSpec
CONSTANTS
    p1 = p1
    p2 = p2
    built = built
    tidied = tidied
    Package = {p1, p2}
    Layout = {built, tidied}
    Versions <- TwoVersions
    Operator = {o1, o2}
    MaxEntries = 2
    Torn = torn
INVARIANTS
    ContentTypeOK
    PublishedWasReviewed
    ApprovalIsInLedger
    LearnerIsNeverStuck
SYMMETRY Symmetry
