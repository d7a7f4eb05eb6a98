SPECIFICATION FairSettledSpec
CONSTANTS
    Lesson = {i1, i2}
    Text = {x1}
    Nothing = nothing
    MaxSubmissions = 2
    MaxKeys = 2
    MaxSessions = 2
INVARIANTS
    TypeOK
    AttemptIsSubmittedOnce
    AcceptedIsRemembered
    PageIsOfOneSubmission
    CheckingMeansWork
PROPERTIES
    CheckingEnds
