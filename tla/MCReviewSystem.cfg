CONSTANTS
    backend = backend
    android = android
    Rankings <- OneRole
    NoRole = NoRole
    NoReview = NoReview
    MaxUploads = 2
    MaxAsks = 2
    Absent = Absent
    Blank = Blank
    Mixed = Mixed
    Refusal = Refusal
    Fallback = Fallback
    Unanswered = Unanswered
SPECIFICATION FairSpec
INVARIANTS
    ReviewOfShownResume
    AsksFindTheirResume
PROPERTIES
    PageKeepsCallsApart
    GenerateEnds
CHECK_DEADLOCK FALSE
