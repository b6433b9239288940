CONSTANTS
    backend = backend
    android = android
    Rankings <- TwoRoles
    NoRole = NoRole
    NoReview = NoReview
    MaxUploads = 2
    MaxAsks = 2
    Absent = Absent
    Blank = Blank
    Mixed = Mixed
    Refusal = Refusal
    Fallback = Fallback
    Unanswered = Unanswered
SPECIFICATION Spec
INVARIANT ReviewForAskedRole
CHECK_DEADLOCK FALSE
