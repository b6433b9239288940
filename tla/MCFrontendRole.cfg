CONSTANTS
    backend = backend
    android = android
    Rankings <- MCRankings
    NoRole = NoRole
    NoReview = NoReview
    MaxUploads = 3
    MaxAsks = 3
SPECIFICATION Spec
INVARIANT ReviewForSelectedRole
CHECK_DEADLOCK FALSE
