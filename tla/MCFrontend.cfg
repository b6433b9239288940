CONSTANTS
    backend = backend
    android = android
    Rankings <- MCRankings
    NoRole = NoRole
    NoReview = NoReview
    MaxUploads = 3
    MaxAsks = 3
SPECIFICATION Spec
INVARIANTS
    TypeOK
    ResultOfLastUpload
    ReviewOfShownResume
    SpinnersHaveOneFetch
    SkillsOfSelectedRole
CHECK_DEADLOCK FALSE
