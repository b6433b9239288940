CONSTANTS
    c1 = c1
    c2 = c2
    w1 = w1
    w2 = w2
    Calls = {c1, c2}
    Workers = {w1, w2}
    Requests <- MCRequests
    NoId = NoId
    MaxClock = 2
SPECIFICATION FairSpec
INVARIANTS
    TypeOK
    IdsUnique
    AnswerFromOwnUpload
    PublishedIdHasText
    RefusedLeavesNoFile
PROPERTIES
    TextsAreFinal
    EveryCallAnswered
    ImplementsResumeStore
CHECK_DEADLOCK FALSE
