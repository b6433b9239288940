CONSTANTS
    c1 = c1
    c2 = c2
    Calls = {c1, c2}
    i1 = i1
    i2 = i2
    Ids = {i1, i2}
    r1 = r1
    Roles = {r1}
    Absent = Absent
    Blank = Blank
    Mixed = Mixed
    Refusal = Refusal
    Fallback = Fallback
    Unanswered = Unanswered
SPECIFICATION FairSpec
INVARIANTS
    TypeOK
    ReviewOfOwnResume
    FilesOnlyForPublished
    OwnReview
PROPERTIES
    AnsweredUnlessCurlHangs
CHECK_DEADLOCK FALSE
