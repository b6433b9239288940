CONSTANTS
    Parts = {"match"}
    p1 = p1
    p2 = p2
    p3 = p3
    p4 = p4
    Profiles = {p1, p2, p3, p4}
    Scores <- MCScores
    Titles = {"", "Backend", "DevOps"}
    Garbage <- MCGarbage
    TitleTexts = {"Backend", "DevOps"}
    Spellings = {"SQL db", "sql db", "- ci/cd", "- !", "java"}
    OneWord = {"java"}
    SkillTexts = {"sql db", "- ci/cd", "ci/cd", "- !", "java"}
    Lower <- MCLower
    Letters <- MCLetters
    Numbers <- MCNumbers
    MaxProfileLines = 4
    Lines <- MCLines
    MaxResumeLines = 5
    Skills = {"sql", "mysql"}
    Weights <- MCWeights
    MaxCerts = 6
    MaxSectionLines = 2
    Keys = {"PORT"}
    ValueTexts = {"", "3000x", "-1"}
    NoNumber = NoNumber
    Number <- MCNumber
    MaxSettings = 2
    MaxAtoms = 6
    Pieces = {"Ada", "github", "linkedin", "+-()09", "@", ".", " "}
    MaxPieces = 7
SPECIFICATION PartsSpec
INVARIANT PercentageAtMost100
CHECK_DEADLOCK FALSE
