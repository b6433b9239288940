----------------------------- MODULE ResumeParser -----------------------------
(* FileManager::parseUnstructuredResume: one step per line of the extracted  *)
(* text.  A line is a record of what the detectors find in it, so that a     *)
(* resume is any sequence of such lines.                                     *)
EXTENDS Integers, Sequences, FiniteSets, FiniteSetsExt

CONSTANTS
    Lines,          \* the lines a resume may have
    MaxResumeLines  \* bound: lines of a resume

Sections == {"education", "projects", "certification"}

\* name, email: what extractNameFromLine and the '@' rule take from the line,
\* "" for nothing.  phone: ten digits or more.  headings: the section words
\* that occur in it.  skills: the ontology groups with a synonym in it.
\* A line with empty TRUE has no character at all; one of blanks is not empty.
ASSUME LinesAssumption ==
    /\ \A l \in Lines :
        /\ l.empty \in BOOLEAN /\ l.phone \in BOOLEAN
        /\ l.name \in STRING /\ l.email \in STRING
        /\ l.headings \subseteq Sections
        /\ IsFiniteSet(l.skills)
    /\ MaxResumeLines \in Nat

VARIABLES
    parsing,    \* "reading" or "returned"
    lineNumber, \* lines read, empty ones included
    name, email, phone,
    inSection,  \* the flags inEducation, inProjects, inCertifications
    resume,     \* education, projects and certifications of the Resume
    detectedSkills,
    candidate,  \* what is returned
    resumeLines \* history: the lines read

locals == <<lineNumber, name, email, phone, inSection, resume, detectedSkills>>
parser == <<parsing, locals, candidate, resumeLines>>

NoLine == [empty |-> TRUE]
EmptyResume == [s \in Sections |-> <<>>]

\* Candidate("", "") with a Resume to which nothing was added.
EmptyCandidate ==
    [name |-> "", email |-> "", phone |-> NoLine,
     skills |-> {}, resume |-> EmptyResume]

ParserInit ==
    /\ parsing = "reading"
    /\ lineNumber = 0
    /\ name = "" /\ email = "" /\ phone = NoLine
    /\ inSection = [s \in Sections |-> FALSE]
    /\ resume = EmptyResume
    /\ detectedSkills = {}
    /\ candidate = EmptyCandidate
    /\ resumeLines = <<>>

----------------------------------------------------------------------------
\* The section words are looked for in this order and the first one found wins.
HeadingOrder == <<"education", "projects", "certification">>

FirstHeading(l) ==
    HeadingOrder[Min({n \in DOMAIN HeadingOrder : HeadingOrder[n] \in l.headings})]

ReadResume(l) ==
    /\ parsing = "reading"
    /\ Len(resumeLines) < MaxResumeLines
    /\ resumeLines' = Append(resumeLines, l)
    /\ lineNumber' = lineNumber + 1

ReadEmpty(l) ==
    /\ ReadResume(l)
    /\ l.empty
    /\ UNCHANGED <<parsing, name, email, phone, inSection, resume,
                   detectedSkills, candidate>>

\* What every other line is searched for, headings included: a name on the
\* first two lines only, and the last e-mail and phone line of the text.
DetectContact(l) ==
    /\ name' = IF lineNumber' <= 2 /\ name = "" THEN l.name ELSE name
    /\ email' = IF l.email # "" THEN l.email ELSE email
    /\ phone' = IF l.phone THEN l ELSE phone

\* Mutant: the flags of the other sections stay set.
SectionsWith(l) == [inSection EXCEPT ![FirstHeading(l)] = TRUE]

SectionsAfter(l) == [s \in Sections |-> s = FirstHeading(l)]

\* A line with a section word turns that section on and the others off, and is
\* neither stored nor searched for skills.
ReadHeading(l) ==
    /\ ReadResume(l)
    /\ ~l.empty
    /\ l.headings # {}
    /\ DetectContact(l)
    /\ inSection' = SectionsAfter(l)
    /\ UNCHANGED <<parsing, resume, detectedSkills, candidate>>

SkillsWith(l) == detectedSkills \cup l.skills

ReadText(l) ==
    /\ ReadResume(l)
    /\ ~l.empty
    /\ l.headings = {}
    /\ DetectContact(l)
    /\ resume' = [s \in Sections |->
                    IF inSection[s] THEN Append(resume[s], l) ELSE resume[s]]
    /\ detectedSkills' = SkillsWith(l)
    /\ UNCHANGED <<parsing, inSection, candidate>>

EndOfResume ==
    /\ parsing = "reading"
    /\ parsing' = "returned"
    /\ candidate' =
        [name |-> IF name = "" THEN "Name Not Detected" ELSE name,
         email |-> email, phone |-> phone,
         skills |-> detectedSkills, resume |-> resume]
    /\ UNCHANGED <<locals, resumeLines>>

\* The text cannot be opened.
FailOpenResume ==
    /\ parsing = "reading"
    /\ resumeLines = <<>>
    /\ parsing' = "returned"
    /\ candidate' = EmptyCandidate
    /\ UNCHANGED <<locals, resumeLines>>

ParserNext ==
    \/ \E l \in Lines : ReadEmpty(l) \/ ReadHeading(l) \/ ReadText(l)
    \/ EndOfResume
    \/ FailOpenResume

ParserSpec == ParserInit /\ [][ParserNext]_parser

----------------------------------------------------------------------------
(* Properties of the candidate, stated over the lines of the text.           *)

FoundNames == {l.name : l \in Lines}
FoundEmails == {l.email : l \in Lines}

\* Type invariant of the parser's locals.
ParserTypeOK ==
    /\ parsing \in {"reading", "returned"}
    /\ lineNumber = Len(resumeLines)
    /\ \A s \in Sections : inSection[s] \in BOOLEAN /\ resume[s] \in Seq(Lines)
    /\ phone \in Lines \cup {NoLine}
    /\ name \in {""} \cup FoundNames
    /\ email \in {""} \cup FoundEmails
    /\ candidate.name \in {"", "Name Not Detected"} \cup FoundNames

Parsed == parsing = "returned" /\ candidate # EmptyCandidate

Searched == {i \in DOMAIN resumeLines : ~resumeLines[i].empty}
Headings == {i \in Searched : resumeLines[i].headings # {}}
TextLines == Searched \ Headings

\* The name is the first one on the first two lines of the file, where an empty
\* line still uses up one of the two.
NameFromHead ==
    Parsed =>
        LET named == {i \in Searched : i <= 2 /\ resumeLines[i].name # ""}
        IN  candidate.name = IF named = {} THEN "Name Not Detected"
                             ELSE resumeLines[Min(named)].name

\* Contact data comes from the last line that has any, whatever its section.
ContactFromLastLine ==
    Parsed =>
        LET mailed == {i \in Searched : resumeLines[i].email # ""}
            phoned == {i \in Searched : resumeLines[i].phone}
        IN  /\ candidate.email =
                    IF mailed = {} THEN "" ELSE resumeLines[Max(mailed)].email
            /\ candidate.phone =
                    IF phoned = {} THEN NoLine ELSE resumeLines[Max(phoned)]

\* A line is stored in the section of the nearest heading above it and in no
\* other, once, in the order of the text; lines above the first heading are
\* stored nowhere.  The scores count these lines, so one stored twice or under
\* the wrong heading is a bonus the candidate does not have.
SectionMeaning ==
    Parsed =>
        \A s \in Sections :
            LET under(i) ==
                    LET above == {h \in Headings : h < i}
                    IN  above # {} /\ FirstHeading(resumeLines[Max(above)]) = s
                kept == {i \in TextLines : under(i)}
            IN  candidate.resume[s] =
                    [n \in 1..Cardinality(kept) |->
                        resumeLines[CHOOSE i \in kept :
                            Cardinality({j \in kept : j <= i}) = n]]

\* The skills are those of all lines but the headings.
SkillsMeaning ==
    Parsed => candidate.skills = UNION {resumeLines[i].skills : i \in TextLines}

\* The candidate that is returned is what the text says, line by line.
CandidateMeaning ==
    NameFromHead /\ ContactFromLastLine /\ SectionMeaning /\ SkillsMeaning
=============================================================================
