------------------------------ MODULE JobProfile ------------------------------
(* FileManager::loadJobFromFile and the Job it fills: one action per kind of *)
(* line, taken on the trimmed line.  A profile is any sequence of such lines *)
(* and the history variable "profileLines" keeps those read so far.          *)
EXTENDS Integers, Sequences

CONSTANTS
    TitleTexts,     \* texts after "Title:"
    Spellings,      \* texts of skills as profiles spell them
    OneWord,        \* the spellings without a space
    SkillTexts,     \* the same in lower case
    Lower,          \* toLower of each spelling
    Letters,        \* a skill without its leading non-letters, "" if none is left
    Numbers,        \* the integers stoi finds
    MaxProfileLines \* bound: lines of a profile

ASSUME ProfileAssumption ==
    /\ Lower \in [Spellings -> SkillTexts] /\ OneWord \subseteq Spellings
    /\ Letters \in [SkillTexts -> SkillTexts \cup {""}]
    /\ Numbers \subseteq Int /\ MaxProfileLines \in Nat

VARIABLES
    loading,            \* "reading", "returned" or "threw"
    title,              \* the local title
    readingMandatory,   \* the local flag
    job,                \* the Job under construction
    profileLines        \* history: the lines read, as records

profile == <<loading, title, readingMandatory, job, profileLines>>

\* A line by what loadJobFromFile makes of it.  "experience": a number follows
\* the colon; "phrase": the last word is no number; "word": no space at all.
LinesOfProfile ==
         [kind : {"title"}, title : TitleTexts]
    \cup [kind : {"experience"}, number : Numbers]
    \cup [kind : {"mandatory"}]
    \cup [kind : {"weighted"}, skill : Spellings, number : Numbers]
    \cup [kind : {"phrase"}, skill : Spellings \ OneWord]
    \cup [kind : {"word"}, skill : OneWord]

\* Job(): no title, no experience.  Job(t, n): the same with t and n.
NewJob(t, n) == [jobTitle |-> t, minExperience |-> n,
                 mandatorySkills |-> {}, requiredSkills |-> <<>>]

ProfileInit ==
    /\ loading = "reading"
    /\ title = ""
    /\ readingMandatory = FALSE
    /\ job = NewJob("", 0)
    /\ profileLines = <<>>

----------------------------------------------------------------------------
\* Job::addMandatorySkills and Job::addRequiredSkills.
AddMandatory(j, s) == [j EXCEPT !.mandatorySkills = @ \cup {s}]

AddRequired(j, s, w) ==
    [j EXCEPT !.requiredSkills =
        [t \in DOMAIN @ \cup {s} |-> IF t = s THEN w ELSE @[t]]]

ReadProfile(line) ==
    /\ loading = "reading"
    /\ Len(profileLines) < MaxProfileLines
    /\ profileLines' = Append(profileLines, line)

ReadTitle(t) ==
    /\ ReadProfile([kind |-> "title", title |-> t])
    /\ title' = t
    /\ UNCHANGED <<loading, readingMandatory, job>>

\* The job starts over: a title that comes later, or skills that came earlier,
\* are not in it.
ReadExperience(n) ==
    /\ ReadProfile([kind |-> "experience", number |-> n])
    /\ job' = NewJob(title, n)
    /\ UNCHANGED <<loading, title, readingMandatory>>

\* stoi finds no number after "MinExperience:" and nothing here catches it.
ReadBadExperience ==
    /\ loading = "reading"
    /\ loading' = "threw"
    /\ UNCHANGED <<title, readingMandatory, job, profileLines>>

ReadMandatoryHeader ==
    /\ ReadProfile([kind |-> "mandatory"])
    /\ readingMandatory' = TRUE
    /\ UNCHANGED <<loading, title, job>>

\* Mutant: the mandatory list goes on below the weights.
ReadWeightedInList(s, w) ==
    /\ ReadProfile([kind |-> "weighted", skill |-> s, number |-> w])
    /\ job' = AddRequired(job, Lower[s], w)
    /\ UNCHANGED <<loading, title, readingMandatory>>

\* "skill name 40": the last word is a weight, and the mandatory list is over.
ReadWeighted(s, w) ==
    /\ ReadProfile([kind |-> "weighted", skill |-> s, number |-> w])
    /\ job' = AddRequired(job, Lower[s], w)
    /\ readingMandatory' = FALSE
    /\ UNCHANGED <<loading, title>>

\* "two words" under "Mandatory:", with a bullet or not.
ReadPhrase(s) ==
    /\ ReadProfile([kind |-> "phrase", skill |-> s])
    /\ job' = IF readingMandatory /\ Letters[Lower[s]] # ""
              THEN AddMandatory(job, Letters[Lower[s]])
              ELSE job
    /\ UNCHANGED <<loading, title, readingMandatory>>

\* A line of one word has no last space and is not looked at.
ReadWord(s) ==
    /\ ReadProfile([kind |-> "word", skill |-> s])
    /\ UNCHANGED <<loading, title, readingMandatory, job>>

\* The file cannot be opened: the caller gets Job().
FailOpenProfile ==
    /\ loading = "reading"
    /\ profileLines = <<>>
    /\ loading' = "returned"
    /\ UNCHANGED <<title, readingMandatory, job, profileLines>>

EndOfProfile ==
    /\ loading = "reading"
    /\ loading' = "returned"
    /\ UNCHANGED <<title, readingMandatory, job, profileLines>>

ProfileNext ==
    \/ \E t \in TitleTexts : ReadTitle(t)
    \/ \E n \in Numbers : ReadExperience(n)
    \/ ReadBadExperience
    \/ ReadMandatoryHeader
    \/ \E s \in Spellings, w \in Numbers : ReadWeighted(s, w)
    \/ \E s \in Spellings \ OneWord : ReadPhrase(s)
    \/ \E s \in OneWord : ReadWord(s)
    \/ FailOpenProfile \/ EndOfProfile

ProfileSpec == ProfileInit /\ [][ProfileNext]_profile

----------------------------------------------------------------------------
(* Properties: what the lines read so far say, stated without the flags and  *)
(* assignments the code goes through.                                        *)

\* Type invariant of the loader's locals and of the Job.
ProfileTypeOK ==
    /\ loading \in {"reading", "returned", "threw"}
    /\ title \in TitleTexts \cup {""}
    /\ readingMandatory \in BOOLEAN
    /\ job.jobTitle \in TitleTexts \cup {""}
    /\ job.minExperience \in Numbers \cup {0}
    /\ job.mandatorySkills \subseteq SkillTexts
    /\ DOMAIN job.requiredSkills \subseteq SkillTexts
    /\ \A s \in DOMAIN job.requiredSkills : job.requiredSkills[s] \in Numbers
    /\ profileLines \in Seq(LinesOfProfile)

At(kind) == {i \in DOMAIN profileLines : profileLines[i].kind = kind}

\* Line i belongs to the job: no MinExperience line follows it.
Counts(i) == \A e \in At("experience") : e < i

\* Line i stands in a mandatory list: a "Mandatory:" before it, no weight since.
InMandatoryList(i) ==
    \E m \in At("mandatory") :
        m < i /\ \A k \in At("weighted") : ~(m < k /\ k < i)

\* The title of the job is the last title above the last MinExperience line;
\* without such a pair the job has none, whatever titles the file has.
TitleMeaning ==
    \/ /\ job.jobTitle = ""
       /\ \A e \in At("experience") :
            (\A x \in At("experience") : x <= e) =>
                \A t \in At("title") : t > e
    \/ \E e \in At("experience"), t \in At("title") :
            /\ t < e /\ profileLines[t].title = job.jobTitle
            /\ \A x \in At("experience") : x <= e
            /\ \A x \in At("title") : x < e => x <= t

\* The weight of a required skill is the last one given to any spelling of it
\* since the last MinExperience line, and no other skill is required.
RequiredMeaning ==
    LET Given(s) ==
            {i \in At("weighted") : Counts(i) /\ Lower[profileLines[i].skill] = s}
    IN  /\ DOMAIN job.requiredSkills = {s \in SkillTexts : Given(s) # {}}
        /\ \A s \in DOMAIN job.requiredSkills : \E i \in Given(s) :
              /\ \A j \in Given(s) : j <= i
              /\ job.requiredSkills[s] = profileLines[i].number

\* The mandatory skills are the multi-word lines of the mandatory lists since
\* the last MinExperience line: a list survives a MinExperience line, and a
\* weighted line ends it.
MandatoryMeaning ==
    job.mandatorySkills =
        {Letters[Lower[profileLines[i].skill]] :
            i \in {i \in At("phrase") : Counts(i) /\ InMandatoryList(i)}} \ {""}

\* The job that is returned is what the profile says, title, weights and list.
JobMeaning == TitleMeaning /\ RequiredMeaning /\ MandatoryMeaning

\* Job.h:14 "Mandatory skills (must exist)": every skill listed under
\* "Mandatory:" becomes a skill that the candidate must have.
ListedSkillsAreMandatory ==
    \A i \in At("phrase") \cup At("word") :
        /\ Counts(i)
        /\ InMandatoryList(i)
        /\ Letters[Lower[profileLines[i].skill]] # ""
        => Letters[Lower[profileLines[i].skill]] \in job.mandatorySkills
=============================================================================
