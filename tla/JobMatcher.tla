------------------------------ MODULE JobMatcher ------------------------------
(* JobMatcher::evaluateCandidate as an operator on a resume and a job, and   *)
(* the add operations of Resume and Job that build its two arguments.        *)
(* Percentages are kept in hundredths, the precision they are rounded to.    *)
EXTENDS Integers, FiniteSets, FiniteSetsExt, SequencesExt

CONSTANTS
    Skills,         \* skills in lower case
    Weights,        \* weights of required skills
    MaxCerts,       \* bound: certification lines of a resume
    MaxSectionLines \* bound: education lines, and project lines

ASSUME MatchAssumption ==
    /\ IsFiniteSet(Skills) /\ Weights \subseteq Int
    /\ MaxCerts \in Nat /\ MaxSectionLines \in Nat

VARIABLES
    skills,         \* Resume: skills, no skill twice (they come from a set)
    education,      \* number of education lines
    projects,       \* project lines, each the set of skills it mentions
    certifications, \* number of certification lines
    mandatory,      \* Job: mandatorySkills
    required        \* Job: requiredSkills, a function to weights

resumeSoFar == [skills |-> skills, education |-> education,
                projects |-> projects, certifications |-> certifications]
jobSoFar == [mandatory |-> mandatory, required |-> required]
match == <<skills, education, projects, certifications, mandatory, required>>

----------------------------------------------------------------------------
\* getFitCategory, on hundredths of a percent.
FitCategory(p) ==
    CASE p >= 8000 -> "Excellent Fit"
      [] 7000 <= p /\ p < 8000 -> "Strong Fit"
      [] 3000 <= p /\ p < 7000 -> "Moderate Fit"
      [] p < 3000 -> "Weak Fit"

\* round(a / b) for b > 0: halves go away from zero.
Rounded(a, b) ==
    IF a >= 0 THEN (2 * a + b) \div (2 * b) ELSE -((b - 2 * a) \div (2 * b))

\* Mutant: one mandatory skill is enough.
NoMandatory(r, j) == IF j.mandatory \cap r.skills # {} THEN {} ELSE j.mandatory

MissingMandatory(r, j) == j.mandatory \ r.skills
Matched(r, j) == r.skills \cap DOMAIN j.required

\* The job skills the resume lacks, with their weights.
Missing(r, j) == {<<s, j.required[s]>> : s \in DOMAIN j.required \ r.skills}

\* Mutant: lightest first.
MissingSkillsAscending(r, j) ==
    CHOOSE q \in SetToSeqs(Missing(r, j)) :
        \A i, k \in DOMAIN q : i < k => q[i][2] <= q[k][2]

\* Heaviest first; equal weights in some order, which std::sort does not promise.
MissingSkills(r, j) ==
    CHOOSE q \in SetToSeqs(Missing(r, j)) :
        \A i, k \in DOMAIN q : i < k => q[i][2] >= q[k][2]

WeightOf(S, j) == MapThenSumSet(LAMBDA s : j.required[s], S)

\* Project lines that mention some job skill, whether the resume has it or not.
RelevantProjects(r, j) ==
    {i \in DOMAIN r.projects : r.projects[i] \cap DOMAIN j.required # {}}

RawScore(r, j) ==
      WeightOf(Matched(r, j), j)
    + 3 * r.certifications
    + (IF r.education > 0 THEN 5 ELSE 0)
    + 4 * Cardinality(RelevantProjects(r, j))

\* Mutant: no room for certifications.
MaxScoreTight(r, j) ==
    WeightOf(DOMAIN j.required, j) + 5 + 4 * Cardinality(DOMAIN j.required)

MaxScore(r, j) ==
      WeightOf(DOMAIN j.required, j)
    + 15 + 5
    + 4 * Cardinality(DOMAIN j.required)

Rejected == [percentage |-> 0, fitCategory |-> "Rejected",
             matchedSkills |-> {}, missingSkills |-> <<>>]

EvaluateCandidate(r, j) ==
    IF MissingMandatory(r, j) # {}
    THEN Rejected
    ELSE LET p == IF MaxScore(r, j) > 0
                  THEN Rounded(RawScore(r, j) * 10000, MaxScore(r, j))
                  ELSE 0
         IN  [percentage |-> p,
              fitCategory |-> FitCategory(p),
              matchedSkills |-> Matched(r, j),
              missingSkills |-> MissingSkills(r, j)]

result == EvaluateCandidate(resumeSoFar, jobSoFar)

----------------------------------------------------------------------------
MatchInit ==
    /\ skills = {}
    /\ education = 0
    /\ projects = <<>>
    /\ certifications = 0
    /\ mandatory = {}
    /\ required = <<>>

AddSkill(s) ==
    /\ s \notin skills
    /\ skills' = skills \cup {s}
    /\ UNCHANGED <<education, projects, certifications, mandatory, required>>

AddEducation ==
    /\ education < MaxSectionLines
    /\ education' = education + 1
    /\ UNCHANGED <<skills, projects, certifications, mandatory, required>>

AddProject(mentioned) ==
    /\ Len(projects) < MaxSectionLines
    /\ projects' = Append(projects, mentioned)
    /\ UNCHANGED <<skills, education, certifications, mandatory, required>>

AddCertification ==
    /\ certifications < MaxCerts
    /\ certifications' = certifications + 1
    /\ UNCHANGED <<skills, education, projects, mandatory, required>>

AddMandatorySkills(s) ==
    /\ mandatory' = mandatory \cup {s}
    /\ UNCHANGED <<skills, education, projects, certifications, required>>

\* A weight given again replaces the old one.
AddRequiredSkills(s, w) ==
    /\ required' = [t \in DOMAIN required \cup {s} |->
                        IF t = s THEN w ELSE required[t]]
    /\ UNCHANGED <<skills, education, projects, certifications, mandatory>>

ImproveResume ==
    \/ \E s \in Skills : AddSkill(s)
    \/ AddEducation
    \/ \E mentioned \in SUBSET Skills : AddProject(mentioned)
    \/ AddCertification

ExtendJob ==
    \E s \in Skills :
        \/ AddMandatorySkills(s)
        \/ \E w \in Weights : AddRequiredSkills(s, w)

MatchNext == ImproveResume \/ ExtendJob

MatchSpec == MatchInit /\ [][MatchNext]_match

----------------------------------------------------------------------------
(* Properties.                                                               *)

\* Type invariant of the two arguments and of the result.
MatchTypeOK ==
    /\ skills \subseteq Skills /\ mandatory \subseteq Skills
    /\ education \in Nat /\ certifications \in Nat
    /\ \A i \in DOMAIN projects : projects[i] \subseteq Skills
    /\ DOMAIN required \subseteq Skills
    /\ \A s \in DOMAIN required : required[s] \in Weights
    /\ result.percentage \in Int

\* For any job with weights >= 0: whatever a candidate adds to a resume, no score
\* drops, since no bonus is taken back and no mandatory skill is lost; and a
\* further mandatory skill never raises a score, nor moves a candidate from
\* "Rejected" to a fit.
ScoreIsMonotone ==
    [][(\A s \in DOMAIN required : required[s] >= 0) =>
        /\ ImproveResume => result.percentage <= result'.percentage
        /\ (\E s \in Skills : AddMandatorySkills(s)) =>
            /\ result'.percentage <= result.percentage
            /\ result.fitCategory = "Rejected" =>
                    result'.fitCategory = "Rejected"]_match

\* Below five certifications and one relevant project per required skill, the
\* numbers the comments assume, a score is a percentage.
PercentageInRange ==
    /\ \A s \in DOMAIN required : required[s] >= 0
    /\ certifications <= 5
    /\ Cardinality(RelevantProjects(resumeSoFar, jobSoFar))
            <= Cardinality(DOMAIN required)
    => 0 <= result.percentage /\ result.percentage <= 10000

\* A resume that has every required skill and every bonus the maximum counts
\* scores exactly 100%: the terms of rawScore and maxScore are the same.
PerfectResumeScoresFull ==
    /\ mandatory \cup DOMAIN required \subseteq skills
    /\ \A s \in DOMAIN required : required[s] >= 0
    /\ certifications = 5 /\ education > 0
    /\ Cardinality(RelevantProjects(resumeSoFar, jobSoFar))
            = Cardinality(DOMAIN required)
    => result.percentage = 10000

\* Both ends of the scale.
ScoreScale == PercentageInRange /\ PerfectResumeScoresFull

\* The percentage of the same resume with one skill more.
ScoreWith(sk) ==
    EvaluateCandidate([resumeSoFar EXCEPT !.skills = @ \cup {sk}], jobSoFar).percentage

\* The missing skills shown for a candidate that is not rejected, by a job that
\* lists skills, are advice on what to learn first: the earlier a skill stands in
\* the list, the higher (or as high) is the score it would bring, and a skill that
\* is not listed brings none.  So it is for weights of either sign, whatever the
\* rounding does.
MissingByGain ==
    LET now == result
        missing == [i \in DOMAIN now.missingSkills |-> now.missingSkills[i][1]]
    IN  DOMAIN required # {} /\ now.fitCategory # "Rejected" =>
            /\ \A i, k \in DOMAIN missing :
                    i < k => ScoreWith(missing[i]) >= ScoreWith(missing[k])
            /\ \A s \in Skills \ ToSet(missing) : ScoreWith(s) = now.percentage

\* JobMatcher.cpp:92 "Assume max 5 certifications contribute": so no number of
\* them lifts a resume over the maximum.
PercentageAtMost100 ==
    /\ RelevantProjects(resumeSoFar, jobSoFar) = {}
    /\ \A s \in DOMAIN required : required[s] >= 0
    => result.percentage <= 10000
=============================================================================
