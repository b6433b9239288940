------------------------------ MODULE RoleRanking ------------------------------
(* The second half of POST /upload in main.cpp: every file of job_profiles/  *)
(* is loaded and scored in the order the directory is read in, the best one  *)
(* is kept on the way, and the sorted list fills the answer.                 *)
EXTENDS Integers, Sequences, FiniteSets, FiniteSetsExt, SequencesExt

CONSTANTS
    Profiles,   \* the entries of job_profiles/
    Scores,     \* percentages evaluateCandidate returns for them
    Titles,     \* job titles, "" for a profile without one
    Garbage     \* what an uninitialised double may hold

ASSUME ProfilesAssumption == IsFiniteSet(Profiles)
ASSUME ScoresAssumption == Scores \subseteq Int /\ Garbage \subseteq Int

\* What bestScore starts from.
NoScore == -1

VARIABLES
    file,       \* each entry: its title, its score, or that it throws
    pc,         \* "scan", "sorted", "answered" or "failed"
    unread,     \* entries the directory iterator has not reached
    allResults, \* the local vector, entries with their results
    bestRole, bestScore,
    bestMatch,  \* percentage of the local MatchResult
    data        \* the JSON answer

ranking == <<file, pc, unread, allResults, bestRole, bestScore, bestMatch, data>>

Contents == [title : Titles, percentage : Scores, throws : BOOLEAN]

NoData == [comparison |-> <<>>, topRoles |-> <<>>, bestRole |-> "", percentage |-> 0]

\* bestMatch is declared without an initialiser.
RankingInit ==
    /\ file \in [Profiles -> Contents]
    /\ pc = "scan"
    /\ unread = Profiles
    /\ allResults = <<>>
    /\ bestRole = ""
    /\ bestScore = NoScore
    /\ bestMatch \in Garbage
    /\ data = NoData

----------------------------------------------------------------------------
Score(p) == file[p].percentage

\* Mutant: bestScore is not raised with the role.
EvaluateFromStart(p) ==
    /\ pc = "scan" /\ p \in unread /\ ~file[p].throws
    /\ unread' = unread \ {p}
    /\ allResults' = Append(allResults, p)
    /\ IF Score(p) > bestScore
       THEN bestRole' = file[p].title /\ bestMatch' = Score(p)
       ELSE UNCHANGED <<bestRole, bestMatch>>
    /\ UNCHANGED <<file, pc, bestScore, data>>

Evaluate(p) ==
    /\ pc = "scan"
    /\ p \in unread
    /\ ~file[p].throws
    /\ unread' = unread \ {p}
    /\ allResults' = Append(allResults, p)
    /\ IF Score(p) > bestScore
       THEN /\ bestScore' = Score(p)
            /\ bestRole' = file[p].title
            /\ bestMatch' = Score(p)
       ELSE UNCHANGED <<bestScore, bestRole, bestMatch>>
    /\ UNCHANGED <<file, pc, data>>

\* stoi throws on the MinExperience line of one profile: the whole call fails.
EvaluateThrows(p) ==
    /\ pc = "scan"
    /\ p \in unread
    /\ file[p].throws
    /\ pc' = "failed"
    /\ UNCHANGED <<file, unread, allResults, bestRole, bestScore, bestMatch, data>>

\* There is no job_profiles folder.
NoFolder ==
    /\ pc = "scan"
    /\ unread = Profiles
    /\ pc' = "failed"
    /\ UNCHANGED <<file, unread, allResults, bestRole, bestScore, bestMatch, data>>

\* Mutant: the list is not sorted.
NoSort ==
    /\ pc = "scan" /\ unread = {}
    /\ pc' = "sorted"
    /\ UNCHANGED <<file, unread, allResults, bestRole, bestScore, bestMatch, data>>

\* std::sort leaves equal scores in any order.
Sort ==
    /\ pc = "scan"
    /\ unread = {}
    /\ allResults' \in {q \in SetToSeqs(Profiles) :
            \A i, j \in DOMAIN q : i < j => Score(q[i]) >= Score(q[j])}
    /\ pc' = "sorted"
    /\ UNCHANGED <<file, unread, bestRole, bestScore, bestMatch, data>>

Min2(a, b) == IF a < b THEN a ELSE b

\* data["comparison"][title] is assigned in list order: of two roles with one
\* title the later, lower one stays.
Comparison(top) ==
    [t \in {file[top[i]].title : i \in DOMAIN top} |->
        Score(top[Max({i \in DOMAIN top : file[top[i]].title = t})])]

Answer ==
    /\ pc = "sorted"
    /\ LET top == SubSeq(allResults, 1, Min2(3, Len(allResults)))
       IN  data' = [comparison |-> Comparison(top), topRoles |-> top,
                    bestRole |-> bestRole, percentage |-> bestMatch]
    /\ pc' = "answered"
    /\ UNCHANGED <<file, unread, allResults, bestRole, bestScore, bestMatch>>

RankingNext ==
    \/ \E p \in Profiles : Evaluate(p) \/ EvaluateThrows(p)
    \/ NoFolder \/ Sort \/ Answer

RankingSpec == RankingInit /\ [][RankingNext]_ranking

----------------------------------------------------------------------------
(* Properties.                                                               *)

\* Type invariant of the ranking's locals.
RankingTypeOK ==
    /\ pc \in {"scan", "sorted", "answered", "failed"}
    /\ unread \subseteq Profiles
    /\ allResults \in Seq(Profiles)
    /\ bestScore \in Scores \cup {NoScore}
    /\ bestRole \in Titles \cup {""}
    /\ bestMatch \in Scores \cup Garbage

Answered == pc = "answered"
Best == Max({Score(p) : p \in Profiles})

\* As long as some profile scores above -1, the answer shows the highest score,
\* with the title of a profile that has it, whatever order the directory is read
\* in and however ties fall.  When none does (an empty folder, weights below
\* zero) there is no best role; what percentage is shown then is another
\* question: see PercentageIsAScore.
BestIsHighest ==
    Answered =>
        IF Profiles # {} /\ Best > -1
        THEN /\ data.percentage = Best
             /\ \E p \in Profiles : Score(p) = Best /\ file[p].title = data.bestRole
        ELSE data.bestRole = ""

\* The percentage that is shown is one that was calculated, not what the
\* uninitialised bestMatch held.  The code promises it only as long as some
\* profile scores above -1; with weights below zero it may fail.
PercentageIsAScore ==
    Answered /\ Profiles # {} => \E p \in Profiles : data.percentage = Score(p)

\* The role list holds three different profiles, or all, by falling score, and
\* no profile that is left out scores higher than one that is listed; while the
\* listed titles differ, every bar of the comparison is the score of its role.
TopRolesDominate ==
    Answered =>
        LET top == data.topRoles
        IN  /\ Len(top) = IF Cardinality(Profiles) < 3 THEN Cardinality(Profiles) ELSE 3
            /\ Cardinality(ToSet(top)) = Len(top)
            /\ \A i, j \in DOMAIN top : i < j => Score(top[i]) >= Score(top[j])
            /\ \A p \in Profiles \ ToSet(top), i \in DOMAIN top :
                    Score(top[i]) >= Score(p)
            /\ (\A p, q \in ToSet(top) : file[p].title = file[q].title => p = q)
               => \A i \in DOMAIN top :
                    data.comparison[file[top[i]].title] = Score(top[i])
=============================================================================
