------------------------------- MODULE MCParts -------------------------------
(* Small instances of the parts that run alone: no part reads what another   *)
(* one keeps, so one run of TLC takes them side by side, "work" saying which. *)
EXTENDS RoleRanking, JobProfile, ResumeParser, JobMatcher, ServerConfig,
        ModelReply, NameExtractor, TLC

CONSTANT Parts      \* the parts to run

VARIABLE work

(* Profiles: two spellings of one skill, one of another, bullets with and     *)
(* without letters behind them, and a negative weight.                       *)
MCLower == [s \in Spellings |-> IF s = "SQL db" THEN "sql db" ELSE s]
MCLetters ==
    [s \in SkillTexts |->
        CASE s = "- ci/cd" -> "ci/cd" [] s = "- !" -> "" [] OTHER -> s]
MCNumbers == {-1, 40}

(* Resumes: an empty line; two name lines, one of them with an e-mail and a   *)
(* phone; the headings, one with a skill in it and one with two section      *)
(* words; text with a skill.                                                 *)
Line(n, m, p, h, s) ==
    [empty |-> FALSE, name |-> n, email |-> m, phone |-> p,
     headings |-> h, skills |-> s]

MCLines ==
    { [Line("", "", FALSE, {}, {}) EXCEPT !.empty = TRUE],
      Line("Jane Doe", "", FALSE, {}, {}),
      Line("Resume", "j@x", TRUE, {}, {}),
      Line("Education", "", FALSE, {"education"}, {}),
      Line("Projects", "j@y", FALSE, {"projects"}, {"java"}),
      Line("", "", TRUE, {"certification", "projects"}, {}),
      Line("", "", FALSE, {"certification"}, {}),
      Line("", "", FALSE, {}, {"sql", "mysql"}) }

(* Lines of .env: a number and more behind it, and no port.                  *)
MCNumber(t) == CASE t = "3000x" -> 3000 [] t = "-1" -> -1 [] OTHER -> NoNumber

(* Jobs whose weights may be zero or negative.                               *)
MCWeights == {-30, 0, 40}

(* Four profiles for RoleRanking, one more than are listed; ties, scores      *)
(* below -1, equal and missing titles.                                       *)
MCScores == {-2, 0, 50}
MCGarbage == {-7, 99}
Symmetry == Permutations(Profiles)

----------------------------------------------------------------------------
\* A part that does not run stands in one of its initial states.
RankingStands ==
    /\ file = [p \in Profiles |-> CHOOSE c \in Contents : ~c.throws]
    /\ bestMatch = CHOOSE g \in Garbage : TRUE
    /\ pc = "scan" /\ unread = Profiles /\ allResults = <<>>
    /\ bestRole = "" /\ bestScore = NoScore /\ data = NoData

ConfigStands ==
    /\ given = <<>> /\ env = <<>> /\ files = <<<<>>, <<>>>>
    /\ at = 1 /\ serving = "loading" /\ port = 0

ReplyStands == replyFile = "empty" /\ text = <<>> /\ response = NoResponse

PartsInit ==
    /\ work \in Parts
    /\ ProfileInit /\ ParserInit /\ MatchInit /\ NameInit
    /\ IF work = "ranking" THEN RankingInit ELSE RankingStands
    /\ IF work = "config" THEN ConfigInit ELSE ConfigStands
    /\ IF work = "unwrapping" THEN ReplyInit ELSE ReplyStands

Rank ==
    /\ work = "ranking" /\ RankingNext
    /\ UNCHANGED <<work, profile, parser, match, config, unwrapping, naming>>
LoadProfile ==
    /\ work = "profile" /\ ProfileNext
    /\ UNCHANGED <<work, ranking, parser, match, config, unwrapping, naming>>
ParseResume ==
    /\ work = "parser" /\ ParserNext
    /\ UNCHANGED <<work, ranking, profile, match, config, unwrapping, naming>>
BuildMatch ==
    /\ work = "match" /\ MatchNext
    /\ UNCHANGED <<work, ranking, profile, parser, config, unwrapping, naming>>
StartServer ==
    /\ work = "config" /\ ConfigNext
    /\ UNCHANGED <<work, ranking, profile, parser, match, unwrapping, naming>>
Unwrap ==
    /\ work = "unwrapping" /\ ReplyNext
    /\ UNCHANGED <<work, ranking, profile, parser, match, config, naming>>
ExtractName ==
    /\ work = "naming" /\ NameNext
    /\ UNCHANGED <<work, ranking, profile, parser, match, config, unwrapping>>

PartsNext ==
    \/ Rank \/ LoadProfile \/ ParseResume \/ BuildMatch \/ StartServer
    \/ Unwrap \/ ExtractName

PartsSpec ==
    PartsInit /\ [][PartsNext]_<<work, ranking, profile, parser, match, config,
                                 unwrapping, naming>>

----------------------------------------------------------------------------
(* The properties of the parts are stated and explained in their modules.    *)

\* The type invariants of the seven parts.
PartsTypeOK ==
    /\ RankingTypeOK /\ ProfileTypeOK /\ ParserTypeOK /\ MatchTypeOK
    /\ ConfigTypeOK /\ ReplyTypeOK /\ NameTypeOK
==============================================================================
