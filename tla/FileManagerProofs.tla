-------------------------- MODULE FileManagerProofs --------------------------
(* Proofs about FileManager: its two loaders and the names in resumes.       *)
(* JobProfile: any titles, spellings and numbers, profiles of any length up  *)
(* to any MaxProfileLines, under ProfileAssumption.  ResumeParser: any kinds *)
(* of lines, resumes of any length up to any MaxResumeLines, under           *)
(* LinesAssumption.  NameExtractor: lines of any length up to any MaxPieces. *)
EXTENDS JobProfile, ResumeParser, NameExtractor, FiniteSetTheorems,
        WellFoundedInduction, TLAPS

----------------------------------------------------------------------------
(* JobProfile: the inductive invariant.                                      *)

\* The Job has its four fields.
JobHasFields ==
    job = [jobTitle |-> job.jobTitle, minExperience |-> job.minExperience,
           mandatorySkills |-> job.mandatorySkills, requiredSkills |-> job.requiredSkills]

\* The local title is that of the last title line.
TitleIsLast ==
    \/ title = "" /\ At("title") = {}
    \/ \E t \in At("title") : profileLines[t].title = title
         /\ \A x \in At("title") : x <= t

\* The flag says whether the next line stands in a mandatory list.
FlagIsList ==
    readingMandatory <=>
        \E m \in At("mandatory") : \A k \in At("weighted") : ~(m < k)

ProfileInv ==
    /\ ProfileTypeOK /\ JobHasFields /\ TitleIsLast /\ FlagIsList
    /\ TitleMeaning /\ RequiredMeaning /\ MandatoryMeaning

----------------------------------------------------------------------------
(* One line more.                                                            *)

\* The weights given to a skill since the last MinExperience line.
Given(s) == {i \in At("weighted") : Counts(i) /\ Lower[profileLines[i].skill] = s}

\* The lines of the mandatory lists since then.
MandatoryLines == {i \in At("phrase") : Counts(i) /\ InMandatoryList(i)}

LEMMA RequiredByGiven ==
    RequiredMeaning <=>
        /\ DOMAIN job.requiredSkills = {s \in SkillTexts : Given(s) # {}}
        /\ \A s \in DOMAIN job.requiredSkills : \E i \in Given(s) :
              /\ \A j \in Given(s) : j <= i
              /\ job.requiredSkills[s] = profileLines[i].number
BY DEF RequiredMeaning, Given

LEMMA RequiredByGivenNext ==
    RequiredMeaning' <=>
        /\ DOMAIN job'.requiredSkills = {s \in SkillTexts : Given(s)' # {}}
        /\ \A s \in DOMAIN job'.requiredSkills : \E i \in Given(s)' :
              /\ \A j \in Given(s)' : j <= i
              /\ job'.requiredSkills[s] = profileLines'[i].number
BY DEF RequiredMeaning, Given

\* A line that is read has the next number, and the others keep theirs.
ProfileLineAdded(l, N) ==
    /\ profileLines' \in Seq(LinesOfProfile) /\ N \in Nat
    /\ profileLines'[N] = l
    /\ \A i \in DOMAIN profileLines : profileLines'[i] = profileLines[i]
    /\ \A i \in DOMAIN profileLines : i \in Nat /\ i < N
    /\ \A k : At(k) \subseteq DOMAIN profileLines
    /\ \A k : At(k)' = At(k) \cup (IF l.kind = k THEN {N} ELSE {})

LEMMA OneProfileLine ==
    ASSUME ProfileTypeOK, NEW l \in LinesOfProfile, ReadProfile(l), NEW N,
           N = Len(profileLines) + 1
    PROVE  ProfileLineAdded(l, N)
<1>1. profileLines \in Seq(LinesOfProfile) /\ profileLines' = Append(profileLines, l)
  BY DEF ProfileTypeOK, ReadProfile
<1>2. /\ N \in Nat /\ DOMAIN profileLines = 1..Len(profileLines)
      /\ DOMAIN profileLines' = 1..N
      /\ profileLines' \in Seq(LinesOfProfile)
      /\ profileLines'[N] = l
      /\ \A i \in DOMAIN profileLines : profileLines'[i] = profileLines[i]
  BY <1>1
<1>3. \A i : i \in DOMAIN profileLines' <=> i \in DOMAIN profileLines \/ i = N
  BY <1>2
<1>4. \A i \in DOMAIN profileLines : i \in Nat /\ i < N
  BY <1>2
<1>5. ASSUME NEW k PROVE At(k)' = At(k) \cup (IF l.kind = k THEN {N} ELSE {})
  BY <1>2, <1>3 DEF At
<1> QED BY <1>2, <1>4, <1>5 DEF At, ProfileLineAdded

\* What is said of the earlier lines, and of the new one.
LEMMA EarlierLines ==
    ASSUME ProfileTypeOK, NEW l \in LinesOfProfile, ReadProfile(l), NEW N,
           N = Len(profileLines) + 1
    PROVE  /\ \A i \in DOMAIN profileLines :
                  Counts(i)' <=> l.kind # "experience" /\ Counts(i)
           /\ l.kind # "experience" => Counts(N)'
           /\ \A i \in DOMAIN profileLines : InMandatoryList(i)' <=> InMandatoryList(i)
           /\ FlagIsList /\ l.kind = "phrase" =>
                  (InMandatoryList(N)' <=> readingMandatory)
<1>1. /\ \A k : At(k)' = At(k) \cup (IF l.kind = k THEN {N} ELSE {})
      /\ \A k : At(k) \subseteq DOMAIN profileLines
      /\ \A i \in DOMAIN profileLines : i \in Nat /\ i < N
      /\ N \in Nat
  <2>1. ProfileLineAdded(l, N)
    BY OneProfileLine
  <2> QED BY <2>1 DEF ProfileLineAdded
<1>2. \A i \in DOMAIN profileLines : Counts(i)' <=> l.kind # "experience" /\ Counts(i)
  BY <1>1 DEF Counts
<1>3. l.kind # "experience" => Counts(N)'
  BY <1>1 DEF Counts
<1>4. \A i \in DOMAIN profileLines : InMandatoryList(i)' <=> InMandatoryList(i)
  BY <1>1 DEF InMandatoryList
<1>5. ASSUME FlagIsList, l.kind = "phrase"
      PROVE  InMandatoryList(N)' <=> readingMandatory
  BY <1>1, <1>5 DEF InMandatoryList, FlagIsList
<1> QED BY <1>2, <1>3, <1>4, <1>5

----------------------------------------------------------------------------
(* What a line leaves alone.                                                 *)

LEMMA TitleKept ==
    ASSUME ProfileTypeOK, NEW l \in LinesOfProfile, ReadProfile(l), l.kind # "experience",
           TitleMeaning, job'.jobTitle = job.jobTitle
    PROVE  TitleMeaning'
<1>0. PICK N : N = Len(profileLines) + 1
  OBVIOUS
<1>1. /\ \A k : At(k)' = At(k) \cup (IF l.kind = k THEN {N} ELSE {})
      /\ \A k : At(k) \subseteq DOMAIN profileLines
      /\ \A i \in DOMAIN profileLines : i \in Nat /\ i < N
           /\ profileLines'[i] = profileLines[i]
      /\ N \in Nat
  <2>1. ProfileLineAdded(l, N)
    BY <1>0, OneProfileLine
  <2> QED BY <1>0, <2>1 DEF ProfileLineAdded
<1>2. At("experience")' = At("experience")
  BY <1>1
<1>3. CASE /\ job.jobTitle = ""
           /\ \A e \in At("experience") :
                (\A x \in At("experience") : x <= e) => \A t \in At("title") : t > e
  <2>1. ASSUME NEW e \in At("experience")', \A x \in At("experience")' : x <= e,
               NEW t \in At("title")'
        PROVE  t > e
    <3>1. e \in At("experience") /\ \A x \in At("experience") : x <= e
      BY <1>2, <2>1
    <3>2. e \in DOMAIN profileLines /\ e \in Nat /\ e < N
      BY <1>1, <3>1
    <3>3. t \in At("title") \/ t = N
      BY <1>1, <2>1
    <3> QED BY <1>1, <1>3, <3>1, <3>2, <3>3
  <2>2. job'.jobTitle = ""
    BY <1>3
  <2> QED BY <2>1, <2>2 DEF TitleMeaning
<1>4. ASSUME NEW e \in At("experience"), NEW t \in At("title"),
             t < e, profileLines[t].title = job.jobTitle,
             \A x \in At("experience") : x <= e,
             \A x \in At("title") : x < e => x <= t
      PROVE  TitleMeaning'
  <2>1. /\ e \in At("experience")' /\ t \in At("title")'
        /\ profileLines'[t].title = job'.jobTitle
        /\ \A x \in At("experience")' : x <= e
    BY <1>1, <1>2, <1>4
  <2>2. \A x \in At("title")' : x < e => x <= t
    BY <1>1, <1>4
  <2> QED BY <1>4, <2>1, <2>2 DEF TitleMeaning
<1> QED BY <1>3, <1>4 DEF TitleMeaning

LEMMA LastTitleKept ==
    ASSUME ProfileTypeOK, NEW l \in LinesOfProfile, ReadProfile(l), l.kind # "title",
           TitleIsLast, title' = title
    PROVE  TitleIsLast'
<1>0. PICK N : N = Len(profileLines) + 1
  OBVIOUS
<1>1. /\ At("title")' = At("title") /\ At("title") \subseteq DOMAIN profileLines
      /\ \A i \in DOMAIN profileLines : profileLines'[i] = profileLines[i]
  <2>1. ProfileLineAdded(l, N)
    BY <1>0, OneProfileLine
  <2> QED BY <1>0, <2>1 DEF ProfileLineAdded
<1> QED BY <1>1 DEF TitleIsLast

LEMMA FlagKept ==
    ASSUME ProfileTypeOK, NEW l \in LinesOfProfile, ReadProfile(l),
           l.kind \notin {"mandatory", "weighted"},
           FlagIsList, readingMandatory' = readingMandatory
    PROVE  FlagIsList'
<1>0. PICK N : N = Len(profileLines) + 1
  OBVIOUS
<1>1. At("mandatory")' = At("mandatory") /\ At("weighted")' = At("weighted")
  <2>1. ProfileLineAdded(l, N)
    BY <1>0, OneProfileLine
  <2> QED BY <1>0, <2>1 DEF ProfileLineAdded
<1> QED BY <1>1 DEF FlagIsList

LEMMA RequiredKept ==
    ASSUME ProfileTypeOK, NEW l \in LinesOfProfile, ReadProfile(l),
           l.kind \notin {"experience", "weighted"},
           RequiredMeaning, job'.requiredSkills = job.requiredSkills
    PROVE  RequiredMeaning'
<1>0. PICK N : N = Len(profileLines) + 1
  OBVIOUS
<1>1. /\ At("weighted")' = At("weighted") /\ At("weighted") \subseteq DOMAIN profileLines
      /\ \A i \in DOMAIN profileLines : profileLines'[i] = profileLines[i]
  <2>1. ProfileLineAdded(l, N)
    BY <1>0, OneProfileLine
  <2> QED BY <1>0, <2>1 DEF ProfileLineAdded
<1>2. \A i \in DOMAIN profileLines : Counts(i)' <=> Counts(i)
  BY <1>0, EarlierLines
<1>3. \A s : Given(s)' = Given(s)
  BY <1>1, <1>2 DEF Given
<1>4. \A s : Given(s) \subseteq DOMAIN profileLines
  BY <1>1 DEF Given
<1> QED BY <1>1, <1>3, <1>4, RequiredByGiven, RequiredByGivenNext

LEMMA MandatoryKept ==
    ASSUME ProfileTypeOK, NEW l \in LinesOfProfile, ReadProfile(l),
           l.kind \notin {"experience", "phrase"},
           MandatoryMeaning, job'.mandatorySkills = job.mandatorySkills
    PROVE  MandatoryMeaning'
<1>0. PICK N : N = Len(profileLines) + 1
  OBVIOUS
<1>1. /\ At("phrase")' = At("phrase") /\ At("phrase") \subseteq DOMAIN profileLines
      /\ \A i \in DOMAIN profileLines : profileLines'[i] = profileLines[i]
  <2>1. ProfileLineAdded(l, N)
    BY <1>0, OneProfileLine
  <2> QED BY <1>0, <2>1 DEF ProfileLineAdded
<1>2. \A i \in DOMAIN profileLines : (Counts(i)' <=> Counts(i))
      /\ (InMandatoryList(i)' <=> InMandatoryList(i))
  BY <1>0, EarlierLines
<1>3. MandatoryLines' = MandatoryLines /\ MandatoryLines \subseteq DOMAIN profileLines
  BY <1>1, <1>2 DEF MandatoryLines
<1>4. job.mandatorySkills
      = {Letters[Lower[profileLines[i].skill]] : i \in MandatoryLines} \ {""}
  BY DEF MandatoryMeaning, MandatoryLines
<1>5. job'.mandatorySkills
      = {Letters[Lower[profileLines'[i].skill]] : i \in MandatoryLines'} \ {""}
  <2>1. \A i \in MandatoryLines : profileLines'[i].skill = profileLines[i].skill
    BY <1>1, <1>3
  <2>2. {Letters[Lower[profileLines'[i].skill]] : i \in MandatoryLines'}
        = {Letters[Lower[profileLines[i].skill]] : i \in MandatoryLines}
    BY <1>3, <2>1
  <2> QED BY <1>4, <2>2
<1> QED BY <1>5 DEF MandatoryMeaning, MandatoryLines

----------------------------------------------------------------------------
(* The lines.                                                                *)

LEMMA ReadTitleStep ==
    ASSUME ProfileInv, NEW t \in TitleTexts, ReadTitle(t)
    PROVE  ProfileInv'
<1> DEFINE l == [kind |-> "title", title |-> t]
<1>1. l \in LinesOfProfile /\ l.kind = "title" /\ l.title = t
  BY DEF LinesOfProfile
<1>2. ReadProfile(l) /\ title' = t /\ UNCHANGED <<loading, readingMandatory, job>>
  BY DEF ReadTitle
<1> HIDE DEF l
<1>3. ProfileTypeOK /\ JobHasFields /\ FlagIsList /\ TitleMeaning /\ RequiredMeaning
      /\ MandatoryMeaning
  BY DEF ProfileInv
<1>4. TitleMeaning' /\ RequiredMeaning' /\ MandatoryMeaning' /\ FlagIsList'
      /\ JobHasFields'
  BY <1>1, <1>2, <1>3, TitleKept, RequiredKept, MandatoryKept, FlagKept DEF JobHasFields
<1>5. PICK N : N = Len(profileLines) + 1
  OBVIOUS
<1>6. /\ At("title")' = At("title") \cup {N} /\ At("title") \subseteq DOMAIN profileLines
      /\ \A i \in DOMAIN profileLines : i \in Nat /\ i < N
      /\ N \in Nat /\ profileLines'[N] = l /\ profileLines' \in Seq(LinesOfProfile)
  <2>1. ProfileLineAdded(l, N)
    BY <1>1, <1>2, <1>3, <1>5, OneProfileLine
  <2> QED BY <1>1, <1>2, <1>3, <1>5, <2>1 DEF ProfileLineAdded
<1>7. TitleIsLast'
  <2>1. N \in At("title")' /\ profileLines'[N].title = title'
        /\ \A x \in At("title")' : x <= N
    BY <1>1, <1>2, <1>6
  <2> QED BY <2>1 DEF TitleIsLast
<1>8. ProfileTypeOK'
  BY <1>2, <1>3, <1>6 DEF ProfileTypeOK
<1> QED BY <1>4, <1>7, <1>8 DEF ProfileInv

LEMMA ReadExperienceStep ==
    ASSUME ProfileInv, NEW n \in Numbers, ReadExperience(n)
    PROVE  ProfileInv'
<1> DEFINE l == [kind |-> "experience", number |-> n]
<1>1. l \in LinesOfProfile /\ l.kind = "experience"
  BY DEF LinesOfProfile
<1>2. ReadProfile(l) /\ job' = NewJob(title, n)
      /\ UNCHANGED <<loading, title, readingMandatory>>
  BY DEF ReadExperience
<1> HIDE DEF l
<1>3. ProfileTypeOK /\ TitleIsLast /\ FlagIsList
  BY DEF ProfileInv
<1>4. TitleIsLast' /\ FlagIsList'
  BY <1>1, <1>2, <1>3, LastTitleKept, FlagKept
<1>5. PICK N : N = Len(profileLines) + 1
  OBVIOUS
<1>6. /\ At("experience")' = At("experience") \cup {N}
      /\ At("title")' = At("title") /\ At("weighted")' = At("weighted")
      /\ At("phrase")' = At("phrase")
      /\ \A k : At(k) \subseteq DOMAIN profileLines
      /\ \A i \in DOMAIN profileLines : i \in Nat /\ i < N
           /\ profileLines'[i] = profileLines[i]
      /\ N \in Nat /\ profileLines' \in Seq(LinesOfProfile)
  <2>1. ProfileLineAdded(l, N)
    BY <1>1, <1>2, <1>3, <1>5, OneProfileLine
  <2> QED BY <1>1, <1>2, <1>3, <1>5, <2>1 DEF ProfileLineAdded
<1>7. /\ job'.jobTitle = title /\ job'.minExperience = n
      /\ job'.mandatorySkills = {} /\ DOMAIN job'.requiredSkills = {}
      /\ JobHasFields'
  BY <1>2 DEF NewJob, JobHasFields
<1>8. \A i \in DOMAIN profileLines : ~Counts(i)'
  BY <1>1, <1>2, <1>3, <1>5, EarlierLines
<1>9. TitleMeaning'
  <2>1. CASE title = "" /\ At("title") = {}
    <3>1. job'.jobTitle = "" /\ At("title")' = {}
      BY <2>1, <1>6, <1>7
    <3> QED BY <3>1 DEF TitleMeaning
  <2>2. ASSUME NEW t \in At("title"), profileLines[t].title = title,
               \A x \in At("title") : x <= t
        PROVE  TitleMeaning'
    <3>1. N \in At("experience")' /\ t \in At("title")' /\ t < N
          /\ profileLines'[t].title = job'.jobTitle
      BY <2>2, <1>6, <1>7
    <3>2. \A x \in At("experience")' : x <= N
      BY <1>6
    <3>3. \A x \in At("title")' : x < N => x <= t
      BY <2>2, <1>6
    <3> QED BY <3>1, <3>2, <3>3 DEF TitleMeaning
  <2> QED BY <1>3, <2>1, <2>2 DEF TitleIsLast
<1>10. RequiredMeaning'
  <2>1. \A s : Given(s)' = {}
    BY <1>6, <1>8 DEF Given
  <2> QED BY <1>7, <2>1, RequiredByGivenNext
<1>11. MandatoryMeaning'
  <2>1. \A i \in At("phrase")' : ~Counts(i)'
    BY <1>6, <1>8
  <2>2. MandatoryLines' = {}
    BY <2>1 DEF MandatoryLines
  <2>3. {Letters[Lower[profileLines'[i].skill]] : i \in MandatoryLines'} \ {""} = {}
    BY <2>2
  <2> QED BY <1>7, <2>3 DEF MandatoryMeaning, MandatoryLines
<1>12. ProfileTypeOK'
  BY <1>2, <1>3, <1>6, <1>7 DEF ProfileTypeOK
<1> QED BY <1>4, <1>7, <1>9, <1>10, <1>11, <1>12 DEF ProfileInv

LEMMA ReadMandatoryHeaderStep ==
    ASSUME ProfileInv, ReadMandatoryHeader
    PROVE  ProfileInv'
<1> DEFINE l == [kind |-> "mandatory"]
<1>1. l \in LinesOfProfile /\ l.kind = "mandatory"
  BY DEF LinesOfProfile
<1>2. ReadProfile(l) /\ readingMandatory' = TRUE /\ UNCHANGED <<loading, title, job>>
  BY DEF ReadMandatoryHeader
<1> HIDE DEF l
<1>3. ProfileTypeOK /\ JobHasFields /\ TitleIsLast /\ TitleMeaning /\ RequiredMeaning
      /\ MandatoryMeaning
  BY DEF ProfileInv
<1>4. TitleMeaning' /\ RequiredMeaning' /\ MandatoryMeaning' /\ TitleIsLast'
      /\ JobHasFields'
  BY <1>1, <1>2, <1>3, TitleKept, RequiredKept, MandatoryKept,
     LastTitleKept DEF JobHasFields
<1>5. PICK N : N = Len(profileLines) + 1
  OBVIOUS
<1>6. /\ At("mandatory")' = At("mandatory") \cup {N} /\ At("weighted")' = At("weighted")
      /\ At("weighted") \subseteq DOMAIN profileLines
      /\ \A i \in DOMAIN profileLines : i \in Nat /\ i < N
      /\ N \in Nat /\ profileLines' \in Seq(LinesOfProfile)
  <2>1. ProfileLineAdded(l, N)
    BY <1>1, <1>2, <1>3, <1>5, OneProfileLine
  <2> QED BY <1>1, <1>2, <1>3, <1>5, <2>1 DEF ProfileLineAdded
<1>7. FlagIsList'
  <2>1. \A k \in At("weighted")' : ~(N < k)
    BY <1>6
  <2> QED BY <1>2, <1>6, <2>1 DEF FlagIsList
<1>8. ProfileTypeOK'
  BY <1>2, <1>3, <1>6 DEF ProfileTypeOK
<1> QED BY <1>4, <1>7, <1>8 DEF ProfileInv

LEMMA ReadWeightedStep ==
    ASSUME ProfileInv, NEW s \in Spellings, NEW w \in Numbers, ReadWeighted(s, w)
    PROVE  ProfileInv'
<1> DEFINE l == [kind |-> "weighted", skill |-> s, number |-> w]
           z == Lower[s]
<1>1. l \in LinesOfProfile /\ l.kind = "weighted" /\ l.skill = s /\ l.number = w
      /\ z \in SkillTexts
  BY ProfileAssumption DEF LinesOfProfile
<1>2. /\ ReadProfile(l) /\ job' = AddRequired(job, z, w) /\ readingMandatory' = FALSE
      /\ UNCHANGED <<loading, title>>
  BY DEF ReadWeighted
<1>z. z = Lower[l.skill]
  BY <1>1
<1> HIDE DEF l, z
<1>3. ProfileTypeOK /\ JobHasFields /\ TitleIsLast /\ TitleMeaning /\ RequiredMeaning
      /\ MandatoryMeaning
  BY DEF ProfileInv
<1>4. /\ job'.jobTitle = job.jobTitle /\ job'.minExperience = job.minExperience
      /\ job'.mandatorySkills = job.mandatorySkills
      /\ job'.requiredSkills = [t \in DOMAIN job.requiredSkills \cup {z} |->
                                  IF t = z THEN w ELSE job.requiredSkills[t]]
      /\ JobHasFields'
  BY <1>2, <1>3 DEF AddRequired, JobHasFields
<1>5. TitleMeaning' /\ MandatoryMeaning' /\ TitleIsLast'
  BY <1>1, <1>2, <1>3, <1>4, TitleKept, MandatoryKept, LastTitleKept
<1>6. PICK N : N = Len(profileLines) + 1
  OBVIOUS
<1>7. /\ At("mandatory")' = At("mandatory") /\ At("weighted")' = At("weighted") \cup {N}
      /\ \A k : At(k) \subseteq DOMAIN profileLines
      /\ \A i \in DOMAIN profileLines : i \in Nat /\ i < N
           /\ profileLines'[i] = profileLines[i]
      /\ N \in Nat /\ profileLines' \in Seq(LinesOfProfile) /\ profileLines'[N] = l
  <2>1. ProfileLineAdded(l, N)
    BY <1>1, <1>2, <1>3, <1>6, OneProfileLine
  <2> QED BY <1>1, <1>2, <1>3, <1>6, <2>1 DEF ProfileLineAdded
<1>8. FlagIsList'
  BY <1>2, <1>7 DEF FlagIsList
<1>9. \A t : Given(t)' = Given(t) \cup (IF t = z THEN {N} ELSE {})
  <2>1. Counts(N)' /\ \A i \in DOMAIN profileLines : Counts(i)' <=> Counts(i)
    BY <1>1, <1>2, <1>3, <1>6, EarlierLines
  <2> QED BY <1>7, <1>z, <2>1 DEF Given
<1>10. \A t : Given(t) \subseteq DOMAIN profileLines
  BY <1>7 DEF Given
<1>11. RequiredMeaning'
  <2>1. /\ DOMAIN job.requiredSkills = {t \in SkillTexts : Given(t) # {}}
        /\ \A t \in DOMAIN job.requiredSkills : \E i \in Given(t) :
              (\A j \in Given(t) : j <= i)
              /\ job.requiredSkills[t] = profileLines[i].number
    BY <1>3, RequiredByGiven
  <2>2. DOMAIN job'.requiredSkills = DOMAIN job.requiredSkills \cup {z}
    BY <1>4
  <2>3. DOMAIN job'.requiredSkills = {t \in SkillTexts : Given(t)' # {}}
    BY <1>1, <1>9, <2>1, <2>2
  <2>4. ASSUME NEW t \in DOMAIN job'.requiredSkills
        PROVE  \E i \in Given(t)' :
                  (\A j \in Given(t)' : j <= i)
                  /\ job'.requiredSkills[t] = profileLines'[i].number
    <3>1. CASE t = z
      <4>1. N \in Given(t)' /\ \A j \in Given(t)' : j <= N
        BY <3>1, <1>7, <1>9, <1>10
      <4>2. job'.requiredSkills[t] = profileLines'[N].number
        BY <3>1, <1>1, <1>4, <1>7
      <4> QED BY <4>1, <4>2
    <3>2. CASE t # z
      <4>1. t \in DOMAIN job.requiredSkills
            /\ job'.requiredSkills[t] = job.requiredSkills[t]
        BY <3>2, <1>4, <2>2
      <4>2. PICK i \in Given(t) : (\A j \in Given(t) : j <= i)
            /\ job.requiredSkills[t] = profileLines[i].number
        BY <4>1, <2>1
      <4> QED BY <3>2, <4>1, <4>2, <1>7, <1>9, <1>10
    <3> QED BY <3>1, <3>2
  <2> QED BY <2>3, <2>4, RequiredByGivenNext
<1>12. ProfileTypeOK'
  <2>1. DOMAIN job'.requiredSkills \subseteq SkillTexts
        /\ \A t \in DOMAIN job'.requiredSkills : job'.requiredSkills[t] \in Numbers
    BY <1>1, <1>3, <1>4 DEF ProfileTypeOK
  <2> QED BY <1>2, <1>3, <1>4, <1>7, <2>1 DEF ProfileTypeOK
<1> QED BY <1>4, <1>5, <1>8, <1>11, <1>12 DEF ProfileInv

LEMMA ReadPhraseStep ==
    ASSUME ProfileInv, NEW s \in Spellings \ OneWord, ReadPhrase(s)
    PROVE  ProfileInv'
<1> DEFINE l == [kind |-> "phrase", skill |-> s]
           z == Letters[Lower[s]]
<1>1. l \in LinesOfProfile /\ l.kind = "phrase" /\ l.skill = s
      /\ z \in SkillTexts \cup {""}
  BY ProfileAssumption DEF LinesOfProfile
<1>2. /\ ReadProfile(l) /\ UNCHANGED <<loading, title, readingMandatory>>
      /\ job' = IF readingMandatory /\ z # "" THEN AddMandatory(job, z) ELSE job
  BY DEF ReadPhrase
<1>z. z = Letters[Lower[l.skill]]
  BY <1>1
<1> HIDE DEF l, z
<1>3. /\ ProfileTypeOK /\ JobHasFields /\ TitleIsLast /\ FlagIsList
      /\ TitleMeaning /\ RequiredMeaning /\ MandatoryMeaning
  BY DEF ProfileInv
<1>4. /\ job'.jobTitle = job.jobTitle /\ job'.minExperience = job.minExperience
      /\ job'.requiredSkills = job.requiredSkills
      /\ job'.mandatorySkills = job.mandatorySkills
                                  \cup (IF readingMandatory /\ z # "" THEN {z} ELSE {})
      /\ JobHasFields'
  <2>1. CASE readingMandatory /\ z # ""
    BY <2>1, <1>2, <1>3 DEF AddMandatory, JobHasFields
  <2>2. CASE ~(readingMandatory /\ z # "")
    BY <2>2, <1>2, <1>3 DEF JobHasFields
  <2> QED BY <2>1, <2>2
<1>5. TitleMeaning' /\ RequiredMeaning' /\ TitleIsLast' /\ FlagIsList'
  BY <1>1, <1>2, <1>3, <1>4, TitleKept, RequiredKept, LastTitleKept, FlagKept
<1>6. PICK N : N = Len(profileLines) + 1
  OBVIOUS
<1>7. /\ At("phrase")' = At("phrase") \cup {N}
      /\ At("phrase") \subseteq DOMAIN profileLines
      /\ \A i \in DOMAIN profileLines : i # N /\ profileLines'[i] = profileLines[i]
      /\ profileLines' \in Seq(LinesOfProfile) /\ profileLines'[N] = l
  <2>1. ProfileLineAdded(l, N)
    BY <1>1, <1>2, <1>3, <1>6, OneProfileLine
  <2>2. \A i \in DOMAIN profileLines : i # N
    BY <2>1 DEF ProfileLineAdded
  <2> QED BY <1>1, <2>1, <2>2 DEF ProfileLineAdded
<1>8. /\ Counts(N)' /\ (InMandatoryList(N)' <=> readingMandatory)
      /\ \A i \in DOMAIN profileLines : (Counts(i)' <=> Counts(i))
           /\ (InMandatoryList(i)' <=> InMandatoryList(i))
  BY <1>1, <1>2, <1>3, <1>6, EarlierLines
<1>9. MandatoryMeaning'
  <2>1. MandatoryLines' = MandatoryLines \cup (IF readingMandatory THEN {N} ELSE {})
        /\ MandatoryLines \subseteq DOMAIN profileLines
    BY <1>7, <1>8 DEF MandatoryLines
  <2>2. job.mandatorySkills
        = {Letters[Lower[profileLines[i].skill]] : i \in MandatoryLines} \ {""}
    BY <1>3 DEF MandatoryMeaning, MandatoryLines
  <2>3. {Letters[Lower[profileLines'[i].skill]] : i \in MandatoryLines'}
          = {Letters[Lower[profileLines[i].skill]] : i \in MandatoryLines}
          \cup (IF readingMandatory THEN {z} ELSE {})
    <3>1. \A i \in MandatoryLines : profileLines'[i].skill = profileLines[i].skill
      BY <1>7, <2>1
    <3>2. Letters[Lower[profileLines'[N].skill]] = z
      BY <1>7, <1>z
    <3> QED BY <2>1, <3>1, <3>2
  <2>4. job'.mandatorySkills
        = {Letters[Lower[profileLines'[i].skill]] : i \in MandatoryLines'} \ {""}
    BY <1>4, <2>2, <2>3
  <2> QED BY <2>4 DEF MandatoryMeaning, MandatoryLines
<1>10. ProfileTypeOK'
  BY <1>1, <1>2, <1>3, <1>4, <1>7 DEF ProfileTypeOK
<1> QED BY <1>4, <1>5, <1>9, <1>10 DEF ProfileInv

LEMMA ReadWordStep ==
    ASSUME ProfileInv, NEW s \in OneWord, ReadWord(s)
    PROVE  ProfileInv'
<1> DEFINE l == [kind |-> "word", skill |-> s]
<1>1. l \in LinesOfProfile /\ l.kind = "word"
  BY DEF LinesOfProfile
<1>2. ReadProfile(l) /\ UNCHANGED <<loading, title, readingMandatory, job>>
  BY DEF ReadWord
<1> HIDE DEF l
<1>3. /\ ProfileTypeOK /\ JobHasFields /\ TitleIsLast /\ FlagIsList
      /\ TitleMeaning /\ RequiredMeaning /\ MandatoryMeaning
  BY DEF ProfileInv
<1>4. /\ TitleMeaning' /\ RequiredMeaning' /\ MandatoryMeaning' /\ TitleIsLast'
      /\ FlagIsList'
      /\ JobHasFields'
  BY <1>1, <1>2, <1>3, TitleKept, RequiredKept, MandatoryKept, LastTitleKept,
     FlagKept DEF JobHasFields
<1>5. profileLines' \in Seq(LinesOfProfile)
  <2>0. PICK N : N = Len(profileLines) + 1
    OBVIOUS
  <2>1. ProfileLineAdded(l, N)
    BY <1>1, <1>2, <1>3, <2>0, OneProfileLine
  <2> QED BY <1>1, <1>2, <1>3, <2>1 DEF ProfileLineAdded
<1>6. ProfileTypeOK'
  BY <1>2, <1>3, <1>5 DEF ProfileTypeOK
<1> QED BY <1>4, <1>6 DEF ProfileInv

\* The file ends, cannot be opened, or has a MinExperience line without a number.
LEMMA ProfileEnds ==
    ASSUME ProfileInv, UNCHANGED <<title, readingMandatory, job, profileLines>>,
           loading' \in {"reading", "returned", "threw"}
    PROVE  ProfileInv'
<1>1. /\ ProfileTypeOK' /\ JobHasFields'
  BY DEF ProfileInv, ProfileTypeOK, JobHasFields
<1>2. \A k : At(k)' = At(k)
  BY DEF At
<1>3. TitleIsLast' /\ FlagIsList' /\ TitleMeaning'
  BY <1>2 DEF ProfileInv, TitleIsLast, FlagIsList, TitleMeaning
<1>4. \A i : (Counts(i)' <=> Counts(i)) /\ (InMandatoryList(i)' <=> InMandatoryList(i))
  BY <1>2 DEF Counts, InMandatoryList
<1>5. RequiredMeaning'
  <2>1. \A s : Given(s)' = Given(s)
    BY <1>2, <1>4 DEF Given
  <2> QED BY <2>1, RequiredByGiven, RequiredByGivenNext DEF ProfileInv
<1>6. MandatoryMeaning'
  <2>1. MandatoryLines' = MandatoryLines
    BY <1>2, <1>4 DEF MandatoryLines
  <2> QED BY <2>1 DEF ProfileInv, MandatoryMeaning, MandatoryLines
<1> QED BY <1>1, <1>3, <1>5, <1>6 DEF ProfileInv

----------------------------------------------------------------------------
(* The job.                                                                  *)

LEMMA InitProfileInv == ProfileInit => ProfileInv
<1> SUFFICES ASSUME ProfileInit PROVE ProfileInv
  OBVIOUS
<1>1. /\ profileLines = <<>> /\ title = "" /\ readingMandatory = FALSE
      /\ loading = "reading"
      /\ job = [jobTitle |-> "", minExperience |-> 0,
                mandatorySkills |-> {}, requiredSkills |-> <<>>]
  BY DEF ProfileInit, NewJob
<1>a. DOMAIN <<>> = {}
  OBVIOUS
<1>2. \A k : At(k) = {}
  <2>1. DOMAIN profileLines = {}
    BY <1>1, <1>a
  <2> QED BY <2>1 DEF At
<1>b. /\ job.jobTitle = "" /\ job.minExperience = 0 /\ job.mandatorySkills = {}
      /\ job.requiredSkills = <<>>
  BY <1>1
<1>c. DOMAIN job.requiredSkills = {} /\ JobHasFields
  BY <1>1, <1>a, <1>b DEF JobHasFields
<1>3. ProfileTypeOK
  <2>1. <<>> \in Seq(LinesOfProfile)
    OBVIOUS
  <2> QED BY <1>1, <1>b, <1>c, <2>1 DEF ProfileTypeOK
<1>4. TitleIsLast /\ FlagIsList /\ TitleMeaning
  BY <1>1, <1>2, <1>b DEF TitleIsLast, FlagIsList, TitleMeaning
<1>5. RequiredMeaning /\ MandatoryMeaning
  <2>1. \A s : Given(s) = {}
    BY <1>2 DEF Given
  <2>2. RequiredMeaning
    BY <1>c, <2>1, RequiredByGiven
  <2>3. MandatoryMeaning
    <3>1. MandatoryLines = {}
      BY <1>2 DEF MandatoryLines
    <3>2. {Letters[Lower[profileLines[i].skill]] : i \in MandatoryLines} \ {""} = {}
      BY <3>1
    <3> QED BY <1>b, <3>2 DEF MandatoryMeaning, MandatoryLines
  <2> QED BY <2>2, <2>3
<1> QED BY <1>c, <1>3, <1>4, <1>5 DEF ProfileInv

LEMMA ProfileStep == ProfileInv /\ [ProfileNext]_profile => ProfileInv'
<1> SUFFICES ASSUME ProfileInv, [ProfileNext]_profile PROVE ProfileInv'
  OBVIOUS
<1>1. loading \in {"reading", "returned", "threw"}
  BY DEF ProfileInv, ProfileTypeOK
<1>2. CASE UNCHANGED profile
  BY <1>1, <1>2, ProfileEnds DEF profile
<1>3. CASE ReadBadExperience \/ FailOpenProfile \/ EndOfProfile
  BY <1>3, ProfileEnds DEF ReadBadExperience, FailOpenProfile, EndOfProfile
<1>4. CASE \E t \in TitleTexts : ReadTitle(t)
  BY <1>4, ReadTitleStep
<1>5. CASE \E n \in Numbers : ReadExperience(n)
  BY <1>5, ReadExperienceStep
<1>6. CASE ReadMandatoryHeader
  BY <1>6, ReadMandatoryHeaderStep
<1>7. CASE \E s \in Spellings, w \in Numbers : ReadWeighted(s, w)
  BY <1>7, ReadWeightedStep
<1>8. CASE \E s \in Spellings \ OneWord : ReadPhrase(s)
  BY <1>8, ReadPhraseStep
<1>9. CASE \E s \in OneWord : ReadWord(s)
  BY <1>9, ReadWordStep
<1> QED BY <1>2, <1>3, <1>4, <1>5, <1>6, <1>7, <1>8, <1>9 DEF ProfileNext

LEMMA ProfileInvariant == ProfileSpec => []ProfileInv
<1>1. ProfileInit => ProfileInv
  BY InitProfileInv
<1>2. ProfileInv /\ [ProfileNext]_profile => ProfileInv'
  BY ProfileStep
<1> QED BY <1>1, <1>2, PTL DEF ProfileSpec

\* The loader's locals and the Job keep their types: skills in lower case, each
\* with one number, and the title and experience of lines of the file.
THEOREM ProfileTypes == ProfileSpec => []ProfileTypeOK
<1>1. ProfileInv => ProfileTypeOK
  BY DEF ProfileInv
<1> QED BY <1>1, ProfileInvariant, PTL

\* For a profile of any lines in any order, the job that loadJobFromFile has
\* built is what the lines say: its title is the last one above the last
\* MinExperience line, its weights are the last ones given since that line, and
\* its mandatory skills are the lines of more than one word under "Mandatory:"
\* since then.
THEOREM ProfileMeaning == ProfileSpec => []JobMeaning
<1>1. ProfileInv => JobMeaning
  BY DEF ProfileInv, JobMeaning
<1> QED BY <1>1, ProfileInvariant, PTL

----------------------------------------------------------------------------
(* ResumeParser: numbers of lines.                                           *)

LEMMA LeastNumber ==
    ASSUME NEW S, S \subseteq Nat, S # {}
    PROVE  \E m \in S : \A n \in S : m <= n
<1>1. IsWellFoundedOn(OpToRel(<, Nat), Nat)
  BY NatLessThanWellFounded
<1>2. PICK m \in S : \A n \in S : ~(<<n, m>> \in OpToRel(<, Nat))
  BY <1>1, WFMin, Zenon
<1>3. ASSUME NEW i \in Nat, NEW j \in Nat, ~(<<i, j>> \in OpToRel(<, Nat)) PROVE j <= i
  BY <1>3 DEF OpToRel
<1> QED BY <1>2, <1>3

LEMMA GreatestNumber ==
    ASSUME NEW N \in Nat, NEW S, \A n \in S : n \in Nat /\ n < N, S # {}
    PROVE  \E m \in S : \A n \in S : n <= m
<1>1. {N - n : n \in S} \subseteq Nat /\ {N - n : n \in S} # {}
  OBVIOUS
<1>2. PICK k \in {N - n : n \in S} : \A j \in {N - n : n \in S} : k <= j
  BY <1>1, LeastNumber
<1>3. PICK m \in S : k = N - m
  OBVIOUS
<1>4. \A n \in S : N - m <= N - n
  BY <1>2, <1>3
<1> QED BY <1>3, <1>4

LEMMA MinIs ==
    ASSUME NEW S, \A n \in S : n \in Nat, NEW m \in S, \A n \in S : m <= n
    PROVE  Min(S) = m
<1>1. \A n \in S : (\A k \in S : n <= k) => n = m
  OBVIOUS
<1> QED BY <1>1 DEF Min

LEMMA MaxIs ==
    ASSUME NEW S, \A n \in S : n \in Nat, NEW m \in S, \A n \in S : n <= m
    PROVE  Max(S) = m
<1>1. \A n \in S : (\A k \in S : n >= k) => n = m
  OBVIOUS
<1>2. \A k \in S : m >= k
  OBVIOUS
<1> QED BY <1>1, <1>2 DEF Max

LEMMA MaxMember ==
    ASSUME NEW N \in Nat, NEW S, \A n \in S : n \in Nat /\ n < N, S # {}
    PROVE  Max(S) \in S
<1>1. PICK m \in S : \A n \in S : n <= m
  BY GreatestNumber
<1> QED BY <1>1, MaxIs

----------------------------------------------------------------------------
(* Lists of lines.                                                           *)

\* How many of the lines K stand at i or above.
Count(K, i) == Cardinality({j \in K : j <= i})

\* The sequence r is the lines of t that K numbers, in their order.
ListOf(r, K, t) ==
    /\ r \in Seq(Lines) /\ Len(r) = Cardinality(K)
    /\ \A i \in K : Count(K, i) \in 1..Len(r) /\ r[Count(K, i)] = t[i]
    /\ \A n \in 1..Len(r) : \E i \in K : Count(K, i) = n

LEMMA ListExtended ==
    ASSUME NEW N \in Nat, NEW K, IsFiniteSet(K), \A i \in K : i \in Nat /\ i < N,
           NEW r, NEW t, NEW u, ListOf(r, K, t),
           \A i \in K : u[i] = t[i], u[N] \in Lines
    PROVE  ListOf(Append(r, u[N]), K \cup {N}, u)
<1> DEFINE q == Append(r, u[N])
           L == K \cup {N}
<1>1. /\ r \in Seq(Lines) /\ Len(r) \in Nat /\ Len(r) = Cardinality(K)
      /\ q \in Seq(Lines) /\ Len(q) = Len(r) + 1 /\ q[Len(r) + 1] = u[N]
      /\ \A n \in 1..Len(r) : q[n] = r[n]
  BY DEF ListOf
<1>2. Cardinality(L) = Cardinality(K) + 1
  <2>1. N \notin K
    OBVIOUS
  <2> QED BY <2>1, FS_AddElement
<1>3. \A i \in K : Count(L, i) = Count(K, i)
  <2> TAKE i \in K
  <2>1. {j \in L : j <= i} = {j \in K : j <= i}
    OBVIOUS
  <2> QED BY <2>1 DEF Count
<1>4. Count(L, N) = Len(r) + 1
  <2>1. {j \in L : j <= N} = L
    OBVIOUS
  <2> QED BY <2>1, <1>1, <1>2 DEF Count
<1>a. /\ \A i \in K : Count(K, i) \in 1..Len(r) /\ r[Count(K, i)] = t[i]
      /\ \A n \in 1..Len(r) : \E i \in K : Count(K, i) = n
  BY DEF ListOf
<1> HIDE DEF q, L
<1>b. K \subseteq L /\ N \in L /\ \A i \in L : i \in K \/ i = N
  BY DEF L
<1>5. \A i \in L : Count(L, i) \in 1..Len(q) /\ q[Count(L, i)] = u[i]
  <2> TAKE i \in L
  <2>1. CASE i \in K
    <3>1. Count(L, i) \in 1..Len(r) /\ r[Count(L, i)] = u[i]
      BY <2>1, <1>3, <1>a
    <3>2. q[Count(L, i)] = r[Count(L, i)]
      BY <1>1, <3>1
    <3> QED BY <1>1, <3>1, <3>2
  <2>2. CASE i = N
    BY <2>2, <1>1, <1>4
  <2> QED BY <1>b, <2>1, <2>2
<1>6. \A n \in 1..Len(q) : \E i \in L : Count(L, i) = n
  <2> TAKE n \in 1..Len(q)
  <2>1. CASE n \in 1..Len(r)
    <3>1. PICK i \in K : Count(K, i) = n
      BY <2>1, <1>a
    <3> QED BY <3>1, <1>3, <1>b
  <2>2. CASE n = Len(r) + 1
    BY <2>2, <1>4, <1>b
  <2> QED BY <1>1, <2>1, <2>2
<1> QED BY <1>1, <1>2, <1>5, <1>6 DEF ListOf, q, L

LEMMA ListKept ==
    ASSUME NEW K, NEW r, NEW t, NEW u, ListOf(r, K, t), \A i \in K : u[i] = t[i]
    PROVE  ListOf(r, K, u)
BY DEF ListOf

\* Such a list is the one that SectionMeaning writes down.
Listed(K, t) ==
    [n \in 1..Cardinality(K) |->
        t[CHOOSE i \in K : Cardinality({j \in K : j <= i}) = n]]

LEMMA ListIs ==
    ASSUME NEW K, IsFiniteSet(K), NEW r, NEW t, ListOf(r, K, t)
    PROVE  r = Listed(K, t)
<1>1. r \in Seq(Lines) /\ Len(r) = Cardinality(K) /\ r = [n \in 1..Len(r) |-> r[n]]
  BY DEF ListOf
<1>2. ASSUME NEW n \in 1..Cardinality(K)
      PROVE  r[n] = t[CHOOSE i \in K : Cardinality({j \in K : j <= i}) = n]
  <2> DEFINE c == CHOOSE i \in K : Count(K, i) = n
  <2>1. c \in K /\ Count(K, c) = n
    BY <1>1 DEF ListOf
  <2>2. c = CHOOSE i \in K : Cardinality({j \in K : j <= i}) = n
    BY DEF Count
  <2> HIDE DEF c
  <2>3. r[n] = t[c]
    BY <2>1 DEF ListOf
  <2> QED BY <2>2, <2>3
<1> QED BY <1>1, <1>2 DEF Listed

----------------------------------------------------------------------------
(* The inductive invariant: what the locals hold of the lines so far.        *)

SeenLines == resumeLines \in Seq(Lines)

Named == {i \in Searched : i <= 2 /\ resumeLines[i].name # ""}
Mailed == {i \in Searched : resumeLines[i].email # ""}
Phoned == {i \in Searched : resumeLines[i].phone}

Earliest(S, i) == i \in S /\ \A j \in S : i <= j
Latest(S, i) == i \in S /\ \A j \in S : j <= i

NameSoFar ==
    \/ Named = {} /\ name = ""
    \/ \E i \in DOMAIN resumeLines : Earliest(Named, i) /\ name = resumeLines[i].name

EmailSoFar ==
    \/ Mailed = {} /\ email = ""
    \/ \E i \in DOMAIN resumeLines : Latest(Mailed, i) /\ email = resumeLines[i].email

PhoneSoFar ==
    \/ Phoned = {} /\ phone = NoLine
    \/ \E i \in DOMAIN resumeLines : Latest(Phoned, i) /\ phone = resumeLines[i]

\* The nearest heading above line i is one of section s.
Above(i) == {h \in Headings : h < i}
Under(i, s) == Above(i) # {} /\ FirstHeading(resumeLines[Max(Above(i))]) = s
Kept(s) == {i \in TextLines : Under(i, s)}

\* The flags say of which section the last heading is.
FlagsSoFar ==
    \A s \in Sections :
        inSection[s] <=> Headings # {} /\ FirstHeading(resumeLines[Max(Headings)]) = s

ListsSoFar == \A s \in Sections : ListOf(resume[s], Kept(s), resumeLines)

SkillsSoFar == detectedSkills = UNION {resumeLines[i].skills : i \in TextLines}

\* What is returned is made of the locals.
ReturnedLocals ==
    Parsed =>
        candidate = [name |-> IF name = "" THEN "Name Not Detected" ELSE name,
                     email |-> email, phone |-> phone,
                     skills |-> detectedSkills, resume |-> resume]

LinesInv == /\ SeenLines /\ NameSoFar /\ EmailSoFar /\ PhoneSoFar
            /\ FlagsSoFar /\ ListsSoFar /\ SkillsSoFar

ParserInv == ParserTypeOK /\ LinesInv /\ ReturnedLocals

----------------------------------------------------------------------------
(* One line more.                                                            *)

ResumeLineAdded(l, N) ==
    /\ N \in Nat /\ resumeLines' \in Seq(Lines)
    /\ lineNumber' = N /\ resumeLines'[N] = l
    /\ DOMAIN resumeLines' = DOMAIN resumeLines \cup {N}
    /\ \A i \in DOMAIN resumeLines : i \in Nat /\ i < N
         /\ resumeLines'[i] = resumeLines[i]
    /\ Searched \subseteq DOMAIN resumeLines /\ Headings \subseteq DOMAIN resumeLines
    /\ TextLines \subseteq DOMAIN resumeLines
    /\ Searched' = Searched \cup (IF l.empty THEN {} ELSE {N})
    /\ Headings' = Headings \cup (IF ~l.empty /\ l.headings # {} THEN {N} ELSE {})
    /\ TextLines' = TextLines \cup (IF ~l.empty /\ l.headings = {} THEN {N} ELSE {})

LEMMA OneResumeLine ==
    ASSUME ParserTypeOK, SeenLines, NEW l \in Lines, ReadResume(l), NEW N,
           N = Len(resumeLines) + 1
    PROVE  ResumeLineAdded(l, N)
<1>1. resumeLines \in Seq(Lines) /\ resumeLines' = Append(resumeLines, l)
      /\ lineNumber' = N
  BY DEF ParserTypeOK, SeenLines, ReadResume
<1>2. /\ N \in Nat /\ DOMAIN resumeLines = 1..Len(resumeLines)
      /\ DOMAIN resumeLines' = 1..N
      /\ resumeLines' \in Seq(Lines)
      /\ resumeLines'[N] = l
      /\ \A i \in DOMAIN resumeLines : resumeLines'[i] = resumeLines[i]
  BY <1>1
<1>3. /\ DOMAIN resumeLines' = DOMAIN resumeLines \cup {N}
      /\ \A i \in DOMAIN resumeLines : i \in Nat /\ i < N /\ i # N
  BY <1>2
<1>4. Searched \subseteq DOMAIN resumeLines /\ Headings \subseteq DOMAIN resumeLines
      /\ TextLines \subseteq DOMAIN resumeLines
  BY DEF Searched, Headings, TextLines
<1>5. Searched' = Searched \cup (IF l.empty THEN {} ELSE {N})
  BY <1>2, <1>3 DEF Searched
<1>6. Headings' = Headings \cup (IF ~l.empty /\ l.headings # {} THEN {N} ELSE {})
  BY <1>2, <1>3, <1>4, <1>5 DEF Headings
<1>7. TextLines' = TextLines \cup (IF ~l.empty /\ l.headings = {} THEN {N} ELSE {})
  BY <1>3, <1>4, <1>5, <1>6 DEF TextLines
<1> QED BY <1>1, <1>2, <1>3, <1>4, <1>5, <1>6, <1>7 DEF ResumeLineAdded

\* A line without a character leaves everything but the count of lines alone.
LEMMA ContactKept ==
    ASSUME NEW l \in Lines, NEW N, ResumeLineAdded(l, N), l.empty,
           NameSoFar, EmailSoFar, PhoneSoFar, UNCHANGED <<name, email, phone>>
    PROVE  NameSoFar' /\ EmailSoFar' /\ PhoneSoFar'
<1>1. /\ Searched' = Searched /\ Searched \subseteq DOMAIN resumeLines
      /\ \A i \in DOMAIN resumeLines : i \in DOMAIN resumeLines'
           /\ resumeLines'[i] = resumeLines[i]
  BY DEF ResumeLineAdded
<1>2. Named' = Named /\ Mailed' = Mailed /\ Phoned' = Phoned
  BY <1>1 DEF Named, Mailed, Phoned
<1> QED BY <1>1, <1>2 DEF NameSoFar, EmailSoFar, PhoneSoFar, Earliest, Latest

LEMMA ContactStep ==
    ASSUME NEW l \in Lines, NEW N, ResumeLineAdded(l, N), ~l.empty, DetectContact(l),
           NameSoFar, EmailSoFar, PhoneSoFar
    PROVE  NameSoFar' /\ EmailSoFar' /\ PhoneSoFar'
<1>1. /\ Searched' = Searched \cup {N} /\ Searched \subseteq DOMAIN resumeLines
      /\ DOMAIN resumeLines' = DOMAIN resumeLines \cup {N}
      /\ \A i \in DOMAIN resumeLines : i \in Nat /\ i < N
           /\ resumeLines'[i] = resumeLines[i]
      /\ N \in Nat /\ resumeLines'[N] = l /\ lineNumber' = N
  BY DEF ResumeLineAdded
<1>2. /\ name' = IF N <= 2 /\ name = "" THEN l.name ELSE name
      /\ email' = IF l.email # "" THEN l.email ELSE email
      /\ phone' = IF l.phone THEN l ELSE phone
  BY <1>1 DEF DetectContact
<1>3. /\ Named' = Named \cup (IF N <= 2 /\ l.name # "" THEN {N} ELSE {})
      /\ Named \subseteq DOMAIN resumeLines
  BY <1>1 DEF Named
<1>4. /\ Mailed' = Mailed \cup (IF l.email # "" THEN {N} ELSE {})
      /\ Mailed \subseteq DOMAIN resumeLines
  BY <1>1 DEF Mailed
<1>5. /\ Phoned' = Phoned \cup (IF l.phone THEN {N} ELSE {})
      /\ Phoned \subseteq DOMAIN resumeLines
  BY <1>1 DEF Phoned
<1>6. NameSoFar'
  <2>1. CASE Named = {} /\ name = "" /\ N <= 2 /\ l.name # ""
    <3>1. Named' = {N}
      BY <2>1, <1>3
    <3>2. N \in Named' /\ \A j \in Named' : N <= j
      BY <1>1, <3>1
    <3>3. N \in DOMAIN resumeLines' /\ name' = resumeLines'[N].name
      BY <2>1, <1>1, <1>2
    <3> QED BY <3>2, <3>3 DEF NameSoFar, Earliest
  <2>2. CASE Named = {} /\ name = "" /\ ~(N <= 2 /\ l.name # "")
    BY <2>2, <1>2, <1>3 DEF NameSoFar
  <2>3. ASSUME NEW i \in DOMAIN resumeLines, Earliest(Named, i),
               name = resumeLines[i].name
        PROVE  NameSoFar'
    <3>1. i \in Named' /\ \A j \in Named' : i <= j
      <4>1. i \in Named /\ \A j \in Named : i <= j
        BY <2>3 DEF Earliest
      <4>2. i <= N
        BY <1>1
      <4>3. Named \subseteq Named' /\ \A j \in Named' : j \in Named \/ j = N
        BY <1>3
      <4> QED BY <4>1, <4>2, <4>3
    <3>2. name # ""
      BY <2>3 DEF Earliest, Named
    <3>3. i \in DOMAIN resumeLines' /\ name' = resumeLines'[i].name
      BY <2>3, <3>2, <1>1, <1>2
    <3> QED BY <3>1, <3>3 DEF NameSoFar, Earliest
  <2> QED BY <2>1, <2>2, <2>3 DEF NameSoFar
<1>7. EmailSoFar'
  <2>1. CASE l.email # ""
    <3>1. N \in Mailed' /\ \A j \in Mailed' : j <= N
      <4>1. N \in Mailed' /\ \A j \in Mailed' : j \in DOMAIN resumeLines \/ j = N
        BY <2>1, <1>4
      <4> QED BY <1>1, <4>1
    <3>2. N \in DOMAIN resumeLines' /\ email' = resumeLines'[N].email
      BY <2>1, <1>1, <1>2
    <3> QED BY <3>1, <3>2 DEF EmailSoFar, Latest
  <2>2. CASE l.email = ""
    <3>1. Mailed' = Mailed /\ email' = email
      BY <2>2, <1>2, <1>4
    <3>2. \A i \in DOMAIN resumeLines : i \in DOMAIN resumeLines'
          /\ resumeLines'[i] = resumeLines[i]
      BY <1>1
    <3> QED BY <3>1, <3>2 DEF EmailSoFar, Latest
  <2> QED BY <2>1, <2>2
<1>8. PhoneSoFar'
  <2>1. CASE l.phone
    <3>1. N \in Phoned' /\ \A j \in Phoned' : j <= N
      <4>1. N \in Phoned' /\ \A j \in Phoned' : j \in DOMAIN resumeLines \/ j = N
        BY <2>1, <1>5
      <4> QED BY <1>1, <4>1
    <3>2. N \in DOMAIN resumeLines' /\ phone' = resumeLines'[N]
      BY <2>1, <1>1, <1>2
    <3> QED BY <3>1, <3>2 DEF PhoneSoFar, Latest
  <2>2. CASE ~l.phone
    <3>1. Phoned' = Phoned /\ phone' = phone
      BY <2>2, <1>2, <1>5
    <3>2. \A i \in DOMAIN resumeLines : i \in DOMAIN resumeLines'
          /\ resumeLines'[i] = resumeLines[i]
      BY <1>1
    <3> QED BY <3>1, <3>2 DEF PhoneSoFar, Latest
  <2> QED BY <2>1, <2>2
<1> QED BY <1>6, <1>7, <1>8

\* The nearest headings of the earlier lines stay, and the last one is that of
\* the new line.
LEMMA UnderStep ==
    ASSUME NEW l \in Lines, NEW N, ResumeLineAdded(l, N), FlagsSoFar
    PROVE  /\ \A i \in DOMAIN resumeLines, s \in Sections : Under(i, s)' <=> Under(i, s)
           /\ l.headings = {} => \A s \in Sections : Under(N, s)' <=> inSection[s]
<1>1. /\ Headings' = Headings \cup (IF ~l.empty /\ l.headings # {} THEN {N} ELSE {})
      /\ Headings \subseteq DOMAIN resumeLines
      /\ \A i \in DOMAIN resumeLines : i \in Nat /\ i < N
           /\ resumeLines'[i] = resumeLines[i]
      /\ N \in Nat
  BY DEF ResumeLineAdded
<1>2. ASSUME NEW i \in DOMAIN resumeLines, NEW s \in Sections
      PROVE  Under(i, s)' <=> Under(i, s)
  <2>1. Above(i)' = Above(i)
    BY <1>1 DEF Above
  <2>2. CASE Above(i) = {}
    BY <2>1, <2>2 DEF Under
  <2>3. CASE Above(i) # {}
    <3>1. Max(Above(i)) \in DOMAIN resumeLines
      <4>1. \A h \in Above(i) : h \in Nat /\ h < N
        BY <1>1 DEF Above
      <4>2. Max(Above(i)) \in Above(i)
        BY <1>1, <2>3, <4>1, MaxMember
      <4> QED BY <1>1, <4>2 DEF Above
    <3> DEFINE m == Max(Above(i))
    <3>2. m' = m
      BY <2>1
    <3> QED BY <1>1, <2>1, <3>1 DEF Under
  <2> QED BY <2>2, <2>3
<1>3. ASSUME l.headings = {}, NEW s \in Sections
      PROVE  Under(N, s)' <=> inSection[s]
  <2>1. Above(N)' = Headings
    BY <1>1, <1>3 DEF Above
  <2>2. CASE Headings = {}
    BY <2>1, <2>2 DEF Under, FlagsSoFar
  <2>3. CASE Headings # {}
    <3>1. Max(Headings) \in DOMAIN resumeLines
      BY <1>1, <2>3, MaxMember
    <3> QED BY <1>1, <2>1, <2>3, <3>1 DEF Under, FlagsSoFar
  <2> QED BY <2>2, <2>3
<1> QED BY <1>2, <1>3

LEMMA KeptStep ==
    ASSUME SeenLines, NEW l \in Lines, NEW N, ResumeLineAdded(l, N), FlagsSoFar,
           NEW s \in Sections
    PROVE  /\ Kept(s)' = Kept(s) \cup
                (IF ~l.empty /\ l.headings = {} /\ inSection[s] THEN {N} ELSE {})
           /\ IsFiniteSet(Kept(s)) /\ Kept(s) \subseteq DOMAIN resumeLines
<1>1. /\ TextLines' = TextLines \cup (IF ~l.empty /\ l.headings = {} THEN {N} ELSE {})
      /\ TextLines \subseteq DOMAIN resumeLines
  BY DEF ResumeLineAdded
<1>2. /\ \A i \in DOMAIN resumeLines : Under(i, s)' <=> Under(i, s)
      /\ l.headings = {} => (Under(N, s)' <=> inSection[s])
  BY UnderStep
<1>3. Kept(s) \subseteq DOMAIN resumeLines
  BY <1>1 DEF Kept
<1>4. IsFiniteSet(Kept(s))
  <2>1. DOMAIN resumeLines = 1..Len(resumeLines) /\ Len(resumeLines) \in Nat
    BY DEF SeenLines
  <2>2. IsFiniteSet(DOMAIN resumeLines)
    BY <2>1, FS_Interval
  <2> QED BY <1>3, <2>2, FS_Subset
<1>5. Kept(s)' = Kept(s) \cup
        (IF ~l.empty /\ l.headings = {} /\ inSection[s] THEN {N} ELSE {})
  <2>1. CASE ~l.empty /\ l.headings = {}
    BY <2>1, <1>1, <1>2 DEF Kept
  <2>2. CASE ~(~l.empty /\ l.headings = {})
    BY <2>2, <1>1, <1>2 DEF Kept
  <2> QED BY <2>1, <2>2
<1> QED BY <1>3, <1>4, <1>5

LEMMA FlagsKept ==
    ASSUME NEW l \in Lines, NEW N, ResumeLineAdded(l, N), FlagsSoFar,
           l.empty \/ l.headings = {}, inSection' = inSection
    PROVE  FlagsSoFar'
<1>1. /\ Headings' = Headings /\ Headings \subseteq DOMAIN resumeLines /\ N \in Nat
      /\ \A i \in DOMAIN resumeLines : i \in Nat /\ i < N
           /\ resumeLines'[i] = resumeLines[i]
  BY DEF ResumeLineAdded
<1>2. Headings # {} => Max(Headings) \in DOMAIN resumeLines
  BY <1>1, MaxMember
<1> QED BY <1>1, <1>2 DEF FlagsSoFar

\* A line that is no text: the lists and the skills stay.
LEMMA ListsKept ==
    ASSUME SeenLines, NEW l \in Lines, NEW N, ResumeLineAdded(l, N), FlagsSoFar,
           l.empty \/ l.headings # {}, ListsSoFar, SkillsSoFar,
           resume' = resume, detectedSkills' = detectedSkills
    PROVE  ListsSoFar' /\ SkillsSoFar'
<1>1. \A i \in DOMAIN resumeLines : resumeLines'[i] = resumeLines[i]
  BY DEF ResumeLineAdded
<1>2. ASSUME NEW s \in Sections PROVE ListOf(resume[s], Kept(s)', resumeLines')
  <2>1. Kept(s)' = Kept(s) /\ Kept(s) \subseteq DOMAIN resumeLines
    BY KeptStep
  <2>2. ListOf(resume[s], Kept(s), resumeLines)
    BY DEF ListsSoFar
  <2>3. ListOf(resume[s], Kept(s), resumeLines')
    BY <1>1, <2>1, <2>2, ListKept
  <2> QED BY <2>1, <2>3
<1>3. ListsSoFar'
  BY <1>2 DEF ListsSoFar, ListOf
<1>4. TextLines' = TextLines /\ TextLines \subseteq DOMAIN resumeLines
  BY DEF ResumeLineAdded
<1>5. {resumeLines'[i].skills : i \in TextLines'}
      = {resumeLines[i].skills : i \in TextLines}
  BY <1>1, <1>4
<1>6. SkillsSoFar'
  BY <1>5 DEF SkillsSoFar
<1> QED BY <1>3, <1>6

\* A line of text goes to the list of the section it stands in.
LEMMA ListsStep ==
    ASSUME SeenLines, NEW l \in Lines, NEW N, ResumeLineAdded(l, N), FlagsSoFar,
           ~l.empty, l.headings = {}, ListsSoFar, SkillsSoFar,
           resume' = [s \in Sections |->
                        IF inSection[s] THEN Append(resume[s], l) ELSE resume[s]],
           detectedSkills' = SkillsWith(l)
    PROVE  ListsSoFar' /\ SkillsSoFar'
<1>1. /\ \A i \in DOMAIN resumeLines : i \in Nat /\ i < N
           /\ resumeLines'[i] = resumeLines[i]
      /\ N \in Nat /\ resumeLines'[N] = l
  BY DEF ResumeLineAdded
<1>2. ASSUME NEW s \in Sections PROVE ListOf(resume'[s], Kept(s)', resumeLines')
  <2>1. /\ Kept(s)' = Kept(s) \cup (IF inSection[s] THEN {N} ELSE {})
        /\ IsFiniteSet(Kept(s)) /\ Kept(s) \subseteq DOMAIN resumeLines
    BY KeptStep
  <2>2. ListOf(resume[s], Kept(s), resumeLines)
    BY DEF ListsSoFar
  <2>3. CASE inSection[s]
    <3>1. ListOf(Append(resume[s], resumeLines'[N]), Kept(s) \cup {N}, resumeLines')
      BY <1>1, <2>1, <2>2, ListExtended
    <3> QED BY <1>1, <2>1, <2>3, <3>1
  <2>4. CASE ~inSection[s]
    <3>1. ListOf(resume[s], Kept(s), resumeLines')
      BY <1>1, <2>1, <2>2, ListKept
    <3> QED BY <2>1, <2>4, <3>1
  <2> QED BY <2>3, <2>4
<1>3. ListsSoFar'
  BY <1>2 DEF ListsSoFar, ListOf
<1>4. TextLines' = TextLines \cup {N} /\ TextLines \subseteq DOMAIN resumeLines
  BY DEF ResumeLineAdded
<1>5. {resumeLines'[i].skills : i \in TextLines'}
      = {resumeLines[i].skills : i \in TextLines} \cup {l.skills}
  BY <1>1, <1>4
<1>6. SkillsSoFar'
  <2>1. UNION {resumeLines'[i].skills : i \in TextLines'}
        = (UNION {resumeLines[i].skills : i \in TextLines}) \cup l.skills
    BY <1>5
  <2> QED BY <2>1 DEF SkillsSoFar, SkillsWith
<1> QED BY <1>3, <1>6

----------------------------------------------------------------------------
(* The steps.                                                                *)

\* The types after a line, and the candidate, which is not made yet.
LEMMA TypesStep ==
    ASSUME ParserInv, NEW l \in Lines, ReadResume(l), parsing' = parsing,
           candidate' = candidate, ListsSoFar',
           UNCHANGED <<name, email, phone>> \/ DetectContact(l),
           \A s \in Sections : inSection'[s] \in BOOLEAN
    PROVE  ParserTypeOK' /\ ReturnedLocals'
<1>1. ParserTypeOK /\ SeenLines /\ parsing = "reading"
  BY DEF ParserInv, LinesInv, ReadResume
<1>2. lineNumber' = Len(resumeLines')
  <2>1. lineNumber = Len(resumeLines)
    BY <1>1 DEF ParserTypeOK
  <2>2. resumeLines \in Seq(Lines) /\ resumeLines' = Append(resumeLines, l)
        /\ lineNumber' = lineNumber + 1
    BY <1>1 DEF SeenLines, ReadResume
  <2>3. Len(resumeLines') = Len(resumeLines) + 1
    BY <2>2
  <2> QED BY <2>1, <2>2, <2>3
<1>3. l.name \in FoundNames /\ l.email \in FoundEmails
  BY DEF FoundNames, FoundEmails
<1>4. /\ name' \in {""} \cup FoundNames
      /\ email' \in {""} \cup FoundEmails
      /\ phone' \in Lines \cup {NoLine}
  <2>1. CASE UNCHANGED <<name, email, phone>>
    BY <1>1, <2>1 DEF ParserTypeOK, FoundNames, FoundEmails
  <2>2. CASE DetectContact(l)
    BY <1>1, <1>3, <2>2 DEF ParserTypeOK, DetectContact, FoundNames, FoundEmails
  <2> QED BY <2>1, <2>2
<1>5. \A s \in Sections : resume'[s] \in Seq(Lines)
  BY DEF ListsSoFar, ListOf
<1>6. /\ parsing' = "reading"
      /\ candidate'.name \in {"", "Name Not Detected"} \cup FoundNames
  BY <1>1 DEF ParserTypeOK
<1>7. ParserTypeOK'
  BY <1>2, <1>4, <1>5, <1>6 DEF ParserTypeOK
<1> QED BY <1>6, <1>7 DEF ReturnedLocals, Parsed

LEMMA ReadEmptyStep ==
    ASSUME ParserInv, NEW l \in Lines, ReadEmpty(l)
    PROVE  ParserInv'
<1>1. /\ ParserTypeOK /\ SeenLines /\ NameSoFar /\ EmailSoFar /\ PhoneSoFar
      /\ FlagsSoFar /\ ListsSoFar /\ SkillsSoFar
  BY DEF ParserInv, LinesInv
<1>2. /\ ReadResume(l) /\ l.empty /\ UNCHANGED <<name, email, phone>>
      /\ inSection' = inSection
      /\ resume' = resume /\ detectedSkills' = detectedSkills
      /\ parsing' = parsing /\ candidate' = candidate
  BY DEF ReadEmpty
<1>3. PICK N : N = Len(resumeLines) + 1
  OBVIOUS
<1>4. ResumeLineAdded(l, N)
  BY <1>1, <1>2, <1>3, OneResumeLine
<1>5. SeenLines' /\ NameSoFar' /\ EmailSoFar' /\ PhoneSoFar'
  BY <1>1, <1>2, <1>4, ContactKept DEF SeenLines, ResumeLineAdded
<1>6. FlagsSoFar'
  BY <1>1, <1>2, <1>4, FlagsKept
<1>7. ListsSoFar' /\ SkillsSoFar'
  BY <1>1, <1>2, <1>4, ListsKept
<1>8. \A s \in Sections : inSection'[s] \in BOOLEAN
  BY <1>1, <1>2 DEF ParserTypeOK
<1>9. ParserTypeOK' /\ ReturnedLocals'
  BY <1>2, <1>7, <1>8, TypesStep
<1> QED BY <1>5, <1>6, <1>7, <1>9 DEF ParserInv, LinesInv

LEMMA ReadHeadingStep ==
    ASSUME ParserInv, NEW l \in Lines, ReadHeading(l)
    PROVE  ParserInv'
<1>1. /\ ParserTypeOK /\ SeenLines /\ NameSoFar /\ EmailSoFar /\ PhoneSoFar
      /\ FlagsSoFar /\ ListsSoFar /\ SkillsSoFar
  BY DEF ParserInv, LinesInv
<1>2. /\ ReadResume(l) /\ ~l.empty /\ l.headings # {} /\ DetectContact(l)
      /\ inSection' = [s \in Sections |-> s = FirstHeading(l)]
      /\ resume' = resume /\ detectedSkills' = detectedSkills
      /\ parsing' = parsing /\ candidate' = candidate
  BY DEF ReadHeading, SectionsAfter
<1>3. PICK N : N = Len(resumeLines) + 1
  OBVIOUS
<1>4. ResumeLineAdded(l, N)
  BY <1>1, <1>2, <1>3, OneResumeLine
<1>5. SeenLines' /\ NameSoFar' /\ EmailSoFar' /\ PhoneSoFar'
  BY <1>1, <1>2, <1>4, ContactStep DEF SeenLines, ResumeLineAdded
<1>6. FlagsSoFar'
  <2>1. /\ Headings' = Headings \cup {N} /\ Headings \subseteq DOMAIN resumeLines
        /\ \A i \in DOMAIN resumeLines : i \in Nat /\ i < N
        /\ N \in Nat /\ resumeLines'[N] = l
    BY <1>2, <1>4 DEF ResumeLineAdded
  <2>2. \A i \in Headings' : i \in Nat /\ i <= N
    BY <2>1
  <2>3. Max(Headings') = N
    BY <2>1, <2>2, MaxIs
  <2>4. Headings' # {} /\ FirstHeading(resumeLines'[Max(Headings')]) = FirstHeading(l)
    BY <2>1, <2>3
  <2> QED BY <1>2, <2>4 DEF FlagsSoFar
<1>7. ListsSoFar' /\ SkillsSoFar'
  BY <1>1, <1>2, <1>4, ListsKept
<1>8. \A s \in Sections : inSection'[s] \in BOOLEAN
  BY <1>2
<1>9. ParserTypeOK' /\ ReturnedLocals'
  BY <1>2, <1>7, <1>8, TypesStep
<1> QED BY <1>5, <1>6, <1>7, <1>9 DEF ParserInv, LinesInv

LEMMA ReadTextStep ==
    ASSUME ParserInv, NEW l \in Lines, ReadText(l)
    PROVE  ParserInv'
<1>1. /\ ParserTypeOK /\ SeenLines /\ NameSoFar /\ EmailSoFar /\ PhoneSoFar
      /\ FlagsSoFar /\ ListsSoFar /\ SkillsSoFar
  BY DEF ParserInv, LinesInv
<1>2. /\ ReadResume(l) /\ ~l.empty /\ l.headings = {} /\ DetectContact(l)
      /\ inSection' = inSection
      /\ resume' = [s \in Sections |->
                        IF inSection[s] THEN Append(resume[s], l) ELSE resume[s]]
      /\ detectedSkills' = SkillsWith(l)
      /\ parsing' = parsing /\ candidate' = candidate
  BY DEF ReadText
<1>3. PICK N : N = Len(resumeLines) + 1
  OBVIOUS
<1>4. ResumeLineAdded(l, N)
  BY <1>1, <1>2, <1>3, OneResumeLine
<1>5. SeenLines' /\ NameSoFar' /\ EmailSoFar' /\ PhoneSoFar'
  BY <1>1, <1>2, <1>4, ContactStep DEF SeenLines, ResumeLineAdded
<1>6. FlagsSoFar'
  BY <1>1, <1>2, <1>4, FlagsKept
<1>7. ListsSoFar' /\ SkillsSoFar'
  BY <1>1, <1>2, <1>4, ListsStep
<1>8. \A s \in Sections : inSection'[s] \in BOOLEAN
  BY <1>1, <1>2 DEF ParserTypeOK
<1>9. ParserTypeOK' /\ ReturnedLocals'
  BY <1>2, <1>7, <1>8, TypesStep
<1> QED BY <1>5, <1>6, <1>7, <1>9 DEF ParserInv, LinesInv

LEMMA LocalsKept ==
    ASSUME LinesInv, UNCHANGED <<locals, resumeLines>>
    PROVE  LinesInv'
<1>1. /\ resumeLines' = resumeLines /\ inSection' = inSection /\ resume' = resume
      /\ name' = name /\ email' = email /\ phone' = phone
      /\ detectedSkills' = detectedSkills
  BY DEF locals
<1>2. Searched' = Searched /\ Headings' = Headings /\ TextLines' = TextLines
  BY <1>1 DEF Searched, Headings, TextLines
<1>3. Named' = Named /\ Mailed' = Mailed /\ Phoned' = Phoned
  BY <1>1, <1>2 DEF Named, Mailed, Phoned
<1>4. SeenLines' /\ NameSoFar' /\ EmailSoFar' /\ PhoneSoFar'
  BY <1>1, <1>3 DEF LinesInv, SeenLines, NameSoFar, EmailSoFar, PhoneSoFar, Earliest,
     Latest
<1>5. FlagsSoFar' /\ SkillsSoFar'
  BY <1>1, <1>2 DEF LinesInv, FlagsSoFar, SkillsSoFar
<1>6. ListsSoFar'
  <2>1. \A i : Above(i)' = Above(i)
    BY <1>2 DEF Above
  <2>2. \A i, s : Under(i, s)' <=> Under(i, s)
    BY <1>1, <2>1 DEF Under
  <2>3. \A s : Kept(s)' = Kept(s)
    BY <1>2, <2>2 DEF Kept
  <2> QED BY <1>1, <2>3 DEF LinesInv, ListsSoFar, ListOf
<1> QED BY <1>4, <1>5, <1>6 DEF LinesInv

\* The end of the file makes the candidate of the locals.
LEMMA ResumeEnds ==
    ASSUME ParserInv, EndOfResume \/ FailOpenResume \/ UNCHANGED parser
    PROVE  ParserInv'
<1>1. ParserTypeOK /\ LinesInv /\ ReturnedLocals
  BY DEF ParserInv
<1>2. UNCHANGED <<locals, resumeLines>>
  BY DEF EndOfResume, FailOpenResume, parser
<1>3. LinesInv'
  BY <1>1, <1>2, LocalsKept
<1>4. ReturnedLocals'
  <2>1. CASE EndOfResume
    BY <2>1 DEF EndOfResume, ReturnedLocals, locals
  <2>2. CASE FailOpenResume
    BY <2>2 DEF FailOpenResume, ReturnedLocals, Parsed
  <2>3. CASE UNCHANGED parser
    BY <1>1, <2>3 DEF parser, locals, ReturnedLocals, Parsed
  <2> QED BY <2>1, <2>2, <2>3
<1>5. ParserTypeOK'
  <2> DEFINE Names == {"", "Name Not Detected"} \cup FoundNames
  <2>1. candidate'.name \in Names /\ parsing' \in {"reading", "returned"}
    <3>a. name \in Names
      BY <1>1 DEF ParserTypeOK
    <3>1. CASE EndOfResume
      <4>1. /\ candidate'.name = IF name = "" THEN "Name Not Detected" ELSE name
            /\ parsing' = "returned"
        BY <3>1 DEF EndOfResume
      <4> QED BY <3>a, <4>1
    <3>2. CASE FailOpenResume
      <4>1. candidate'.name = "" /\ parsing' = "returned"
        BY <3>2 DEF FailOpenResume, EmptyCandidate
      <4> QED BY <3>a, <4>1
    <3>3. CASE UNCHANGED parser
      BY <1>1, <3>3 DEF parser, ParserTypeOK
    <3> QED BY <3>1, <3>2, <3>3
  <2> QED BY <1>1, <1>2, <2>1 DEF ParserTypeOK, locals
<1> QED BY <1>3, <1>4, <1>5 DEF ParserInv

LEMMA InitParserInv == ParserInit => ParserInv
<1> SUFFICES ASSUME ParserInit PROVE ParserInv
  OBVIOUS
<1>1. /\ parsing = "reading" /\ lineNumber = 0 /\ resumeLines = <<>>
      /\ name = "" /\ email = "" /\ phone = NoLine /\ detectedSkills = {}
      /\ inSection = [s \in Sections |-> FALSE] /\ resume = [s \in Sections |-> <<>>]
      /\ candidate = EmptyCandidate
  BY DEF ParserInit, EmptyResume
<1>2. DOMAIN resumeLines = {} /\ <<>> \in Seq(Lines) /\ Len(resumeLines) = 0
  <2>1. DOMAIN <<>> = {} /\ <<>> \in Seq(Lines) /\ Len(<<>>) = 0
    OBVIOUS
  <2> QED BY <1>1, <2>1
<1>3. Searched = {} /\ Headings = {} /\ TextLines = {}
  BY <1>2 DEF Searched, Headings, TextLines
<1>4. NameSoFar /\ EmailSoFar /\ PhoneSoFar /\ SeenLines
  BY <1>1, <1>2, <1>3 DEF NameSoFar, EmailSoFar, PhoneSoFar, SeenLines, Named, Mailed,
     Phoned
<1>5. FlagsSoFar
  BY <1>1, <1>3 DEF FlagsSoFar
<1>6. ListsSoFar
  <2>1. \A s \in Sections : Kept(s) = {}
    BY <1>3 DEF Kept
  <2>2. ListOf(<<>>, {}, resumeLines)
    BY FS_EmptySet DEF ListOf
  <2> QED BY <1>1, <2>1, <2>2 DEF ListsSoFar
<1>7. SkillsSoFar
  BY <1>1, <1>3 DEF SkillsSoFar
<1>8. ParserTypeOK
  <2>1. candidate.name = ""
    BY <1>1 DEF EmptyCandidate
  <2>3. \A s \in Sections : inSection[s] \in BOOLEAN /\ resume[s] \in Seq(Lines)
    BY <1>1, <1>2
  <2>4. parsing \in {"reading", "returned"} /\ lineNumber = Len(resumeLines)
        /\ phone \in Lines \cup {NoLine}
    BY <1>1, <1>2
  <2> QED BY <1>1, <2>1, <2>3, <2>4 DEF ParserTypeOK
<1>9. ReturnedLocals
  BY <1>1 DEF ReturnedLocals, Parsed
<1> QED BY <1>4, <1>5, <1>6, <1>7, <1>8, <1>9 DEF ParserInv, LinesInv

LEMMA ParserStep == ParserInv /\ [ParserNext]_parser => ParserInv'
<1> SUFFICES ASSUME ParserInv, [ParserNext]_parser PROVE ParserInv'
  OBVIOUS
<1>1. CASE \E l \in Lines : ReadEmpty(l) \/ ReadHeading(l) \/ ReadText(l)
  BY <1>1, ReadEmptyStep, ReadHeadingStep, ReadTextStep
<1>2. CASE EndOfResume \/ FailOpenResume \/ UNCHANGED parser
  BY <1>2, ResumeEnds
<1> QED BY <1>1, <1>2 DEF ParserNext

LEMMA ParserInvariant == ParserSpec => []ParserInv
<1>1. ParserInv /\ [ParserNext]_parser => ParserInv'
  BY ParserStep
<1> QED BY <1>1, InitParserInv, PTL DEF ParserSpec

----------------------------------------------------------------------------
(* The candidate.                                                            *)

LEMMA OfLocals ==
    ASSUME ParserInv, Parsed
    PROVE  /\ candidate.name = IF name = "" THEN "Name Not Detected" ELSE name
           /\ candidate.email = email /\ candidate.phone = phone
           /\ candidate.skills = detectedSkills /\ candidate.resume = resume
<1>1. candidate = [name |-> IF name = "" THEN "Name Not Detected" ELSE name,
                   email |-> email, phone |-> phone,
                   skills |-> detectedSkills, resume |-> resume]
  BY DEF ParserInv, ReturnedLocals
<1> QED BY <1>1

LEMMA LineNumbers ==
    ASSUME ParserInv
    PROVE  IsFiniteSet(DOMAIN resumeLines) /\ \A i \in DOMAIN resumeLines : i \in Nat
<1>1. resumeLines \in Seq(Lines)
  BY DEF ParserInv, LinesInv, SeenLines
<1>2. DOMAIN resumeLines = 1..Len(resumeLines) /\ Len(resumeLines) \in Nat
  BY <1>1
<1> QED BY <1>2, FS_Interval

LEMMA NameOfInv == ParserInv => NameFromHead
<1> SUFFICES ASSUME ParserInv, Parsed
             PROVE  candidate.name = IF Named = {} THEN "Name Not Detected"
                                     ELSE resumeLines[Min(Named)].name
  BY DEF NameFromHead, Named
<1>1. candidate.name = IF name = "" THEN "Name Not Detected" ELSE name
  BY OfLocals
<1>2. CASE Named = {} /\ name = ""
  BY <1>1, <1>2
<1>3. ASSUME NEW i \in DOMAIN resumeLines, Earliest(Named, i), name = resumeLines[i].name
      PROVE  candidate.name = IF Named = {} THEN "Name Not Detected"
                              ELSE resumeLines[Min(Named)].name
  <2>1. \A j \in Named : j \in Nat
    BY LineNumbers DEF Named, Searched
  <2>2. i \in Named /\ Min(Named) = i
    BY <1>3, <2>1, MinIs DEF Earliest
  <2>3. name # ""
    BY <1>3, <2>2 DEF Named
  <2> QED BY <1>1, <1>3, <2>2, <2>3
<1> QED BY <1>2, <1>3 DEF ParserInv, LinesInv, NameSoFar

LEMMA ContactOfInv == ParserInv => ContactFromLastLine
<1> SUFFICES ASSUME ParserInv, Parsed
             PROVE  /\ candidate.email = IF Mailed
                         = {} THEN "" ELSE resumeLines[Max(Mailed)].email
                    /\ candidate.phone = IF Phoned
                         = {} THEN NoLine ELSE resumeLines[Max(Phoned)]
  BY DEF ContactFromLastLine, Mailed, Phoned
<1>1. candidate.email = email /\ candidate.phone = phone
  BY OfLocals
<1>2. \A i \in Mailed \cup Phoned : i \in Nat
  BY LineNumbers DEF Mailed, Phoned, Searched
<1>3. email = IF Mailed = {} THEN "" ELSE resumeLines[Max(Mailed)].email
  <2>1. ASSUME NEW i \in DOMAIN resumeLines, Latest(Mailed, i),
               email = resumeLines[i].email
        PROVE  email = IF Mailed = {} THEN "" ELSE resumeLines[Max(Mailed)].email
    <3>1. i \in Mailed /\ Max(Mailed) = i
      BY <1>2, <2>1, MaxIs DEF Latest
    <3> QED BY <2>1, <3>1
  <2> QED BY <2>1 DEF ParserInv, LinesInv, EmailSoFar
<1>4. phone = IF Phoned = {} THEN NoLine ELSE resumeLines[Max(Phoned)]
  <2>1. ASSUME NEW i \in DOMAIN resumeLines, Latest(Phoned, i), phone = resumeLines[i]
        PROVE  phone = IF Phoned = {} THEN NoLine ELSE resumeLines[Max(Phoned)]
    <3>1. i \in Phoned /\ Max(Phoned) = i
      BY <1>2, <2>1, MaxIs DEF Latest
    <3> QED BY <2>1, <3>1
  <2> QED BY <2>1 DEF ParserInv, LinesInv, PhoneSoFar
<1> QED BY <1>1, <1>3, <1>4

LEMMA SectionsOfInv == ParserInv => SectionMeaning
<1> SUFFICES ASSUME ParserInv, Parsed, NEW s \in Sections
             PROVE  candidate.resume[s] =
                        [n \in 1..Cardinality(Kept(s)) |->
                            resumeLines[CHOOSE i \in Kept(s) :
                                Cardinality({j \in Kept(s) : j <= i}) = n]]
  BY DEF SectionMeaning, Kept, Under, Above
<1>1. candidate.resume = resume
  BY OfLocals
<1>2. ListOf(resume[s], Kept(s), resumeLines)
  BY DEF ParserInv, LinesInv, ListsSoFar
<1>3. IsFiniteSet(Kept(s))
  <2>1. Kept(s) \subseteq DOMAIN resumeLines
    BY DEF Kept, TextLines, Searched
  <2> QED BY <2>1, LineNumbers, FS_Subset
<1>4. resume[s] = Listed(Kept(s), resumeLines)
  BY <1>2, <1>3, ListIs
<1>5. Listed(Kept(s), resumeLines) =
          [n \in 1..Cardinality(Kept(s)) |->
              resumeLines[CHOOSE i \in Kept(s) :
                  Cardinality({j \in Kept(s) : j <= i}) = n]]
  BY DEF Listed
<1> QED BY <1>1, <1>4, <1>5, Zenon

\* The parser's locals keep their types: the numbers, texts, flags and lists of
\* lines that parseUnstructuredResume declares.
THEOREM ParserTypes == ParserSpec => []ParserTypeOK
<1>1. ParserInv => ParserTypeOK
  BY DEF ParserInv
<1> QED BY <1>1, ParserInvariant, PTL

\* For a resume of any lines in any order, the candidate that the parser returns
\* is what the text says: the first name on the first two lines, the last e-mail
\* and phone, the skills of every line but the headings, and each line of text
\* in the section of the nearest heading above it, once and in order.
THEOREM ParserMeaning == ParserSpec => []CandidateMeaning
<1>1. ParserInv => SkillsMeaning
  BY OfLocals DEF ParserInv, LinesInv, SkillsSoFar, SkillsMeaning
<1>2. ParserInv => CandidateMeaning
  BY <1>1, NameOfInv, ContactOfInv, SectionsOfInv DEF CandidateMeaning
<1> QED BY <1>2, ParserInvariant, PTL

----------------------------------------------------------------------------
(* NameExtractor: what is left of a line.                                    *)

\* Places are numbers, and pieces stand there.
LEMMA PlacesIn ==
    ASSUME NEW s \in Seq(Pieces), NEW left, left \subseteq DOMAIN s
    PROVE  /\ left \subseteq 1..Len(s) /\ left \subseteq Nat /\ left \subseteq Int
           /\ \A i \in left : s[i] \in Pieces
<1>1. DOMAIN s = 1..Len(s) /\ Len(s) \in Nat /\ \A i \in DOMAIN s : s[i] \in Pieces
  OBVIOUS
<1>2. 1..Len(s) \subseteq Nat /\ Nat \subseteq Int
  BY <1>1
<1> QED BY <1>1, <1>2

LEMMA DigitsAway ==
    ASSUME NEW s \in Seq(Pieces)
    PROVE  WithoutDigits(s) \subseteq DOMAIN s /\ \A i \in WithoutDigits(s) : s[i] # "+-()09"
BY DEF WithoutDigits

LEMMA BeforeIs ==
    ASSUME NEW s \in Seq(Pieces), NEW left, left \subseteq DOMAIN s, NEW p
    PROVE  /\ Before(p, s, left) \subseteq left
           /\ \A i \in Before(p, s, left), j \in left :
                (s[j] = p => i < j) /\ (j <= i => j \in Before(p, s, left))
           /\ (\A j \in left : s[j] # p) => Before(p, s, left) = left
<1>1. left \subseteq Nat
  OBVIOUS
<1> QED BY <1>1 DEF Before

\* Nothing is left behind an '@' or a "linkedin", or behind a "github" without a
\* "linkedin"; up to there only digits and brackets are gone.
LEMMA CutIs ==
    ASSUME NEW s \in Seq(Pieces)
    PROVE  /\ Cut(s) \subseteq WithoutDigits(s)
           /\ \A i \in Cut(s) : \A j \in 1..i :
                /\ s[j] \notin {"@", "linkedin"}
                /\ s[j] = "github" =>
                      \E k \in DOMAIN s : s[k] = "linkedin" /\ \A m \in 1..k : s[m] # "@"
                /\ j \in Cut(s) \/ s[j] = "+-()09"
           /\ (\A i \in DOMAIN s : s[i] \notin {"@", "linkedin", "github"}) =>
                Cut(s) = WithoutDigits(s)
<1> DEFINE left == WithoutDigits(s)
           head == Before("@", s, left)
<1>1. left \subseteq DOMAIN s /\ \A i \in DOMAIN s : i \in left <=> s[i] # "+-()09"
  BY DEF WithoutDigits
<1>2. /\ head \subseteq left
      /\ \A i \in head, j \in left : (s[j] = "@" => i < j) /\ (j <= i => j \in head)
      /\ (\A j \in left : s[j] # "@") => head = left
  BY <1>1, BeforeIs
<1> HIDE DEF left, head
<1>3. DOMAIN s \subseteq Nat /\ \A i \in DOMAIN s : 1..i \subseteq DOMAIN s
  OBVIOUS
<1>4. \A i \in head : \A j \in 1..i : s[j] # "@" /\ (j \in head \/ s[j] = "+-()09")
  <2> SUFFICES ASSUME NEW i \in head, NEW j \in 1..i
      PROVE s[j] # "@" /\ (j \in head \/ s[j] = "+-()09")
    OBVIOUS
  <2>1. i \in Nat /\ j \in DOMAIN s /\ j \in Nat /\ j <= i
    BY <1>1, <1>2, <1>3
  <2>2. CASE s[j] = "+-()09"
    BY <2>2
  <2>3. CASE s[j] # "+-()09"
    <3>1. j \in left
      BY <1>1, <2>1, <2>3
    <3> QED BY <1>2, <2>1, <3>1
  <2> QED BY <2>2, <2>3
<1>5. head \subseteq DOMAIN s
  BY <1>1, <1>2
<1>6. ASSUME NEW p, NEW i \in Before(p, s, head), NEW j \in 1..i, p # "+-()09"
      PROVE  /\ s[j] # "@" /\ s[j] # p
             /\ j \in Before(p, s, head) \/ s[j] = "+-()09"
  <2>1. i \in head /\ i \in Nat /\ j \in Nat /\ j <= i
    BY <1>3, <1>5, BeforeIs
  <2>2. s[j] # "@" /\ (j \in head \/ s[j] = "+-()09")
    BY <1>4, <2>1
  <2>3. CASE j \in head
    BY <1>5, <1>6, <2>1, <2>2, <2>3, BeforeIs
  <2> QED BY <1>6, <2>2, <2>3
<1>7. CASE \E k \in head : s[k] = "linkedin"
  <2>1. Cut(s) = Before("linkedin", s, head)
    BY <1>7 DEF Cut, CutAtKeyword, head, left
  <2>2. PICK k \in head : s[k] = "linkedin"
    BY <1>7
  <2>3. k \in DOMAIN s /\ \A m \in 1..k : s[m] # "@"
    BY <1>4, <1>5, <2>2
  <2>4. Cut(s) \subseteq head
    BY <1>5, <2>1, BeforeIs
  <2>5. \A i \in Cut(s) : \A j \in 1..i :
          s[j] # "@" /\ s[j] # "linkedin" /\ (j \in Cut(s) \/ s[j] = "+-()09")
    BY <1>6, <2>1
  <2> QED BY <1>2, <2>2, <2>3, <2>4, <2>5 DEF left
<1>8. CASE ~\E k \in head : s[k] = "linkedin"
  <2>1. Cut(s) = Before("github", s, head)
    BY <1>8 DEF Cut, CutAtKeyword, head, left
  <2>2. Cut(s) \subseteq head
    BY <1>5, <2>1, BeforeIs
  <2>3. \A i \in Cut(s) : \A j \in 1..i :
          s[j] # "@" /\ s[j] # "github" /\ (j \in Cut(s) \/ s[j] = "+-()09")
    BY <1>6, <2>1
  <2>4. \A i \in Cut(s) : \A j \in 1..i : s[j] # "linkedin"
    BY <1>8, <2>2, <2>3
  <2>5. ASSUME \A i \in DOMAIN s : s[i] \notin {"@", "linkedin", "github"}
        PROVE  Cut(s) = left
    <3>1. head = left
      BY <1>1, <1>2, <2>5
    <3> QED BY <1>5, <2>1, <2>5, <3>1, BeforeIs
  <2> QED BY <1>2, <2>2, <2>3, <2>4, <2>5 DEF left
<1> QED BY <1>7, <1>8

----------------------------------------------------------------------------
(* NameExtractor: words.                                                     *)

\* No white space is left between i and j.
Joined(s, left, i, j) == \A k \in left \cap Between(i, j) : s[k] # " "

LEMMA JoinedSteps ==
    ASSUME NEW s, NEW left, left \subseteq Int,
           NEW i \in left, NEW j \in left, NEW k \in left
    PROVE  /\ Joined(s, left, i, j) => Joined(s, left, j, i)
           /\ Joined(s, left, i, j) /\ Joined(s, left, j, k) => Joined(s, left, i, k)
           /\ s[i] # " " => Joined(s, left, i, i)
<1>1. i \in Int /\ j \in Int /\ k \in Int
  OBVIOUS
<1>2. Between(i, j) = Between(j, i)
  BY DEF Between
<1>3. Between(i, k) \subseteq Between(i, j) \cup Between(j, k)
  BY <1>1 DEF Between
<1>4. Between(i, i) = {i}
  BY <1>1 DEF Between
<1> QED BY <1>2, <1>3, <1>4 DEF Joined

\* A word is the word of each of its places.
LEMMA WordIs ==
    ASSUME NEW s, NEW left, left \subseteq Int, NEW v \in Words(s, left)
    PROVE  /\ v \subseteq left /\ v # {} /\ Alphabetic(s, v)
           /\ \A i \in v, j \in left : j \in v <=> Joined(s, left, i, j)
<1>1. PICK h \in left : v = Word(s, left, h) /\ s[h] # " " /\ Alphabetic(s, v)
  BY DEF Words
<1>2. \A j \in left : j \in v <=> Joined(s, left, h, j)
  BY <1>1 DEF Word, Joined
<1>3. v \subseteq left
  BY <1>1 DEF Word
<1>4. h \in v
  BY <1>1, <1>2, JoinedSteps
<1>5. \A i \in v, j \in left : j \in v <=> Joined(s, left, i, j)
  BY <1>2, <1>3, JoinedSteps
<1> QED BY <1>1, <1>3, <1>4, <1>5

LEMMA WordOf ==
    ASSUME NEW s, NEW left, left \subseteq Int, NEW i \in left, s[i] # " ",
           Alphabetic(s, Word(s, left, i))
    PROVE  Word(s, left, i) \in Words(s, left) /\ i \in Word(s, left, i)
<1>1. i \in Word(s, left, i)
  BY JoinedSteps DEF Word, Joined
<1> QED BY <1>1 DEF Words

LEMMA SameWord ==
    ASSUME NEW s, NEW left, left \subseteq Int,
           NEW v \in Words(s, left), NEW w \in Words(s, left), NEW i \in v, NEW j \in w
    PROVE  v = w <=> Joined(s, left, i, j)
<1>1. i \in left /\ j \in left /\ v \subseteq left /\ w \subseteq left
  BY WordIs
<1>2. v = w => Joined(s, left, i, j)
  BY <1>1, WordIs
<1>3. ASSUME Joined(s, left, i, j) PROVE v = w
  <2>1. ASSUME NEW k \in left PROVE k \in v <=> k \in w
    <3>1. k \in v <=> Joined(s, left, i, k)
      BY <1>1, WordIs
    <3>2. k \in w <=> Joined(s, left, j, k)
      BY <1>1, WordIs
    <3> QED BY <1>1, <1>3, <3>1, <3>2, JoinedSteps
  <2> QED BY <1>1, <2>1
<1> QED BY <1>2, <1>3

\* Of two words one is ahead of the other, and white space is between them.
LEMMA WordsInOrder ==
    ASSUME NEW s, NEW left, left \subseteq Int,
           NEW v \in Words(s, left), NEW w \in Words(s, left), v # w
    PROVE  \E k \in left :
             /\ s[k] = " "
             /\ \/ (\A i \in v : i < k) /\ (\A j \in w : k < j)
                \/ (\A j \in w : j < k) /\ (\A i \in v : k < i)
<1>1. PICK i \in v, j \in w : TRUE
  BY WordIs
<1>2. PICK k \in left : k \in Between(i, j) /\ s[k] = " "
  <2>1. ~Joined(s, left, i, j)
    BY SameWord
  <2> QED BY <2>1 DEF Joined
<1>3. ASSUME NEW x \in Words(s, left), NEW m \in x, NEW n \in x
      PROVE  (m < k /\ n < k) \/ (k < m /\ k < n)
  <2>1. m \in left /\ n \in left /\ Joined(s, left, m, n)
    BY WordIs
  <2>2. k \notin Between(m, n) /\ m \in Int /\ n \in Int /\ k \in Int
    BY <1>2, <2>1 DEF Joined
  <2> QED BY <2>2 DEF Between
<1>4. i \in Int /\ j \in Int /\ k \in Int
  BY <1>2, WordIs
<1>5. (i < k /\ k < j) \/ (j < k /\ k < i)
  <2>0. k \in Between(i, j)
    BY <1>2
  <2>1. (i <= k /\ k <= j) \/ (j <= k /\ k <= i)
    BY ONLY <2>0, <1>4 DEF Between
  <2>2. (i < k \/ k < i) /\ (j < k \/ k < j)
    BY <1>3
  <2> QED BY <1>4, <2>1, <2>2
<1>6. CASE i < k /\ k < j
  <2>1. \A m \in v : m < k
    BY <1>3, <1>4, <1>6
  <2>2. \A n \in w : k < n
    BY <1>3, <1>4, <1>6
  <2> QED BY <1>2, <2>1, <2>2
<1>7. CASE j < k /\ k < i
  <2>1. \A m \in v : k < m
    BY <1>3, <1>4, <1>7
  <2>2. \A n \in w : n < k
    BY <1>3, <1>4, <1>7
  <2> QED BY <1>2, <2>1, <2>2
<1> QED BY <1>5, <1>6, <1>7

----------------------------------------------------------------------------
(* NameExtractor: at most three words.                                       *)

LEMMA FiniteWords ==
    ASSUME NEW s \in Seq(Pieces), NEW left, left \subseteq DOMAIN s
    PROVE  IsFiniteSet(Words(s, left)) /\ left \subseteq Int
<1>1. IsFiniteSet(1..Len(s)) /\ left \subseteq 1..Len(s)
  BY FS_Interval
<1>2. IsFiniteSet(left)
  BY <1>1, FS_Subset
<1>3. IsFiniteSet(SUBSET left)
  BY <1>2, FS_SUBSET
<1>4. Words(s, left) \in SUBSET (SUBSET left)
  BY <1>1, WordIs
<1> QED BY <1>1, <1>3, <1>4, FS_Subset

\* Of the words that have less than three ahead there are at most three: no two
\* of them have the same number ahead.
LEMMA ThreeWords ==
    ASSUME NEW s \in Seq(Pieces), NEW left, left \subseteq DOMAIN s
    PROVE  Cardinality(AtMostThree(Words(s, left))) <= 3
<1> DEFINE words == Words(s, left)
           front(w) == {v \in words : Ahead(v, w)}
           kept == AtMostThree(words)
           place == [w \in kept |-> Cardinality(front(w))]
<1>1. IsFiniteSet(words) /\ left \subseteq Int
  BY FiniteWords
<1>2. IsFiniteSet(kept) /\ kept \subseteq words
  BY <1>1, FS_Subset DEF AtMostThree
<1>3. \A w : IsFiniteSet(front(w)) /\ Cardinality(front(w)) \in Nat
  BY <1>1, FS_Subset, FS_CardinalityType
<1>4. place \in [kept -> 0..2]
  <2>1. \A w \in kept : Cardinality(front(w)) < 3
    BY DEF AtMostThree
  <2> HIDE DEF front, kept
  <2>2. \A w \in kept : Cardinality(front(w)) \in 0..2
    BY <1>3, <2>1
  <2> QED BY <2>2
<1>5. IsFiniteSet(0..2) /\ Cardinality(0..2) = 3
  <2>1. 0 \in Int /\ 2 \in Int /\ 2 - 0 + 1 = 3 /\ ~(0 > 2)
    OBVIOUS
  <2>2. IsFiniteSet(0..2) /\ Cardinality(0..2) = IF 0 > 2 THEN 0 ELSE 2 - 0 + 1
    BY ONLY <2>1, FS_Interval, Zenon
  <2> QED BY <2>1, <2>2
<1>6. ASSUME NEW v \in words, NEW w \in words, Ahead(v, w)
      PROVE  Cardinality(front(v)) < Cardinality(front(w))
  <2>1. v \subseteq left /\ v # {}
    BY <1>1, WordIs
  <2>2. w \subseteq left /\ w # {}
    BY <1>1, WordIs
  <2>3. v \in front(w) /\ v \notin front(v)
    BY <1>1, <1>6, <2>1 DEF Ahead
  <2>4. front(v) \subseteq front(w)
    <3> SUFFICES ASSUME NEW u \in words, Ahead(u, v) PROVE Ahead(u, w)
      OBVIOUS
    <3>1. u \subseteq left
      BY <1>1, WordIs
    <3>2. PICK k \in v : TRUE
      BY <2>1
    <3>3. \A i \in u, j \in w : i < k /\ k < j
      BY <1>6, <3>2 DEF Ahead
    <3>4. \A i \in u, j \in w : i \in Int /\ k \in Int /\ j \in Int
      BY <1>1, <2>1, <2>2, <3>1
    <3>5. \A i \in u, j \in w : i < j
      BY <3>3, <3>4
    <3> QED BY <3>5 DEF Ahead
  <2> HIDE DEF front
  <2>5. Cardinality(front(v)) <= Cardinality(front(w)) /\ Cardinality(front(v)) # Cardinality(front(w))
    BY <1>3, <2>3, <2>4, FS_Subset
  <2> QED BY <1>3, <2>5
<1>7. ASSUME NEW v \in words, NEW w \in words, v # w PROVE Ahead(v, w) \/ Ahead(w, v)
  <2>1. v \subseteq Int /\ w \subseteq Int
    BY <1>1, WordIs
  <2>2. PICK k \in left :
             \/ (\A i \in v : i < k) /\ (\A j \in w : k < j)
             \/ (\A j \in w : j < k) /\ (\A i \in v : k < i)
    BY <1>1, <1>7, WordsInOrder
  <2> QED BY <1>1, <2>1, <2>2 DEF Ahead
<1> HIDE DEF words, kept, front
<1>8. Cardinality(kept) \in Nat
  BY <1>2, FS_CardinalityType
<1>9. CASE Cardinality(kept) > 3
  <2>1. PICK v, w \in kept : v # w /\ place[v] = place[w]
    <3> DEFINE places == 0..2
    <3>1. IsFiniteSet(places) /\ Cardinality(places) < Cardinality(kept)
      BY <1>5, <1>9
    <3>2. place \in [kept -> places] /\ IsFiniteSet(kept)
      BY <1>2, <1>4
    <3> HIDE DEF place, places
    <3> QED BY <3>1, <3>2, FS_PigeonHole, Zenon
  <2>2. Cardinality(front(v)) = Cardinality(front(w))
    BY <2>1
  <2>3. Cardinality(front(v)) \in Nat
    BY <1>3
  <2> QED BY <1>2, <1>6, <1>7, <2>1, <2>2, <2>3
<1> QED BY <1>8, <1>9 DEF kept, words

\* In front of a word stand no more words than white space: each is followed by
\* white space of its own.
FrontOf(s, left, w) == {v \in Words(s, left) : Ahead(v, w)}
SpacesOf(s, left) == {i \in left : s[i] = " "}

LEMMA FrontOfWord ==
    ASSUME NEW s \in Seq(Pieces), NEW left, left \subseteq DOMAIN s,
           NEW w \in Words(s, left)
    PROVE  Cardinality(FrontOf(s, left, w)) <= Cardinality(SpacesOf(s, left))
<1> USE DEF FrontOf, SpacesOf
<1> DEFINE front == FrontOf(s, left, w)
           spaces == SpacesOf(s, left)
           after(v) == {k \in spaces : \A i \in v : i < k}
           first == [v \in front |-> CHOOSE k \in after(v) : \A m \in after(v) : k <= m]
<1>1. IsFiniteSet(Words(s, left)) /\ left \subseteq Int /\ left \subseteq Nat
  BY FiniteWords
<1>2. IsFiniteSet(front) /\ Cardinality(front) \in Nat
  BY <1>1, FS_Subset, FS_CardinalityType
<1>3. IsFiniteSet(spaces) /\ Cardinality(spaces) \in Nat /\ spaces \subseteq Nat
  <2>1. IsFiniteSet(1..Len(s))
    BY FS_Interval
  <2>2. spaces \in SUBSET (1..Len(s)) /\ spaces \subseteq Nat
    <3>1. spaces \subseteq left
      OBVIOUS
    <3>2. left \subseteq 1..Len(s)
      OBVIOUS
    <3> HIDE DEF spaces
    <3> QED BY <1>1, <3>1, <3>2
  <2> HIDE DEF spaces
  <2> QED BY <2>1, <2>2, FS_Subset, FS_CardinalityType
<1>4. ASSUME NEW v \in front, NEW u \in Words(s, left), Ahead(v, u)
      PROVE  \E k \in after(v) : \A j \in u : k < j
  <2>1. PICK i \in v, j \in u : i < j /\ i \in Int /\ j \in Int
    BY <1>1, <1>4, WordIs DEF Ahead
  <2>2. v # u
    BY <1>4, <2>1 DEF Ahead
  <2>3. PICK k \in left :
             /\ s[k] = " "
             /\ \/ (\A m \in v : m < k) /\ (\A n \in u : k < n)
                \/ (\A n \in u : n < k) /\ (\A m \in v : k < m)
    BY <1>1, <2>2, WordsInOrder
  <2>4. ~(j < k /\ k < i)
    BY <1>1, <2>1
  <2> QED BY <2>1, <2>3, <2>4
<1>5. ASSUME NEW v \in front
      PROVE  first[v] \in after(v) /\ \A m \in after(v) : first[v] <= m
  <2>1. after(v) # {} /\ after(v) \subseteq Nat
    BY <1>3, <1>4
  <2> HIDE DEF after, front
  <2>2. \E k \in after(v) : \A m \in after(v) : k <= m
    BY <2>1, LeastNumber
  <2> QED BY <2>2
<1>6. first \in [front -> spaces]
  BY <1>5
<1>7. ASSUME NEW v \in front, NEW u \in front, Ahead(v, u) PROVE first[v] < first[u]
  <2>1. PICK k \in after(v) : \A j \in u : k < j
    BY <1>4, <1>7
  <2>2. PICK j \in u : j \in Int
    BY <1>1, WordIs
  <2>3. first[v] \in Nat /\ first[u] \in Nat /\ k \in Nat
    <3> HIDE DEF first
    <3>1. first[v] \in spaces /\ first[u] \in spaces /\ k \in spaces
      BY <1>6, <2>1
    <3> QED BY <1>3, <3>1
  <2>4. first[v] <= k
    BY <1>5, <2>1
  <2>5. k < j /\ j < first[u]
    BY <1>5, <2>1, <2>2
  <2> HIDE DEF first, after, front
  <2>6. \A a, b, c, d \in Int : a <= c /\ c < d /\ d < b => a < b
    OBVIOUS
  <2>7. first[v] \in Int /\ first[u] \in Int /\ k \in Int
    BY <2>3
  <2> QED BY ONLY <2>2, <2>4, <2>5, <2>6, <2>7, Zenon
<1>8. ASSUME NEW v \in front, NEW u \in front, v # u PROVE Ahead(v, u) \/ Ahead(u, v)
  <2>1. v \subseteq Int /\ u \subseteq Int
    BY <1>1, WordIs
  <2>2. PICK k \in left :
             \/ (\A i \in v : i < k) /\ (\A j \in u : k < j)
             \/ (\A j \in u : j < k) /\ (\A i \in v : k < i)
    BY <1>1, <1>8, WordsInOrder
  <2> QED BY <1>1, <2>1, <2>2 DEF Ahead
<1> HIDE DEF front, spaces, first
<1>9. ASSUME Cardinality(spaces) < Cardinality(front) PROVE FALSE
  <2>1. PICK v, u \in front : v # u /\ first[v] = first[u]
    BY <1>2, <1>3, <1>6, <1>9, FS_PigeonHole, Zenon
  <2>2. first[v] \in Nat /\ first[u] \in Nat
    BY <1>3, <1>6
  <2> QED BY <1>7, <1>8, <2>1, <2>2
<1>10. Cardinality(front) <= Cardinality(spaces)
  BY <1>2, <1>3, <1>9
<1> QED BY <1>10 DEF front, spaces

----------------------------------------------------------------------------
(* NameExtractor: the theorems.                                              *)

NameInv == line \in Seq(Pieces) /\ extracted = ExtractNameFromLine(line)

LEMMA NameInvariant == NameSpec => []NameInv
<1>1. NameInit => NameInv
  <2> SUFFICES ASSUME NameInit PROVE NameInv
    OBVIOUS
  <2>1. line = <<>> /\ extracted = {} /\ line \in Seq(Pieces) /\ DOMAIN line = {}
    BY DEF NameInit
  <2>2. Cut(line) = {}
    BY <2>1, CutIs DEF WithoutDigits
  <2>3. Words(line, {}) = {}
    BY DEF Words
  <2> QED BY <2>1, <2>2, <2>3 DEF NameInv, ExtractNameFromLine, AtMostThree
<1>2. NameInv /\ [NameNext]_naming => NameInv'
  <2> SUFFICES ASSUME NameInv, [NameNext]_naming PROVE NameInv'
    OBVIOUS
  <2>1. CASE UNCHANGED naming
    BY <2>1 DEF NameInv, naming
  <2>2. ASSUME NEW p \in Pieces, LongerLine(p) PROVE NameInv'
    BY <2>2 DEF NameInv, LongerLine
  <2> QED BY <2>1, <2>2 DEF NameNext
<1> QED BY <1>1, <1>2, PTL DEF NameSpec

\* The words of a name are words of what is left of the line.
LEMMA NameWords ==
    ASSUME NameInv
    PROVE  /\ extracted \subseteq Words(line, Cut(line))
           /\ Cut(line) \subseteq DOMAIN line /\ Cut(line) \subseteq Int
<1>1. line \in Seq(Pieces)
  BY DEF NameInv
<1>2. Cut(line) \subseteq WithoutDigits(line) /\ WithoutDigits(line) \subseteq DOMAIN line
  BY <1>1, CutIs DEF WithoutDigits
<1> QED BY <1>1, <1>2 DEF NameInv, ExtractNameFromLine, AtMostThree

LEMMA TypesOfName == NameInv => NameTypeOK
<1> SUFFICES ASSUME NameInv PROVE NameTypeOK
  OBVIOUS
<1>1. Cardinality(extracted) <= 3
  BY NameWords, ThreeWords DEF NameInv, ExtractNameFromLine
<1>2. \A w \in extracted : w \subseteq Cut(line) /\ w # {} /\ Alphabetic(line, w)
  BY NameWords, WordIs
<1> QED BY <1>1, <1>2, NameWords DEF NameTypeOK, NameInv

LEMMA CutsOfName == NameInv => NothingBehindCuts
<1> SUFFICES ASSUME NameInv, NEW w \in extracted, NEW i \in w, NEW j \in 1..i
    PROVE  /\ line[j] \notin {"@", "linkedin"}
           /\ line[j] = "github" =>
                 \E k \in DOMAIN line : line[k] = "linkedin" /\ \A m \in 1..k : line[m] # "@"
  BY DEF NothingBehindCuts
<1>1. i \in Cut(line)
  BY NameWords, WordIs
<1> QED BY <1>1, CutIs DEF NameInv

\* Between two letters that are left, white space is left if there was any.
LEMMA SpaceIsLeft ==
    ASSUME NameInv, NEW i \in Cut(line), NEW j \in Cut(line)
    PROVE  Joined(line, Cut(line), i, j) <=> \A k \in Between(i, j) : line[k] # " "
<1>1. i \in Nat /\ j \in Nat /\ 1 <= i /\ 1 <= j
  BY NameWords DEF NameInv
<1>2. ASSUME NEW k \in Between(i, j), k \notin Cut(line) PROVE line[k] # " "
  <2>1. k \in 1..i \/ k \in 1..j
    BY <1>1 DEF Between
  <2>2. line[k] = "+-()09"
    BY <1>2, <2>1, CutIs DEF NameInv
  <2> QED BY <2>2
<1>3. Joined(line, Cut(line), i, j) <=>
        \A k \in Between(i, j) : k \in Cut(line) => line[k] # " "
  BY DEF Joined
<1> QED BY <1>2, <1>3

LEMMA WordsOfName == NameInv => WordsAreOfLine
<1> SUFFICES ASSUME NameInv, NEW v \in extracted, NEW w \in extracted, NEW i \in v, NEW j \in w
    PROVE  /\ v = w <=> \A k \in Between(i, j) : line[k] # " "
           /\ \A h \in 1..j :
                 (\A k \in h..j : line[k] # " ") => h \in w \/ line[h] = "+-()09"
  BY DEF WordsAreOfLine
<1>1. i \in Cut(line) /\ j \in Cut(line)
  BY NameWords, WordIs
<1>2. v = w <=> \A k \in Between(i, j) : line[k] # " "
  <2>1. v \in Words(line, Cut(line)) /\ w \in Words(line, Cut(line)) /\ Cut(line) \subseteq Int
    BY NameWords
  <2>2. v = w <=> Joined(line, Cut(line), i, j)
    BY <2>1, SameWord
  <2> QED BY <1>1, <2>2, SpaceIsLeft
<1>3. ASSUME NEW h \in 1..j, \A k \in h..j : line[k] # " ", line[h] # "+-()09"
      PROVE  h \in w
  <2>1. h \in Cut(line)
    BY <1>1, <1>3, CutIs DEF NameInv
  <2>2. \A k \in Between(j, h) : k \in h..j
    BY <1>1, NameWords DEF Between
  <2>3. Joined(line, Cut(line), j, h)
    BY <1>1, <1>3, <2>1, <2>2, SpaceIsLeft
  <2> QED BY <2>1, <2>3, NameWords, WordIs
<1> QED BY <1>2, <1>3

\* On a plain line every word is one of letters.
LEMMA PlainWord ==
    ASSUME NEW s \in Seq(Pieces), \A i \in DOMAIN s : s[i] \notin {"@", "."},
           NEW i \in WithoutDigits(s)
    PROVE  Alphabetic(s, Word(s, WithoutDigits(s), i))
<1> DEFINE left == WithoutDigits(s)
<1> SUFFICES ASSUME NEW j \in Word(s, left, i) PROVE s[j] \in LetterPieces
  BY DEF Alphabetic
<1>1. /\ j \in left /\ left \subseteq DOMAIN s
      /\ \A k \in left \cap Between(i, j) : s[k] # " "
  BY DEF Word, WithoutDigits
<1>2. i \in Int /\ j \in Int /\ s[j] \in Pieces
  <2> HIDE DEF left
  <2> QED BY <1>1, PlacesIn DEF left
<1>3. j \in Between(i, j)
  BY ONLY <1>2 DEF Between
<1>4. s[j] # " " /\ s[j] \in Pieces /\ s[j] # "+-()09" /\ s[j] \notin {"@", "."}
  BY <1>1, <1>2, <1>3, DigitsAway
<1> QED BY <1>4, PiecesAssumption

LEMMA WordsAndSpaces ==
    ASSUME NEW s \in Seq(Pieces), NEW left, left \subseteq DOMAIN s, NEW w
    PROVE  /\ Cardinality(FrontOf(s, left, w)) \in Nat
           /\ Cardinality(SpacesOf(s, left)) \in Nat
<1>1. IsFiniteSet(Words(s, left)) /\ FrontOf(s, left, w) \subseteq Words(s, left)
  BY FiniteWords DEF FrontOf
<1>2. IsFiniteSet(1..Len(s)) /\ SpacesOf(s, left) \subseteq 1..Len(s)
  <2>1. left \subseteq 1..Len(s) /\ SpacesOf(s, left) \subseteq left
    BY PlacesIn DEF SpacesOf
  <2> QED BY <2>1, FS_Interval
<1>3. IsFiniteSet(FrontOf(s, left, w)) /\ IsFiniteSet(SpacesOf(s, left))
  BY <1>1, <1>2, FS_Subset
<1> QED BY <1>3, FS_CardinalityType

LEMMA WholeOfName == NameInv => WholeNameIsKept
<1>1. SUFFICES ASSUME NameInv,
                      \A i \in DOMAIN line : line[i] \notin {"@", ".", "linkedin", "github"},
                      Cardinality({i \in DOMAIN line : line[i] = " "}) <= 2
    PROVE  UNION extracted = {i \in DOMAIN line : line[i] \in LetterPieces}
  BY DEF WholeNameIsKept
<1> DEFINE left == WithoutDigits(line)
<1>2. line \in Seq(Pieces) /\ left \subseteq DOMAIN line /\ left \subseteq Int
  BY <1>1, DigitsAway, PlacesIn DEF NameInv
<1>3. Cut(line) = left
  BY <1>1, <1>2, CutIs
<1>4. SpacesOf(line, left) = {i \in DOMAIN line : line[i] = " "}
  BY DEF SpacesOf, WithoutDigits
<1>5. ASSUME NEW w \in extracted, NEW i \in w
      PROVE  i \in DOMAIN line /\ line[i] \in LetterPieces
  <2>1. w \in Words(line, left)
    BY <1>1, <1>3, NameWords
  <2>2. w \subseteq left /\ Alphabetic(line, w)
    BY <1>2, <2>1, WordIs
  <2> QED BY <1>2, <2>2 DEF Alphabetic
<1>6. ASSUME NEW i \in DOMAIN line, line[i] \in LetterPieces
      PROVE  \E w \in extracted : i \in w
  <2>1. i \in left /\ line[i] # " "
    BY <1>6 DEF WithoutDigits, LetterPieces
  <2> DEFINE w == Word(line, left, i)
  <2>2. Alphabetic(line, w)
    <3>1. \A k \in DOMAIN line : line[k] \notin {"@", "."}
      BY <1>1
    <3> QED BY <1>2, <2>1, <3>1, PlainWord
  <2>3. w \in Words(line, left) /\ i \in w
    BY <1>2, <2>1, <2>2, WordOf
  <2> HIDE DEF w, left
  <2>4. Cardinality(FrontOf(line, left, w)) <= Cardinality(SpacesOf(line, left))
    BY <1>2, <2>3, FrontOfWord
  <2>5. /\ Cardinality(FrontOf(line, left, w)) \in Nat
        /\ Cardinality(SpacesOf(line, left)) \in Nat
    BY <1>2, WordsAndSpaces
  <2>6. Cardinality(SpacesOf(line, left)) <= 2
    BY <1>1, <1>4
  <2>7. Cardinality(FrontOf(line, left, w)) < 3
    BY ONLY <2>4, <2>5, <2>6
  <2>8. w \in AtMostThree(Words(line, left))
    BY <2>3, <2>7 DEF AtMostThree, FrontOf
  <2>9. w \in extracted
    BY <1>1, <1>3, <2>8 DEF NameInv, ExtractNameFromLine
  <2> QED BY <2>3, <2>9
<1> QED BY <1>5, <1>6

\* A name is at most three words of letters, however long the line.
THEOREM NameTypes == NameSpec => []NameTypeOK
BY TypesOfName, NameInvariant, PTL

\* On any line a name is what stands before the cuts, word for word, and all
\* the letters of a plain line of up to three words.
THEOREM NamesAreOfLines == NameSpec => []NameMeaning
<1>1. NameInv => NameMeaning
  BY CutsOfName, WordsOfName, WholeOfName DEF NameMeaning
<1> QED BY <1>1, NameInvariant, PTL
=============================================================================
