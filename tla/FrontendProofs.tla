--------------------------- MODULE FrontendProofs ---------------------------
(* Proofs about Frontend, for any rankings and any number of uploads and of  *)
(* requests for a review.                                                    *)
EXTENDS Frontend, TLAPS

----------------------------------------------------------------------------
(* The cards of the page.                                                    *)

\* What fetchFeedback and the effects do to a card, field by field.
LEMMA Asking ==
    ASSUME card \in Cards
    PROVE  /\ CardAsking \in Cards /\ CardAsking.mount = card.mount
           /\ CardAsking.feedback = card.feedback
           /\ CardAsking.loading /\ ~CardAsking.error
BY DEF Cards, CardAsking

LEMMA Reset ==
    ASSUME card \in Cards
    PROVE  /\ CardReset \in Cards /\ CardReset.mount = card.mount
           /\ CardReset.feedback = NoReview
           /\ CardReset.loading = card.loading /\ ~CardReset.error
BY DEF Cards, CardReset

LEMMA Reviewed ==
    ASSUME card \in Cards, NEW r \in Reviews
    PROVE  /\ CardReviewed(r) \in Cards /\ CardReviewed(r).mount = card.mount
           /\ CardReviewed(r).feedback = r
           /\ ~CardReviewed(r).loading /\ CardReviewed(r).error = card.error
BY DEF Cards, CardReviewed

LEMMA FailedCard ==
    ASSUME card \in Cards
    PROVE  /\ CardFailed \in Cards /\ CardFailed.mount = card.mount
           /\ CardFailed.feedback = card.feedback
           /\ ~CardFailed.loading /\ CardFailed.error
BY DEF Cards, CardFailed

LEMMA Absence ==
    /\ NoCard \in Cards /\ NoCard.mount = 0 /\ NoCard.feedback = NoReview
    /\ ~NoCard.loading /\ ~NoCard.error
BY DEF Cards, NoCard

LEMMA Mounting ==
    ASSUME NEW u \in Upload
    PROVE  /\ NewCard(u) \in Cards /\ NewCard(u).mount = u
           /\ NewCard(u).feedback = NoReview
           /\ ~NewCard(u).loading /\ ~NewCard(u).error
BY DEF Cards, NoCard, NewCard

----------------------------------------------------------------------------
(* The results of the page.                                                  *)

\* The roles of a ranking.
LEMMA RankingRoles ==
    ASSUME NEW r \in Rankings
    PROVE  /\ r.best \in Roles \cup {NoRole}
           /\ r.top # <<>> => Head(r.top) \in Roles \cup {NoRole}
<1>1. ToSet(r.top) \cup {r.best} \subseteq Roles \cup {NoRole}
  BY DEF Roles
<1>2. ASSUME r.top # <<>> PROVE Head(r.top) \in ToSet(r.top)
  BY <1>2, PageAssumption
<1> QED BY <1>1, <1>2

LEMMA DefaultIsRole ==
    ASSUME result \in Results PROVE DefaultRole \in Roles \cup {NoRole}
<1>1. CASE \E u \in Upload, r \in Rankings : result = Ranked(u, r)
  <2>1. PICK u \in Upload, r \in Rankings : result = Ranked(u, r)
    BY <1>1
  <2>2. result.best = r.best /\ result.top = r.top
    BY <2>1 DEF Ranked
  <2> QED BY <2>2, RankingRoles DEF DefaultRole
<1>2. CASE result = NoResult \/ \E u \in Upload : result = Failed(u)
  <2>1. result.best = NoRole /\ result.top = <<>>
    <3>1. CASE result = NoResult
      BY <3>1 DEF NoResult
    <3>2. ASSUME NEW u \in Upload, result = Failed(u) PROVE result.best = NoRole /\ result.top = <<>>
      BY <3>2 DEF Failed
    <3> QED BY <1>2, <3>1, <3>2
  <2> QED BY <2>1 DEF DefaultRole
<1> QED BY <1>1, <1>2 DEF Results

\* The three kinds of result an upload can end with.
LEMMA ResultFields ==
    ASSUME NEW u \in Upload
    PROVE  /\ Failed(u) \in Results /\ Failed(u).kind # "none"
           /\ Failed(u).upload = u /\ Failed(u).best = NoRole
           /\ NoResult \in Results /\ NoResult.kind = "none" /\ NoResult.best = NoRole
           /\ \A r \in Rankings : /\ Ranked(u, r) \in Results
                                  /\ Ranked(u, r).kind = "roles"
                                  /\ Ranked(u, r).upload = u
<1>1. Failed(u) \in Results /\ NoResult \in Results /\ \A r \in Rankings : Ranked(u, r) \in Results
  BY DEF Results
<1> QED BY <1>1 DEF Failed, NoResult, Ranked

----------------------------------------------------------------------------
(* The inductive invariant.                                                  *)

\* While an upload is under way there is no result and no card; a card is there
\* only for the result of the last upload.
CardOfResult ==
    /\ loading => result = NoResult
    /\ card.mount # 0 =>
        /\ ~loading /\ card.mount = sent.uploads
        /\ result.kind = "roles" /\ result.upload = card.mount

\* A request for a review is about the resume its card was mounted for, and its
\* card is not one that is still to come.
AsksAreOld ==
    \A a \in asks :
        /\ a.mount = a.about.upload /\ a.mount <= sent.uploads
        /\ loading => a.mount < sent.uploads

\* A review on a card is about the resume the card was mounted for.
ReviewOfCard ==
    card.feedback # NoReview => card.mount # 0 /\ card.feedback.upload = card.mount

\* The card shows one thing at a time: offer, spinner, error or review.
OneFace ==
    /\ ~(card.loading /\ card.error)
    /\ card.feedback # NoReview => ~card.loading /\ ~card.error

PageInv ==
    /\ TypeOK /\ ResultOfLastUpload /\ SpinnersHaveOneFetch /\ OneFace
    /\ CardOfResult /\ AsksAreOld /\ ReviewOfCard

LEMMA InitInv == Init => PageInv
<1> SUFFICES ASSUME Init PROVE PageInv
  OBVIOUS
<1>1. TypeOK
  <2>1. NoResult \in Results
    BY DEF Results
  <2> QED BY <2>1, Absence DEF Init, TypeOK
<1>2. NoResult.kind = "none"
  BY DEF NoResult
<1> QED BY <1>1, <1>2, Absence DEF Init, PageInv, ResultOfLastUpload, SpinnersHaveOneFetch,
           OneFace, CardOfResult, AsksAreOld, ReviewOfCard

\* The end of an upload, whatever the answer.
LEMMA ShowStep ==
    ASSUME PageInv, NEW u \in Upload, NEW r \in Results, NEW text,
           text \in {"none", "noFile", "unreachable"},
           r.kind # "none" => r.upload = u, r.best # NoRole => r.kind = "roles",
           ShowUpload(u, r, text)
    PROVE  PageInv'
<1>1. loading /\ uploads = {u} /\ u = sent.uploads /\ uploads' = {} /\ card.mount = 0
  BY DEF PageInv, ShowUpload, SpinnersHaveOneFetch, CardOfResult
<1>2. card' = IF r.best = NoRole THEN NoCard ELSE NewCard(u)
  BY <1>1 DEF ShowUpload
<1>3. card' \in Cards /\ card'.feedback = NoReview /\ ~card'.loading /\ ~card'.error
      /\ card'.mount \in {0, u} /\ (card'.mount # 0 => r.best # NoRole)
  BY <1>2, Absence, Mounting
<1>4. TypeOK'
  BY <1>3, <1>1 DEF PageInv, TypeOK, ShowUpload
<1>5. ResultOfLastUpload' /\ CardOfResult' /\ ReviewOfCard' /\ OneFace'
  BY <1>1, <1>3 DEF ShowUpload, ResultOfLastUpload, CardOfResult, ReviewOfCard, OneFace
<1>6. AsksAreOld'
  BY <1>1 DEF ShowUpload, PageInv, AsksAreOld
<1>7. \A a \in asks : a.mount # u /\ a.mount # 0
  BY <1>1 DEF PageInv, AsksAreOld, TypeOK, Asks, Upload
<1>8. SpinnersHaveOneFetch'
  BY <1>1, <1>3, <1>7 DEF ShowUpload, SpinnersHaveOneFetch
<1> QED BY <1>4, <1>5, <1>6, <1>8 DEF PageInv

LEMMA AnalyzeStep == PageInv /\ Analyze => PageInv'
<1> SUFFICES ASSUME PageInv, Analyze PROVE PageInv'
  OBVIOUS
<1> USE DEF panel, view, net
<1>1. sent' \in [uploads : Nat, asks : Nat] /\ sent'.uploads = sent.uploads + 1
      /\ sent'.uploads \in Upload /\ sent.uploads \in Nat
  BY PageAssumption DEF Analyze, PageInv, TypeOK, Upload
<1>2. card' = NoCard /\ result' = NoResult /\ loading' = TRUE /\ asks' = asks
      /\ ~loading /\ uploads' = uploads \cup {sent'.uploads}
  BY DEF Analyze, CardWhileLoading, ButtonEnabled, PageInv, TypeOK
<1>3. uploads = {}
  BY <1>2 DEF PageInv, SpinnersHaveOneFetch
<1>4. NoResult \in Results /\ NoResult.kind = "none"
  BY DEF Results, NoResult
<1>5. TypeOK'
  BY <1>1, <1>2, <1>4, Absence DEF Analyze, PageInv, TypeOK
<1>6. ResultOfLastUpload' /\ CardOfResult' /\ ReviewOfCard' /\ OneFace'
  BY <1>2, <1>4, Absence DEF ResultOfLastUpload, CardOfResult, ReviewOfCard, OneFace
<1>7. \A a \in asks : a.mount \in Nat /\ a.mount # 0
  BY DEF PageInv, TypeOK, Asks, Upload
<1>8. AsksAreOld'
  BY <1>1, <1>2, <1>7 DEF PageInv, AsksAreOld
<1>9. SpinnersHaveOneFetch'
  BY <1>2, <1>3, <1>7, Absence DEF SpinnersHaveOneFetch
<1> QED BY <1>5, <1>6, <1>8, <1>9 DEF PageInv

LEMMA AskStep == PageInv /\ Ask => PageInv'
<1> SUFFICES ASSUME PageInv, Ask PROVE PageInv'
  OBVIOUS
<1> USE DEF panel, view, net
<1>1. card \in Cards /\ card.mount # 0 /\ card' = CardAsking
  BY DEF Ask, PageInv, TypeOK
<1>2. card' \in Cards /\ card'.mount = card.mount /\ card'.feedback = card.feedback
      /\ card'.loading /\ ~card'.error
  BY <1>1, Asking
<1>3. card.mount \in Upload /\ result.upload = card.mount /\ card.mount = sent.uploads /\ ~loading
  BY <1>1 DEF PageInv, CardOfResult, Cards
<1>4. ~card.loading /\ card.feedback = NoReview
  BY DEF Ask, Offered, PageInv, OneFace
<1>5. sent' \in [uploads : Nat, asks : Nat] /\ sent'.asks \in 1..MaxAsks
      /\ sent'.uploads = sent.uploads
  BY PageAssumption DEF Ask, PageInv, TypeOK
<1> DEFINE new == [n |-> sent'.asks, mount |-> card.mount,
                   about |-> [upload |-> result.upload, role |-> selected]]
<1>6. asks' = asks \cup {new}
  BY DEF Ask
<1>7. new \in Asks /\ new.mount = card.mount /\ new.about.upload = card.mount
  BY <1>3, <1>5 DEF PageInv, TypeOK, Asks, Reviews
<1> HIDE DEF new
<1>8. TypeOK'
  BY <1>2, <1>5, <1>6, <1>7 DEF Ask, PageInv, TypeOK
<1>9. ResultOfLastUpload' /\ CardOfResult' /\ ReviewOfCard' /\ OneFace'
  BY <1>2, <1>4, <1>5 DEF Ask, PageInv, ResultOfLastUpload, CardOfResult, ReviewOfCard, OneFace
<1>10. AsksAreOld'
  BY <1>3, <1>5, <1>6, <1>7 DEF Ask, PageInv, AsksAreOld, TypeOK
<1>11. SpinnersHaveOneFetch'
  <2>1. \A a \in asks : a.mount # card.mount
    BY <1>4 DEF PageInv, SpinnersHaveOneFetch
  <2>2. uploads' = uploads /\ loading' = loading
    BY DEF Ask
  <2> QED BY <1>2, <1>5, <1>6, <1>7, <2>1, <2>2 DEF PageInv, SpinnersHaveOneFetch
<1> QED BY <1>8, <1>9, <1>10, <1>11 DEF PageInv

LEMMA SettleStep == PageInv /\ Settle => PageInv'
<1> SUFFICES ASSUME PageInv, Settle PROVE PageInv'
  OBVIOUS
<1> USE DEF panel, view, net
<1>1. card \in Cards /\ card' = CardReset
  BY DEF Settle, PageInv, TypeOK
<1>2. card' \in Cards /\ card'.mount = card.mount /\ card'.feedback = NoReview
      /\ card'.loading = card.loading /\ ~card'.error
  BY <1>1, Reset
<1>3. TypeOK'
  BY <1>2, DefaultIsRole DEF Settle, PageInv, TypeOK
<1>4. ResultOfLastUpload' /\ CardOfResult' /\ ReviewOfCard' /\ OneFace' /\ AsksAreOld'
  BY <1>2 DEF Settle, PageInv, ResultOfLastUpload, CardOfResult, ReviewOfCard, OneFace, AsksAreOld
<1>5. SpinnersHaveOneFetch'
  BY <1>2 DEF Settle, PageInv, SpinnersHaveOneFetch
<1> QED BY <1>3, <1>4, <1>5 DEF PageInv

\* The end of a request for a review, whatever the answer: a review need only
\* be about the resume that was asked about, not for the role.
LEMMA EndAskStep ==
    ASSUME PageInv, NEW a \in asks, NEW shown \in Cards, EndAsk(a, shown),
           shown.mount = card.mount, ~shown.loading,
           \/ shown.feedback = card.feedback
           \/ /\ shown.feedback \in Reviews /\ shown.error = card.error
              /\ shown.feedback.upload = a.about.upload
    PROVE  PageInv'
<1> USE DEF panel, view, net
<1>1. asks' = asks \ {a} /\ card' = IF a.mount = card.mount THEN shown ELSE card
  BY DEF EndAsk
<1>2. TypeOK'
  BY <1>1 DEF EndAsk, PageInv, TypeOK
<1>3. AsksAreOld'
  BY <1>1 DEF EndAsk, PageInv, AsksAreOld
<1>4. CASE a.mount # card.mount
  <2>1. card' = card
    BY <1>1, <1>4
  <2>2. ResultOfLastUpload' /\ CardOfResult' /\ ReviewOfCard' /\ OneFace'
    BY <2>1 DEF EndAsk, PageInv, ResultOfLastUpload, CardOfResult, ReviewOfCard, OneFace
  <2>3. SpinnersHaveOneFetch'
    BY <1>1, <1>4, <2>1 DEF EndAsk, PageInv, SpinnersHaveOneFetch
  <2> QED BY <1>2, <1>3, <2>2, <2>3 DEF PageInv
<1>5. CASE a.mount = card.mount
  <2>1. card' = shown
    BY <1>1, <1>5
  <2>2. card.loading /\ ~card.error /\ card.feedback = NoReview
    BY <1>5 DEF PageInv, SpinnersHaveOneFetch, OneFace
  <2>3. a.mount # 0 /\ a.about.upload = card.mount
    BY <1>5 DEF PageInv, TypeOK, Asks, Upload, AsksAreOld
  <2>4. ResultOfLastUpload' /\ CardOfResult'
    BY <2>1 DEF EndAsk, PageInv, ResultOfLastUpload, CardOfResult
  <2>5. ReviewOfCard'
    BY <2>1, <2>2, <2>3, <1>5 DEF ReviewOfCard
  <2>6. OneFace'
    BY <2>1, <2>2 DEF OneFace
  <2>7. SpinnersHaveOneFetch'
    BY <1>1, <1>5, <2>1 DEF EndAsk, PageInv, SpinnersHaveOneFetch
  <2> QED BY <1>2, <1>3, <2>4, <2>5, <2>6, <2>7 DEF PageInv
<1> QED BY <1>4, <1>5

LEMMA PageStep == PageInv /\ [Next]_vars => PageInv'
<1> SUFFICES ASSUME PageInv, [Next]_vars PROVE PageInv'
  OBVIOUS
<1> USE DEF panel, view, net
<1>1. ASSUME UNCHANGED <<loading, result, card, uploads, asks, sent, settled>>,
             hasFile' \in BOOLEAN, notice' \in {"none", "noFile", "unreachable"},
             selected' \in Roles \cup {NoRole}
      PROVE  PageInv'
  BY <1>1 DEF PageInv, TypeOK, ResultOfLastUpload, SpinnersHaveOneFetch, OneFace,
              CardOfResult, AsksAreOld, ReviewOfCard
<1>2. CASE ChooseFile \/ AnalyzeNothing \/ (\E r \in Roles : SelectRole(r)) \/ UNCHANGED vars
  <2>1. UNCHANGED <<loading, result, card, uploads, asks, sent, settled>>
    BY <1>2 DEF ChooseFile, AnalyzeNothing, SelectRole, vars
  <2>2. hasFile' \in BOOLEAN /\ notice' \in {"none", "noFile", "unreachable"}
    BY <1>2 DEF ChooseFile, AnalyzeNothing, SelectRole, vars, PageInv, TypeOK
  <2>3. selected' \in Roles \cup {NoRole}
    BY <1>2 DEF ChooseFile, AnalyzeNothing, SelectRole, vars, PageInv, TypeOK
  <2> QED BY <2>1, <2>2, <2>3, <1>1
<1>3. CASE Analyze \/ Ask \/ Settle
  BY <1>3, AnalyzeStep, AskStep, SettleStep
<1>4. ASSUME NEW u \in uploads, EndUpload(u) PROVE PageInv'
  <2>1. u \in Upload /\ notice \in {"none", "noFile", "unreachable"}
    BY DEF PageInv, TypeOK
  <2>2. CASE ShowRanking(u)
    <3>1. PICK r \in Rankings : ShowUpload(u, Ranked(u, r), notice)
      BY <2>2 DEF ShowRanking
    <3> QED BY <2>1, <3>1, ResultFields, ShowStep
  <2>3. CASE ShowMessage(u)
    BY <2>1, <2>3, ResultFields, ShowStep DEF ShowMessage
  <2>4. CASE UploadRejected(u)
    BY <2>1, <2>4, ResultFields, ShowStep DEF UploadRejected
  <2> QED BY <1>4, <2>2, <2>3, <2>4 DEF EndUpload
<1>5. ASSUME NEW a \in asks, GetReview(a, a.about) \/ GetError(a) PROVE PageInv'
  <2>1. a.about \in Reviews /\ card \in Cards
    BY DEF PageInv, TypeOK, Asks
  <2>2. CASE GetReview(a, a.about)
    BY <2>1, <2>2, Reviewed, EndAskStep DEF GetReview
  <2>3. CASE GetError(a)
    BY <2>1, <2>3, FailedCard, EndAskStep DEF GetError
  <2> QED BY <1>5, <2>2, <2>3
<1> QED BY <1>2, <1>3, <1>4, <1>5 DEF Next, User

\* The default role is one of the result.
LEMMA DefaultOfResult ==
    ASSUME result \in Results, result.top # <<>>
    PROVE  DefaultRole \in ToSet(result.top) \cup ({result.best} \ {NoRole})
<1>1. CASE \E u \in Upload, r \in Rankings : result = Ranked(u, r)
  <2>1. PICK u \in Upload, r \in Rankings : result = Ranked(u, r)
    BY <1>1
  <2>2. result.best = r.best /\ result.top = r.top
    BY <2>1 DEF Ranked
  <2>3. Head(r.top) \in ToSet(r.top)
    BY <2>2, PageAssumption
  <2> QED BY <2>2, <2>3 DEF DefaultRole
<1>2. CASE result = NoResult \/ \E u \in Upload : result = Failed(u)
  BY <1>2 DEF NoResult, Failed
<1> QED BY <1>1, <1>2 DEF Results

LEMMA SkillsStep ==
    PageInv /\ SkillsOfSelectedRole /\ [Next]_vars => SkillsOfSelectedRole'
<1> SUFFICES ASSUME PageInv, SkillsOfSelectedRole, [Next]_vars PROVE SkillsOfSelectedRole'
  OBVIOUS
<1> USE DEF panel, view, net, SkillsOfSelectedRole
<1>1. CASE Settle
  <2>1. result \in Results /\ result' = result /\ selected' = DefaultRole
    BY <1>1 DEF Settle, PageInv, TypeOK
  <2> QED BY <2>1, DefaultOfResult DEF SkillsShown
<1>2. CASE Analyze
  <2>1. result' = NoResult /\ NoResult.top = <<>>
    BY <1>2 DEF Analyze, NoResult
  <2> QED BY <2>1
<1>3. ASSUME NEW r \in Roles, SelectRole(r) PROVE SkillsOfSelectedRole'
  BY <1>3 DEF SelectRole, SkillsShown
<1>4. ASSUME NEW u \in uploads, EndUpload(u) PROVE ~settled'
  BY <1>4 DEF EndUpload, ShowRanking, ShowMessage, UploadRejected, ShowUpload
<1>5. CASE ChooseFile \/ AnalyzeNothing \/ Ask \/ UNCHANGED vars
           \/ \E a \in asks : GetReview(a, a.about) \/ GetError(a)
  <2>1. UNCHANGED <<result, selected, settled>>
    BY <1>5 DEF ChooseFile, AnalyzeNothing, Ask, GetReview, GetError, EndAsk, vars
  <2> QED BY <2>1 DEF SkillsShown
<1> QED BY <1>1, <1>2, <1>3, <1>4, <1>5 DEF Next, User

----------------------------------------------------------------------------
(* The theorems.                                                             *)

LEMMA PageInvariant == Spec => []PageInv
BY InitInv, PageStep, PTL DEF Spec

\* Every variable of the page keeps its type.
THEOREM PageTypes == Spec => []TypeOK
<1>1. PageInv => TypeOK
  BY DEF PageInv
<1> QED BY <1>1, PageInvariant, PTL

\* No late answer replaces the result of the last upload, however many uploads.
THEOREM LastUploadShown == Spec => []ResultOfLastUpload
<1>1. PageInv => ResultOfLastUpload
  BY DEF PageInv
<1> QED BY <1>1, PageInvariant, PTL

\* A review on screen is about the resume on screen, whatever is in flight.
THEOREM ShownResumeReviewed == Spec => []ReviewOfShownResume
<1>1. PageInv => ReviewOfShownResume
  BY DEF PageInv, ReviewOfCard, CardOfResult, ReviewOfShownResume
<1> QED BY <1>1, PageInvariant, PTL

\* The page waits for exactly the fetches it shows a spinner for.
THEOREM OneFetchPerSpinner == Spec => []SpinnersHaveOneFetch
<1>1. PageInv => SpinnersHaveOneFetch
  BY DEF PageInv
<1> QED BY <1>1, PageInvariant, PTL

\* The card never shows two of its faces.
THEOREM OneFaceShown == Spec => []OneFace
<1>1. PageInv => OneFace
  BY DEF PageInv
<1> QED BY <1>1, PageInvariant, PTL

\* The skills listed are those of the highlighted role, whatever the ranking.
THEOREM SelectedRoleSkills == Spec => []SkillsOfSelectedRole
<1>1. Init => SkillsOfSelectedRole
  <2>1. NoResult.top = <<>>
    BY DEF NoResult
  <2> QED BY <2>1 DEF Init, SkillsOfSelectedRole
<1> QED BY <1>1, PageInvariant, SkillsStep, PTL DEF Spec
=============================================================================
