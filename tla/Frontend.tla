------------------------------ MODULE Frontend ------------------------------
(* The page of resume-frontend/src/App.js: the upload panel, the result panel *)
(* and the feedback card, with the fetches they have in flight.  A resume on  *)
(* the page is named by the upload that brought it, a review by the resume    *)
(* and the role it is really about.                                           *)
EXTENDS Integers, Sequences, SequencesExt

CONSTANTS
    Rankings,   \* what an answer may say: [best, top], best_role and top_roles
    NoRole,     \* "": no role selected
    NoReview,   \* feedback === null
    MaxUploads, MaxAsks     \* bounds: uploads and requests for a review

Roles == (UNION {ToSet(r.top) \cup {r.best} : r \in Rankings}) \ {NoRole}

ASSUME PageAssumption ==
    /\ \A r \in Rankings : r = [best |-> r.best, top |-> r.top] /\ r.top \in Seq(ToSet(r.top))
    /\ NoReview \notin [upload : Nat, role : Roles \cup {NoRole}]
    /\ MaxUploads \in Nat /\ MaxAsks \in Nat

VARIABLES
    hasFile,    \* UploadPanel: a file is chosen
    notice,     \* UploadPanel: its error line
    loading,    \* App: loading
    result,     \* App: result, with the upload it answers
    selected,   \* ResultPanel: selectedRole
    settled,    \* the effects of the last render have run
    card,       \* AIFeedbackCard: its mount, feedback, loading and error
    uploads,    \* POST /upload fetches in flight
    asks,       \* POST /evaluate fetches in flight
    sent        \* number of uploads and of asks so far

panel == <<hasFile, notice>>
view == <<loading, result, selected, settled>>
net == <<uploads, asks, sent>>
vars == <<panel, view, card, net>>

Upload == 1..MaxUploads
Reviews == [upload : Upload, role : Roles \cup {NoRole}]
Cards == [mount : Upload \cup {0}, feedback : Reviews \cup {NoReview},
          loading : BOOLEAN, error : BOOLEAN]
Asks == [n : 1..MaxAsks, mount : Upload, about : Reviews]

NoResult == [kind |-> "none", upload |-> 0, best |-> NoRole, top |-> <<>>]
Failed(u) == [kind |-> "message", upload |-> u, best |-> NoRole, top |-> <<>>]
Ranked(u, r) == [kind |-> "roles", upload |-> u, best |-> r.best, top |-> r.top]

Results == {NoResult} \cup {Failed(u) : u \in Upload}
               \cup {Ranked(u, r) : u \in Upload, r \in Rankings}

\* A card that is not there, and one that has just been mounted for upload u.
NoCard == [mount |-> 0, feedback |-> NoReview, loading |-> FALSE, error |-> FALSE]
NewCard(u) == [NoCard EXCEPT !.mount = u]

Init ==
    /\ hasFile = FALSE /\ notice = "none"
    /\ loading = FALSE /\ result = NoResult
    /\ selected = NoRole /\ settled = TRUE
    /\ card = NoCard
    /\ uploads = {} /\ asks = {}
    /\ sent = [uploads |-> 0, asks |-> 0]

----------------------------------------------------------------------------
(* The upload panel.                                                         *)

ChooseFile ==
    /\ ~hasFile
    /\ hasFile' = TRUE
    /\ UNCHANGED <<notice, view, card, net>>

AnalyzeNothing ==
    /\ ~hasFile /\ ~loading
    /\ notice' = "noFile"
    /\ UNCHANGED <<hasFile, view, card, net>>

\* Mutants: a button that is never disabled; a panel that stays mounted.
ButtonAlwaysOn == TRUE
CardKept == card

ButtonEnabled == ~loading

\* "if (loading) return <LoadingState />" unmounts the card.
CardWhileLoading == NoCard

\* handleUpload up to its await.  The click is a discrete event: the effects of
\* the render it causes run at once, and find no result.
Analyze ==
    /\ hasFile /\ ButtonEnabled /\ sent.uploads < MaxUploads
    /\ notice' = "none"
    /\ loading' = TRUE
    /\ result' = NoResult
    /\ selected' = NoRole /\ settled' = TRUE
    /\ card' = CardWhileLoading
    /\ sent' = [sent EXCEPT !.uploads = @ + 1]
    /\ uploads' = uploads \cup {sent'.uploads}
    /\ UNCHANGED <<hasFile, asks>>

\* What handleUpload does after its await, and the render that follows: the
\* card is mounted for a result that has an id and a best role.
ShowUpload(u, r, text) ==
    /\ u \in uploads
    /\ uploads' = uploads \ {u}
    /\ result' = r
    /\ notice' = text
    /\ loading' = FALSE
    /\ settled' = FALSE
    /\ card' = IF r.best = NoRole THEN NoCard
               ELSE IF card.mount = 0 THEN NewCard(u) ELSE card
    /\ UNCHANGED <<hasFile, selected, asks, sent>>

\* A JSON answer the browser lets the page read: a ranking, or a message.
ShowRanking(u) == \E ranking \in Rankings : ShowUpload(u, Ranked(u, ranking), notice)

ShowMessage(u) == ShowUpload(u, Failed(u), notice)

\* The await rejects: an answer without a CORS header, one that is no JSON, or
\* none at all.
UploadRejected(u) == ShowUpload(u, NoResult, "unreachable")

----------------------------------------------------------------------------
(* The result panel.                                                         *)

\* Mutant: without the "|| firstRole".
NoDefault == result.best

\* best_role || firstRole || "".  Of equal scores best_role need not be the one
\* that heads top_roles, nor be in it.
DefaultRole ==
    CASE result.best # NoRole -> result.best
      [] result.best = NoRole /\ result.top # <<>> -> Head(result.top)
      [] OTHER -> NoRole

CardReset == [card EXCEPT !.feedback = NoReview, !.error = FALSE]

\* The effects of the last render: setSelectedRole, and the card's reset.
Settle ==
    /\ ~settled
    /\ settled' = TRUE
    /\ selected' = DefaultRole
    /\ card' = CardReset
    /\ UNCHANGED <<panel, loading, result, net>>

\* A click on a comparison bar; before Settle, the effect would undo it.
SelectRole(r) ==
    /\ settled /\ ~loading
    /\ r \in ToSet(result.top)
    /\ selected' = r
    /\ UNCHANGED <<panel, loading, result, settled, card, net>>

\* Whose skills the two skill lists show: those of the selected role, or, when
\* top_roles does not have it, those of the best match.
SkillsShown ==
    IF selected \in ToSet(result.top) THEN selected ELSE result.best

----------------------------------------------------------------------------
(* The feedback card.                                                        *)

\* Mutant: the button stays while a request runs.
OfferAlways == card.feedback = NoReview

CardAsking == [card EXCEPT !.loading = TRUE, !.error = FALSE]

\* "Generate AI Analysis" is on the card, or "Retry Analysis".
Offered == card.error \/ (card.feedback = NoReview /\ ~card.loading)

\* fetchFeedback up to its await; requestId and role are those of the render.
Ask ==
    /\ card.mount # 0 /\ Offered /\ sent.asks < MaxAsks
    /\ card' = CardAsking
    /\ sent' = [sent EXCEPT !.asks = @ + 1]
    /\ asks' = asks \cup {[n |-> sent'.asks, mount |-> card.mount,
                           about |-> [upload |-> result.upload, role |-> selected]]}
    /\ UNCHANGED <<panel, view, uploads>>

\* The rest of fetchFeedback.  It sets the state of the card it was started on:
\* once that is unmounted it changes nothing.
EndAsk(a, shown) ==
    /\ a \in asks
    /\ asks' = asks \ {a}
    /\ card' = IF a.mount = card.mount THEN shown ELSE card
    /\ UNCHANGED <<panel, view, uploads, sent>>

CardReviewed(review) == [card EXCEPT !.feedback = review, !.loading = FALSE]
CardFailed == [card EXCEPT !.error = TRUE, !.loading = FALSE]

GetReview(a, review) == EndAsk(a, CardReviewed(review))

\* Mutants: no look at data.error; setLoading(false) not in the finally.
ErrorAsReview(a) == EndAsk(a, [card EXCEPT !.feedback = NoResult, !.loading = FALSE])
ErrorKeepsSpinner(a) == EndAsk(a, [card EXCEPT !.error = TRUE])

\* data.error, an answer that is no JSON, or no answer.
GetError(a) == EndAsk(a, CardFailed)

----------------------------------------------------------------------------
User == ChooseFile \/ AnalyzeNothing \/ Analyze \/ Ask
        \/ \E r \in Roles : SelectRole(r)

EndUpload(u) ==
    ShowRanking(u) \/ ShowMessage(u) \/ UploadRejected(u)

\* With a server that answers every request by a review of what it asks for.
Next ==
    \/ User
    \/ Settle
    \/ \E u \in uploads : EndUpload(u)
    \/ \E a \in asks : GetReview(a, a.about) \/ GetError(a)

Spec == Init /\ [][Next]_vars

----------------------------------------------------------------------------
(* Properties.                                                               *)

\* Type invariant of the page.
TypeOK ==
    /\ hasFile \in BOOLEAN
    /\ notice \in {"none", "noFile", "unreachable"}
    /\ loading \in BOOLEAN /\ settled \in BOOLEAN
    /\ result \in Results
    /\ selected \in Roles \cup {NoRole}
    /\ card \in Cards
    /\ uploads \subseteq Upload
    /\ asks \subseteq Asks
    /\ sent \in [uploads : Nat, asks : Nat]

\* Whatever answers are late or lost, the result on screen is that of the last
\* click on Analyze: handleUpload does not look which upload an answer is for.
ResultOfLastUpload == result.kind # "none" => result.upload = sent.uploads

\* A review on screen is about the resume whose result is on screen, although
\* fetchFeedback sets its answer without a look at what is shown by then.
ReviewOfShownResume ==
    card.feedback # NoReview =>
        result.kind = "roles" /\ card.feedback.upload = result.upload

\* The page shows a spinner exactly while it waits: for one upload, and for one
\* review of the card that is there, never for two, and never for nothing.
SpinnersHaveOneFetch ==
    /\ uploads = IF loading THEN {sent.uploads} ELSE {}
    /\ card.loading <=> \E a \in asks : a.mount = card.mount
    /\ \A a, b \in asks : a.mount = card.mount /\ b.mount = card.mount => a = b

\* The skills listed are those of the role that is highlighted, which is one of
\* the roles of this result, whatever was selected on the one before.
SkillsOfSelectedRole ==
    settled /\ result.top # <<>> =>
        /\ SkillsShown = selected
        /\ selected \in ToSet(result.top) \cup ({result.best} \ {NoRole})

\* App.js:235 "Get a personalized AI recruiter review of your resume for the
\* {role} role": the review on the card is for the role the card is for.
ReviewForSelectedRole ==
    card.feedback # NoReview =>
        card.feedback.role \in {selected, NoRole}
=============================================================================
