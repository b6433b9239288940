---------------------------- MODULE ReviewSystem ----------------------------
(* One page and the server: Frontend's fetches are the calls of ResumeStore,  *)
(* which stands for POST /upload, and of EvaluateService.  The request id of  *)
(* an upload is named by the upload; a call to /evaluate is the page's ask.   *)
EXTENDS Integers, Sequences, SequencesExt, FiniteSets

CONSTANTS
    Rankings, NoRole, NoReview, MaxUploads, MaxAsks,    \* of Frontend
    Absent, Blank, Mixed, Refusal, Fallback, Unanswered  \* of EvaluateService

VARIABLES
    reliable,   \* no fetch, process, open, write or fork fails
    hasFile, notice, loading, result, selected, settled, card,
    uploads, asks, sent,                    \* of Frontend
    texts, outcome,                             \* of ResumeStore
    pc, prompt, proc, payload, reply, answer    \* of EvaluateService

Page == INSTANCE Frontend

Calls == {a \in Page!Asks : a.mount = a.about.upload /\ a.about.role # NoRole}

Request(c) == [valid |-> TRUE, id |-> c.about.upload, role |-> c.about.role]

Store == INSTANCE ResumeStore WITH Calls <- Page!Upload

Service == INSTANCE EvaluateService WITH
    Ids <- Page!Upload, Roles <- Page!Roles,
    mode <- [overlap |-> TRUE, faults |-> ~reliable],
    request <- [c \in Calls |-> Request(c)],
    published <- {f.id : f \in texts}

ASSUME SystemAssumption == Page!PageAssumption /\ Service!MarksAssumption

page == <<hasFile, notice, loading, result, selected, settled, card,
          uploads, asks, sent>>
calm == <<reliable, page>>
shelf == <<texts, outcome>>
service == <<pc, prompt, proc, payload, reply, answer>>
vars == <<reliable, page, shelf, service>>

Init ==
    /\ reliable \in BOOLEAN
    /\ Page!Init /\ Store!Init /\ Service!Init

----------------------------------------------------------------------------
(* POST /upload, as ResumeStore promises it.                                 *)

Deposit(u) ==
    /\ texts' = texts \cup {[id |-> u, of |-> u]}
    /\ Store!Deposit
    /\ UNCHANGED <<calm, service>>

Serve(u) ==
    /\ u <= sent.uploads
    /\ \/ Deposit(u)
       \/ (Store!Publish(u) \/ Store!Refuse(u)) /\ UNCHANGED <<calm, service>>

\* Mutant: a refusal taken for a result.
EndAnyUpload(u) ==
    /\ outcome[u] # Store!Pending
    /\ Page!ShowRanking(u)
    /\ UNCHANGED <<reliable, shelf, service>>

EndUpload(u) ==
    /\ \/ outcome[u].kind = "published" /\ Page!ShowRanking(u)
       \/ outcome[u].kind = "refused" /\ (Page!ShowMessage(u) \/ Page!UploadRejected(u))
       \/ ~reliable /\ Page!UploadRejected(u)
    /\ UNCHANGED <<reliable, shelf, service>>

----------------------------------------------------------------------------
(* POST /evaluate.                                                           *)

\* The click on Generate or Retry; if not reliable the request may get lost.
\* Bound: users click after the effects have run (Frontend has both).
Ask ==
    /\ settled /\ Page!Ask
    /\ UNCHANGED <<reliable, shelf>>
    /\ \/ \E c \in Calls : c \in asks' \ asks /\ Service!Send(c)
       \/ ~reliable /\ UNCHANGED service

Run(c) ==
    /\ UNCHANGED <<calm, shelf>>
    /\ Service!Handle(c)

Command(c) ==
    /\ UNCHANGED <<calm, shelf>>
    /\ Service!Command(c)

Restart ==
    /\ ~reliable
    /\ UNCHANGED <<calm, shelf>>
    /\ Service!Restart

\* The page gets the answer to a.  The canned review names no resume, so to a
\* reader it is about the one asked for, as it is to the page, which cannot tell.
EndAsk(a) ==
    /\ \/ answer[a] \in Calls /\ Page!GetReview(a, answer[a].about)
       \/ answer[a] = Fallback /\ Page!GetReview(a, a.about)
       \/ answer[a] = Refusal /\ Page!GetError(a)
    /\ UNCHANGED <<reliable, shelf, service>>

\* The fetch fails while the server goes on.
LoseAnswer(a) ==
    /\ ~reliable
    /\ Page!GetError(a)
    /\ UNCHANGED <<reliable, shelf, service>>

----------------------------------------------------------------------------
User ==
    /\ Page!ChooseFile \/ Page!AnalyzeNothing \/ Page!Analyze \/ Page!Settle
       \/ \E r \in Page!Roles : Page!SelectRole(r)
    /\ UNCHANGED <<reliable, shelf, service>>

Next ==
    \/ User \/ Ask \/ Restart
    \/ \E u \in Page!Upload : Serve(u) \/ EndUpload(u)
    \/ \E c \in Calls : Run(c) \/ Command(c)
    \/ \E a \in asks : EndAsk(a) \/ LoseAnswer(a)

Spec == Init /\ [][Next]_vars

\* As in EvaluateService; the network delivers the answers that there are, and
\* a fetch ends when its call did not arrive or died with its server.
Fairness ==
    \A c \in Calls :
        /\ WF_vars(Run(c)) /\ WF_vars(c \in asks /\ EndAsk(c))
        /\ WF_vars(c \in asks /\ pc[c] \in {"unsent", "lost"} /\ LoseAnswer(c))
        /\ WF_vars(Command(c) /\ proc[c] # "sent")

FairSpec == Spec /\ Fairness

----------------------------------------------------------------------------
(* Properties.                                                               *)

\* End to end: the review a user reads was written about the resume whose
\* result is on the screen, through lost answers, retries, new uploads, old
\* curls, and files named by the id alone.
ReviewOfShownResume == Page!ReviewOfShownResume

\* The ids the page asks about are known: no user is told "Resume not found".
AsksFindTheirResume ==
    \A c \in Calls : pc[c] = "find" => \E f \in texts : f.id = c.about.upload

\* As long as no fetch, process, open, write or fork fails, one page keeps the
\* calls with one id apart, which main.cpp leaves to its callers: the composition
\* implements EvaluateService without Overlap, the discipline under which every
\* review is the caller's own.
Serial == INSTANCE EvaluateService WITH
    Ids <- Page!Upload, Roles <- Page!Roles,
    mode <- [overlap |-> ~reliable, faults |-> ~reliable],
    request <- [c \in Calls |-> Request(c)],
    published <- {f.id : f \in texts}
PageKeepsCallsApart == Serial!Spec

\* A click on Generate ends in a review or an error, or the card goes, unless a
\* curl does not come back.
GenerateEnds ==
    card.loading ~> (~card.loading \/ [](\E c \in Calls : proc[c] = "sent"))

\* App.js:235 "Get a personalized AI recruiter review of your resume for the
\* {role} role": what the page is sent is for the role it asked for.
ReviewForAskedRole ==
    \A a \in asks : answer[a] \in Calls => answer[a].about.role = a.about.role
=============================================================================
