------------------------- MODULE ReviewSystemProofs -------------------------
(* Proofs about ReviewSystem, for any rankings and any number of uploads and *)
(* of requests.  What is proved of the page and of POST /evaluate alone is   *)
(* taken over from FrontendProofs and EvaluateServiceProofs.                 *)
EXTENDS ReviewSystem, TLAPS

PageFacts == INSTANCE FrontendProofs

SerialFacts == INSTANCE EvaluateServiceProofs WITH
    Ids <- Page!Upload, Roles <- Page!Roles,
    mode <- [overlap |-> ~reliable, faults |-> ~reliable],
    request <- [c \in Calls |-> Request(c)],
    published <- {f.id : f \in texts}

----------------------------------------------------------------------------
(* The two instances of a module name the same things.                       *)

LEMMA Assumed == PageFacts!PageAssumption /\ SerialFacts!MarksAssumption
BY SystemAssumption
DEF Page!PageAssumption, PageFacts!PageAssumption, Page!Roles, PageFacts!Roles,
    Page!ToSet, PageFacts!ToSet, Service!MarksAssumption, SerialFacts!MarksAssumption

LEMMA PageSets ==
    /\ PageFacts!Upload = Page!Upload /\ PageFacts!Roles = Page!Roles
    /\ PageFacts!Reviews = Page!Reviews /\ PageFacts!Asks = Page!Asks
    /\ PageFacts!NoCard = Page!NoCard /\ PageFacts!NoResult = Page!NoResult
    /\ \A u : PageFacts!NewCard(u) = Page!NewCard(u) /\ PageFacts!Failed(u) = Page!Failed(u)
    /\ \A u, r : PageFacts!Ranked(u, r) = Page!Ranked(u, r)
BY DEF PageFacts!Upload, Page!Upload, PageFacts!Roles, Page!Roles, PageFacts!ToSet,
    Page!ToSet, PageFacts!Reviews, Page!Reviews, PageFacts!Asks, Page!Asks,
    PageFacts!NoCard, Page!NoCard, PageFacts!NoResult, Page!NoResult,
    PageFacts!NewCard, Page!NewCard, PageFacts!Failed, Page!Failed,
    PageFacts!Ranked, Page!Ranked

LEMMA PageCards ==
    /\ PageFacts!CardAsking = Page!CardAsking /\ PageFacts!CardReset = Page!CardReset
    /\ PageFacts!CardFailed = Page!CardFailed
    /\ \A r : PageFacts!CardReviewed(r) = Page!CardReviewed(r)
BY DEF PageFacts!CardAsking, Page!CardAsking, PageFacts!CardReset, Page!CardReset,
    PageFacts!CardFailed, Page!CardFailed, PageFacts!CardReviewed, Page!CardReviewed

LEMMA PageInit == Page!Init => PageFacts!Init
BY PageSets DEF Page!Init, PageFacts!Init

LEMMA UserSteps == User => [PageFacts!Next]_PageFacts!vars
<1> SUFFICES ASSUME User PROVE PageFacts!Next
  OBVIOUS
<1> USE DEF Page!panel, PageFacts!panel, Page!view, PageFacts!view, Page!net, PageFacts!net
<1>1. CASE Page!ChooseFile
  <2>1. PageFacts!ChooseFile
    BY <1>1 DEF Page!ChooseFile, PageFacts!ChooseFile
  <2> QED BY <2>1 DEF PageFacts!Next, PageFacts!User
<1>2. CASE Page!AnalyzeNothing
  <2>1. PageFacts!AnalyzeNothing
    BY <1>2 DEF Page!AnalyzeNothing, PageFacts!AnalyzeNothing
  <2> QED BY <2>1 DEF PageFacts!Next, PageFacts!User
<1>3. CASE Page!Analyze
  <2>1. PageFacts!Analyze
    BY <1>3, PageSets DEF Page!Analyze, PageFacts!Analyze, Page!ButtonEnabled,
       PageFacts!ButtonEnabled, Page!CardWhileLoading, PageFacts!CardWhileLoading
  <2> QED BY <2>1 DEF PageFacts!Next, PageFacts!User
<1>4. CASE Page!Settle
  <2>1. PageFacts!DefaultRole = Page!DefaultRole
    BY DEF Page!DefaultRole, PageFacts!DefaultRole
  <2>2. PageFacts!Settle
    BY <1>4, <2>1, PageCards DEF Page!Settle, PageFacts!Settle
  <2> QED BY <2>2 DEF PageFacts!Next
<1>5. ASSUME NEW r \in Page!Roles, Page!SelectRole(r) PROVE PageFacts!Next
  <2>1. PageFacts!SelectRole(r)
    BY <1>5 DEF Page!SelectRole, PageFacts!SelectRole, Page!ToSet, PageFacts!ToSet
  <2>2. r \in PageFacts!Roles
    BY PageSets
  <2> QED BY <2>1, <2>2 DEF PageFacts!Next, PageFacts!User
<1> QED BY <1>1, <1>2, <1>3, <1>4, <1>5 DEF User

LEMMA AskSteps == Page!Ask => PageFacts!Ask
BY PageSets, PageCards
DEF Page!Ask, PageFacts!Ask, Page!Offered, PageFacts!Offered, Page!panel,
    PageFacts!panel, Page!view, PageFacts!view

LEMMA EndUploadSteps ==
    ASSUME NEW u,
           Page!ShowRanking(u) \/ Page!ShowMessage(u) \/ Page!UploadRejected(u)
    PROVE  PageFacts!EndUpload(u) /\ u \in uploads
<1>1. ASSUME NEW r, NEW text, Page!ShowUpload(u, r, text)
      PROVE  PageFacts!ShowUpload(u, r, text) /\ u \in uploads
  BY <1>1, PageSets DEF Page!ShowUpload, PageFacts!ShowUpload
<1> QED
  BY <1>1, PageSets DEF Page!ShowRanking, Page!ShowMessage, Page!UploadRejected,
     PageFacts!EndUpload, PageFacts!ShowRanking, PageFacts!ShowMessage,
     PageFacts!UploadRejected

LEMMA EndAskSteps ==
    ASSUME NEW a
    PROVE  /\ Page!GetError(a) => a \in asks /\ PageFacts!GetError(a)
           /\ \A r : Page!GetReview(a, r) =>
                a \in asks /\ PageFacts!EndAsk(a, PageFacts!CardReviewed(r))
<1>1. ASSUME NEW shown, Page!EndAsk(a, shown)
      PROVE  a \in asks /\ PageFacts!EndAsk(a, shown)
  BY <1>1 DEF Page!EndAsk, PageFacts!EndAsk, Page!panel, PageFacts!panel,
     Page!view, PageFacts!view
<1> QED
  BY <1>1, PageCards DEF Page!GetError, Page!GetReview, PageFacts!GetError
----------------------------------------------------------------------------
(* The steps of POST /evaluate are steps of EvaluateService, in either mode. *)

LEMMA HandlerSteps ==
    ASSUME NEW c \in Calls, Service!Handle(c), UNCHANGED <<reliable, texts>>
    PROVE  Serial!Handle(c) /\ SerialFacts!Handle(c)
BY DEF Service!Handle, Serial!Handle, SerialFacts!Handle, Service!Parse,
    Serial!Parse, SerialFacts!Parse, Service!RejectInvalid,
    Serial!RejectInvalid, SerialFacts!RejectInvalid, Service!FindResume,
    Serial!FindResume, SerialFacts!FindResume, Service!ResumeNotFound,
    Serial!ResumeNotFound, SerialFacts!ResumeNotFound, Service!Prepare,
    Serial!Prepare, SerialFacts!Prepare, Service!CannotPrepare,
    Serial!CannotPrepare, SerialFacts!CannotPrepare, Service!OpenPayload,
    Serial!OpenPayload, SerialFacts!OpenPayload, Service!OpenPayloadFails,
    Serial!OpenPayloadFails, SerialFacts!OpenPayloadFails,
    Service!WritePayload, Serial!WritePayload, SerialFacts!WritePayload,
    Service!Spawn, Serial!Spawn, SerialFacts!Spawn, Service!Returned,
    Serial!Returned, SerialFacts!Returned, Service!ReadReply,
    Serial!ReadReply, SerialFacts!ReadReply, Service!Written, Serial!Written,
    SerialFacts!Written, Service!Goto, Serial!Goto, SerialFacts!Goto,
    Service!Reply, Serial!Reply, SerialFacts!Reply, Service!given,
    Serial!given, SerialFacts!given, Service!files, Serial!files,
    SerialFacts!files, Service!Id, Serial!Id, SerialFacts!Id, Service!FileOf,
    Serial!FileOf, SerialFacts!FileOf

LEMMA CommandSteps ==
    ASSUME NEW c \in Calls, Service!Command(c), UNCHANGED <<reliable, texts>>
    PROVE  Serial!Command(c) /\ SerialFacts!Command(c)
BY DEF Service!Command, Serial!Command, SerialFacts!Command, Service!Redirect,
    Serial!Redirect, SerialFacts!Redirect, Service!CurlReads,
    Serial!CurlReads, SerialFacts!CurlReads, Service!CurlEnds,
    Serial!CurlEnds, SerialFacts!CurlEnds, Service!Written, Serial!Written,
    SerialFacts!Written, Service!given, Serial!given, SerialFacts!given,
    Service!files, Serial!files, SerialFacts!files, Service!Id, Serial!Id,
    SerialFacts!Id, Service!FileOf, Serial!FileOf, SerialFacts!FileOf

\* A call is only sent alone if no other call with its id is at work.
LEMMA SendSteps ==
    ASSUME NEW c \in Calls, Service!Send(c), UNCHANGED <<reliable, texts>>,
           ~reliable \/ \A d \in Calls : d.about.upload = c.about.upload => ~Serial!AtWork(d)
    PROVE  Serial!Send(c) /\ SerialFacts!Send(c)
<1>1. \A d \in Calls : Serial!Id(d) = d.about.upload /\ SerialFacts!Id(d) = d.about.upload
  BY DEF Serial!Id, SerialFacts!Id, Request
<1>2. \A d \in Calls : SerialFacts!AtWork(d) = Serial!AtWork(d)
  BY DEF Serial!AtWork, SerialFacts!AtWork, Serial!Busy, SerialFacts!Busy
<1> QED
  BY <1>1, <1>2 DEF Service!Send, Serial!Send, SerialFacts!Send, Service!Goto, Serial!Goto,
     SerialFacts!Goto, Service!given, Serial!given, SerialFacts!given,
     Service!files, Serial!files, SerialFacts!files

LEMMA RestartSteps ==
    ASSUME Service!Restart, UNCHANGED <<reliable, texts>>
    PROVE  Serial!Restart /\ SerialFacts!Restart
BY DEF Service!Restart, Serial!Restart, SerialFacts!Restart, Service!Busy,
    Serial!Busy, SerialFacts!Busy, Service!given, Serial!given,
    SerialFacts!given, Service!files, Serial!files, SerialFacts!files

\* What POST /upload does for u is at most a text deposited under u.
LEMMA ServeSteps ==
    ASSUME NEW u \in Page!Upload, Serve(u)
    PROVE  /\ Serial!Deposit(u) \/ UNCHANGED Serial!vars
           /\ SerialFacts!Deposit(u) \/ UNCHANGED SerialFacts!vars
<1> USE DEF service, calm, Serial!files, SerialFacts!files, Serial!vars, SerialFacts!vars,
            Serial!given, SerialFacts!given, Serial!Deposit,
            SerialFacts!Deposit
<1>1. CASE Deposit(u)
  <2> DEFINE text == [id |-> u, of |-> u]
  <2>1. texts' = texts \cup {text} /\ UNCHANGED <<reliable, service>>
    BY <1>1 DEF Deposit
  <2>2. text.id = u
    OBVIOUS
  <2> HIDE DEF text
  <2>3. {f.id : f \in texts'} = {f.id : f \in texts} \cup {u}
    BY <2>1, <2>2
  <2> QED BY <2>1, <2>3
<1>2. CASE (Store!Publish(u) \/ Store!Refuse(u)) /\ UNCHANGED <<calm, service>>
  BY <1>2 DEF Store!Publish, Store!Refuse
<1> QED BY <1>1, <1>2 DEF Serve

----------------------------------------------------------------------------
(* The inductive invariant.                                                  *)

HasText(u) == \E f \in texts : f.id = u

\* What ResumeStore publishes is on its shelf.
OnShelf ==
    /\ texts \subseteq {[id |-> u, of |-> u] : u \in Page!Upload}
    /\ DOMAIN outcome = Page!Upload
    /\ \A u \in Page!Upload : outcome[u].kind = "published" => HasText(u)

\* A result that shows roles, and a call that was sent, name a text there is.
KnownIds ==
    /\ result.kind = "roles" => HasText(result.upload)
    /\ \A c \in Calls : pc[c] # "unsent" => HasText(c.about.upload)

\* A card asks for a role: the default one is one as long as there is a card.
RoleChosen ==
    /\ card.mount # 0 => result.best # NoRole /\ (settled => selected # NoRole)
    /\ asks \subseteq Calls

\* Unless something fails, the page knows of every handler, shell and curl: it
\* waits for it.
WorkIsAsked == reliable => \A c \in Calls : Serial!AtWork(c) => c \in asks

SystemInv ==
    /\ PageFacts!PageInv
    /\ SerialFacts!TypeOK /\ SerialFacts!SameId /\ SerialFacts!InOrder
    /\ OnShelf /\ KnownIds /\ RoleChosen /\ WorkIsAsked

LEMMA SystemInit == Init => SystemInv
<1> SUFFICES ASSUME Init PROVE SystemInv
  OBVIOUS
<1>1. PageFacts!PageInv
  BY Assumed, PageInit, PageFacts!InitInv DEF Init
<1>2. SerialFacts!Init /\ texts = {}
  BY DEF Init, Store!Init, Service!Init, SerialFacts!Init
<1>3. SerialFacts!TypeOK /\ SerialFacts!SameId /\ SerialFacts!InOrder
  BY <1>2, Assumed, SerialFacts!SerialInit, SerialFacts!SameIdInit, SerialFacts!InOrderInit
<1>4. OnShelf
  BY DEF Init, Store!Init, Store!Pending, OnShelf
<1>5. KnownIds /\ RoleChosen
  BY DEF Init, Page!Init, Page!NoResult, Page!NoCard, Service!Init, KnownIds, RoleChosen
<1>6. WorkIsAsked
  BY DEF Init, Service!Init, WorkIsAsked, Serial!AtWork, Serial!Busy
<1> QED BY <1>1, <1>3, <1>4, <1>5, <1>6 DEF SystemInv

----------------------------------------------------------------------------
(* Every step is one of EvaluateService, in the mode of the page.            *)

\* A step of the page or of its network leaves the server alone.
LEMMA QuietSteps ==
    ASSUME UNCHANGED <<reliable, shelf, service>>
    PROVE  UNCHANGED Serial!vars /\ UNCHANGED SerialFacts!vars
BY DEF shelf, service, Serial!vars, Serial!given, Serial!files, SerialFacts!vars,
    SerialFacts!given, SerialFacts!files

\* A card that offers to ask has no ask in flight, and the ask it makes is for
\* the resume it was mounted for, and for a role.
LEMMA AskIsAlone ==
    ASSUME SystemInv, settled, Page!Ask, NEW c \in asks' \ asks
    PROVE  /\ result.kind = "roles" /\ c.about.upload = result.upload
           /\ asks' = asks \cup {c} /\ c \in Calls
           /\ \A d \in asks : d.about.upload # c.about.upload
<1>1. PageFacts!Ask /\ PageFacts!PageInv
  BY AskSteps DEF SystemInv
<1>2. PageFacts!PageInv'
  BY <1>1, Assumed, PageFacts!AskStep
<1>3. /\ card.mount # 0 /\ c.mount = card.mount /\ asks' = asks \cup {c}
      /\ c.about = [upload |-> result.upload, role |-> selected]
  BY DEF Page!Ask
<1>4. result.kind = "roles" /\ result.upload = card.mount /\ selected # NoRole
  BY <1>1, <1>3 DEF PageFacts!PageInv, PageFacts!CardOfResult, SystemInv, RoleChosen
<1>5. ~card.loading
  BY <1>1 DEF PageFacts!Ask, PageFacts!Offered, PageFacts!PageInv, PageFacts!OneFace
<1>6. \A d \in asks : d.mount # card.mount /\ d.mount = d.about.upload
  BY <1>1, <1>5 DEF PageFacts!PageInv, PageFacts!SpinnersHaveOneFetch, PageFacts!AsksAreOld
<1>7. c \in Page!Asks
  BY <1>2, PageSets DEF PageFacts!PageInv, PageFacts!TypeOK
<1>8. c.about.upload = result.upload /\ c.about.role # NoRole
  BY <1>3, <1>4
<1> QED BY <1>3, <1>4, <1>6, <1>7, <1>8 DEF Calls

LEMMA SerialStep ==
    SystemInv /\ [Next]_vars => [Serial!Next]_Serial!vars /\ [SerialFacts!Next]_SerialFacts!vars
<1> SUFFICES ASSUME SystemInv, [Next]_vars
    PROVE [Serial!Next]_Serial!vars /\ [SerialFacts!Next]_SerialFacts!vars
  OBVIOUS
<1>1. CASE User \/ UNCHANGED vars
           \/ (\E u \in Page!Upload : EndUpload(u))
           \/ (\E a \in asks : EndAsk(a) \/ LoseAnswer(a))
  <2>1. UNCHANGED <<reliable, shelf, service>>
    BY <1>1 DEF User, vars, EndUpload, EndAsk, LoseAnswer
  <2> QED BY <2>1, QuietSteps
<1>2. CASE Ask
  <2>1. CASE UNCHANGED service
    BY <1>2, <2>1, QuietSteps DEF Ask
  <2>2. ASSUME NEW c \in Calls, c \in asks' \ asks, Service!Send(c)
        PROVE  Serial!Send(c) /\ SerialFacts!Send(c)
    <3>1. \A d \in asks : d.about.upload # c.about.upload
      BY <1>2, <2>2, AskIsAlone DEF Ask
    <3>2. ~reliable \/ \A d \in Calls : d.about.upload = c.about.upload => ~Serial!AtWork(d)
      BY <3>1 DEF SystemInv, WorkIsAsked
    <3>3. UNCHANGED <<reliable, texts>>
      BY <1>2 DEF Ask, shelf
    <3> QED BY <2>2, <3>2, <3>3, SendSteps
  <2> QED BY <1>2, <2>1, <2>2 DEF Ask, Serial!Next, SerialFacts!Next
<1>3. CASE Restart
  <2>1. Serial!Restart /\ SerialFacts!Restart
    BY <1>3, RestartSteps DEF Restart, calm, shelf
  <2> QED BY <2>1 DEF Serial!Next, SerialFacts!Next
<1>4. ASSUME NEW u \in Page!Upload, Serve(u)
      PROVE [Serial!Next]_Serial!vars /\ [SerialFacts!Next]_SerialFacts!vars
  BY <1>4, ServeSteps DEF Serial!Next, SerialFacts!Next
<1>5. ASSUME NEW c \in Calls, Run(c) \/ Command(c)
      PROVE Serial!Next /\ SerialFacts!Next
  <2>1. /\ Serial!Handle(c) \/ Serial!Command(c)
        /\ SerialFacts!Handle(c) \/ SerialFacts!Command(c)
    BY <1>5, HandlerSteps, CommandSteps DEF Run, Command, calm, shelf
  <2> QED BY <2>1 DEF Serial!Next, SerialFacts!Next
<1> QED BY <1>1, <1>2, <1>3, <1>4, <1>5 DEF Next

----------------------------------------------------------------------------
(* Every step keeps the invariant.                                           *)

\* The steps that are not the page's own leave the page alone.
LEMMA PageStays ==
    ASSUME PageFacts!PageInv, UNCHANGED page PROVE PageFacts!PageInv'
<1>1. UNCHANGED PageFacts!vars
  BY DEF page, PageFacts!vars, PageFacts!panel, PageFacts!view, PageFacts!net
<1> QED BY <1>1, Assumed, PageFacts!PageStep

\* What the page gets for a is about the resume it asked about, if not always
\* for the role.
LEMMA AnswerIsAboutAsked ==
    ASSUME SystemInv, NEW a \in asks, answer[a] \in Calls
    PROVE  answer[a].about \in PageFacts!Reviews /\ answer[a].about.upload = a.about.upload
<1>1. a \in Calls
  BY DEF SystemInv, RoleChosen
<1>2. SerialFacts!Id(answer[a]) = SerialFacts!Id(a)
  BY <1>1 DEF SystemInv, SerialFacts!SameId, SerialFacts!ReviewOfOwnResume
<1>3. answer[a].about.upload = a.about.upload
  BY <1>1, <1>2 DEF SerialFacts!Id, Request
<1> QED BY <1>3, PageSets DEF Calls, Page!Asks

LEMMA PageStep == SystemInv /\ [Next]_vars => PageFacts!PageInv'
<1> SUFFICES ASSUME SystemInv, [Next]_vars PROVE PageFacts!PageInv'
  OBVIOUS
<1>0. PageFacts!PageInv
  BY DEF SystemInv
<1>1. CASE User
  BY <1>0, <1>1, Assumed, UserSteps, PageFacts!PageStep
<1>2. CASE Ask
  BY <1>0, <1>2, Assumed, AskSteps, PageFacts!AskStep DEF Ask
<1>3. ASSUME NEW u \in Page!Upload, EndUpload(u) PROVE PageFacts!PageInv'
  <2>1. PageFacts!EndUpload(u) /\ u \in uploads
    BY <1>3, EndUploadSteps DEF EndUpload
  <2> QED BY <1>0, <2>1, Assumed, PageFacts!PageStep DEF PageFacts!Next
<1>4. ASSUME NEW a \in asks, Page!GetError(a) PROVE PageFacts!PageInv'
  <2>1. PageFacts!GetError(a)
    BY <1>4, EndAskSteps
  <2> QED BY <1>0, <2>1, Assumed, PageFacts!PageStep DEF PageFacts!Next
<1>5. ASSUME NEW a \in asks, NEW r \in PageFacts!Reviews, r.upload = a.about.upload,
             Page!GetReview(a, r)
      PROVE  PageFacts!PageInv'
  <2>1. PageFacts!EndAsk(a, PageFacts!CardReviewed(r))
    BY <1>5, EndAskSteps
  <2>2. card \in PageFacts!Cards
    BY <1>0 DEF PageFacts!PageInv, PageFacts!TypeOK
  <2>3. /\ PageFacts!CardReviewed(r) \in PageFacts!Cards
        /\ PageFacts!CardReviewed(r).mount = card.mount
        /\ PageFacts!CardReviewed(r).feedback = r
        /\ ~PageFacts!CardReviewed(r).loading
        /\ PageFacts!CardReviewed(r).error = card.error
    BY <2>2, <1>5, Assumed, PageFacts!Reviewed
  <2> HIDE DEF PageFacts!CardReviewed
  <2> QED BY <1>0, <1>5, <2>1, <2>3, Assumed, PageFacts!EndAskStep
<1>6. ASSUME NEW a \in asks, EndAsk(a) \/ LoseAnswer(a) PROVE PageFacts!PageInv'
  <2>1. a.about \in PageFacts!Reviews
    BY <1>0 DEF PageFacts!PageInv, PageFacts!TypeOK, PageFacts!Asks
  <2> QED BY <1>4, <1>5, <1>6, <2>1, AnswerIsAboutAsked DEF EndAsk, LoseAnswer
<1>7. CASE UNCHANGED vars \/ Restart
           \/ (\E u \in Page!Upload : Serve(u)) \/ (\E c \in Calls : Run(c) \/ Command(c))
  <2>1. UNCHANGED page
    BY <1>7 DEF vars, Restart, Serve, Deposit, Run, Command, calm
  <2> QED BY <1>0, <2>1, PageStays
<1> QED BY <1>1, <1>2, <1>3, <1>6, <1>7 DEF Next

LEMMA ServiceStep ==
    SystemInv /\ [Next]_vars =>
        (SerialFacts!TypeOK /\ SerialFacts!SameId /\ SerialFacts!InOrder)'
<1> SUFFICES ASSUME SystemInv, [Next]_vars
    PROVE (SerialFacts!TypeOK /\ SerialFacts!SameId /\ SerialFacts!InOrder)'
  OBVIOUS
<1>1. SerialFacts!TypeOK /\ SerialFacts!SameId /\ SerialFacts!InOrder
      /\ [SerialFacts!Next]_SerialFacts!vars
  BY SerialStep DEF SystemInv
<1> QED BY <1>1, Assumed, SerialFacts!TypeStep, SerialFacts!SameIdStep, SerialFacts!InOrderStep

\* The shelf only grows, and holds the text of every id it publishes.
LEMMA ShelfStep == SystemInv /\ [Next]_vars => OnShelf' /\ texts \subseteq texts'
<1> SUFFICES ASSUME SystemInv, [Next]_vars PROVE OnShelf' /\ texts \subseteq texts'
  OBVIOUS
<1>0. OnShelf
  BY DEF SystemInv
<1>1. CASE UNCHANGED shelf
  BY <1>0, <1>1 DEF shelf, OnShelf, HasText
<1>2. ASSUME NEW u \in Page!Upload, Deposit(u) PROVE OnShelf' /\ texts \subseteq texts'
  <2>1. texts' = texts \cup {[id |-> u, of |-> u]} /\ UNCHANGED outcome
    BY <1>2 DEF Deposit, Store!Deposit
  <2> QED BY <1>0, <2>1 DEF OnShelf, HasText
<1>3. ASSUME NEW u \in Page!Upload, Store!Publish(u) PROVE OnShelf' /\ texts \subseteq texts'
  <2>1. PICK f \in texts : f.of = u /\ outcome' = [outcome EXCEPT ![u] = Store!Published(f.id)]
    BY <1>3 DEF Store!Publish
  <2>2. f.id = u /\ texts' = texts
    BY <1>0, <1>3, <2>1 DEF OnShelf, Store!Publish
  <2> QED BY <1>0, <2>1, <2>2 DEF OnShelf, HasText
<1>4. ASSUME NEW u \in Page!Upload, Store!Refuse(u) PROVE OnShelf' /\ texts \subseteq texts'
  <2>1. Store!Refused.kind # "published"
    BY DEF Store!Refused
  <2> QED BY <1>0, <1>4, <2>1 DEF OnShelf, HasText, Store!Refuse
<1> QED
  BY <1>1, <1>2, <1>3, <1>4 DEF Next, vars, Serve, User, Ask, Restart, EndUpload, Run,
     Command, EndAsk, LoseAnswer

\* Only a published id gets onto the page, and from there into a call.
LEMMA KnownStep == SystemInv /\ [Next]_vars => KnownIds'
<1> SUFFICES ASSUME SystemInv, [Next]_vars PROVE KnownIds'
  OBVIOUS
<1>0. KnownIds /\ OnShelf /\ PageFacts!PageInv
  BY DEF SystemInv
<1>1. \A u : HasText(u) => HasText(u)'
  BY ShelfStep DEF HasText
<1>2. CASE Ask
  <2>1. result' = result
    BY <1>2 DEF Ask, Page!Ask, Page!view
  <2>2. CASE UNCHANGED service
    BY <1>0, <1>1, <2>1, <2>2 DEF service, KnownIds
  <2>3. ASSUME NEW c \in Calls, c \in asks' \ asks, Service!Send(c) PROVE KnownIds'
    <3>1. HasText(c.about.upload)
      BY <1>0, <1>2, <2>3, AskIsAlone DEF Ask, KnownIds
    <3>2. \A d \in Calls : d # c => pc'[d] = pc[d]
      BY <2>3 DEF Service!Send, Service!Goto, SystemInv, SerialFacts!TypeOK
    <3> QED BY <1>0, <1>1, <2>1, <3>1, <3>2 DEF KnownIds
  <2> QED BY <1>2, <2>2, <2>3 DEF Ask
<1>3. ASSUME NEW u \in Page!Upload, EndUpload(u) PROVE KnownIds'
  <2>1. pc' = pc
    BY <1>3 DEF EndUpload, service
  <2>2. CASE outcome[u].kind = "published" /\ Page!ShowRanking(u)
    <3>1. HasText(u)
      BY <1>0, <2>2 DEF OnShelf
    <3>2. result'.upload = u
      BY <2>2 DEF Page!ShowRanking, Page!ShowUpload, Page!Ranked
    <3> QED BY <1>0, <1>1, <2>1, <3>1, <3>2 DEF KnownIds
  <2>3. CASE Page!ShowMessage(u) \/ Page!UploadRejected(u)
    <3>1. result'.kind # "roles"
      BY <2>3 DEF Page!ShowMessage, Page!UploadRejected, Page!ShowUpload, Page!Failed,
         Page!NoResult
    <3> QED BY <1>0, <1>1, <2>1, <3>1 DEF KnownIds
  <2> QED BY <1>3, <2>2, <2>3 DEF EndUpload
<1>4. CASE User
  <2>1. pc' = pc
    BY <1>4 DEF User, service
  <2>2. result' = result \/ result'.kind # "roles"
    BY <1>4 DEF User, Page!ChooseFile, Page!AnalyzeNothing, Page!Analyze, Page!Settle,
       Page!SelectRole, Page!view, Page!NoResult
  <2> QED BY <1>0, <1>1, <2>1, <2>2 DEF KnownIds
<1>5. ASSUME NEW c \in Calls, Run(c) \/ Command(c) PROVE KnownIds'
  <2>1. result' = result
    BY <1>5 DEF Run, Command, calm, page
  <2>2. \A d \in Calls : pc'[d] = pc[d] \/ pc[d] # "unsent"
    BY <1>5 DEF Run, Command, SystemInv, SerialFacts!TypeOK, Service!Handle, Service!Goto,
       Service!Reply, Service!Parse, Service!RejectInvalid, Service!FindResume,
       Service!ResumeNotFound, Service!Prepare, Service!CannotPrepare,
       Service!OpenPayload, Service!OpenPayloadFails, Service!WritePayload,
       Service!Spawn, Service!Returned, Service!ReadReply, Service!Command,
       Service!Redirect, Service!CurlReads, Service!CurlEnds
  <2> QED BY <1>0, <1>1, <2>1, <2>2 DEF KnownIds
<1>6. CASE Restart
  <2>1. result' = result /\ \A d \in Calls : pc'[d] = pc[d] \/ pc[d] # "unsent"
    BY <1>6 DEF Restart, calm, page, Service!Restart, Service!Busy
  <2> QED BY <1>0, <1>1, <2>1 DEF KnownIds
<1>7. CASE UNCHANGED vars \/ (\E u \in Page!Upload : Serve(u))
           \/ (\E a \in asks : EndAsk(a) \/ LoseAnswer(a))
  <2>1. UNCHANGED <<result, pc>>
    BY <1>7 DEF vars, Serve, Deposit, EndAsk, LoseAnswer, calm, page, service,
       Page!GetReview, Page!GetError, Page!EndAsk, Page!view
  <2> QED BY <1>0, <1>1, <2>1 DEF KnownIds
<1> QED BY <1>2, <1>3, <1>4, <1>5, <1>6, <1>7 DEF Next

\* A card comes with a best role, and no click takes the choice back.
LEMMA RoleStep == SystemInv /\ [Next]_vars => RoleChosen'
<1> SUFFICES ASSUME SystemInv, [Next]_vars PROVE RoleChosen'
  OBVIOUS
<1>0. RoleChosen /\ PageFacts!PageInv
  BY DEF SystemInv
<1>1. CASE Ask
  <2>1. asks' \subseteq Calls
    <3>1. \A c \in asks' \ asks : c \in Calls
      BY <1>1, AskIsAlone DEF Ask
    <3> QED BY <1>0, <3>1 DEF RoleChosen
  <2>2. card'.mount = card.mount /\ UNCHANGED <<result, settled, selected>>
    <3>1. card' = Page!CardAsking /\ UNCHANGED <<result, settled, selected>>
      BY <1>1 DEF Ask, Page!Ask, Page!view
    <3>2. card \in PageFacts!Cards
      BY <1>0 DEF PageFacts!PageInv, PageFacts!TypeOK
    <3> QED BY <3>1, <3>2, PageCards, Assumed, PageFacts!Asking
  <2> QED BY <1>0, <2>1, <2>2 DEF RoleChosen
<1>2. ASSUME NEW u \in Page!Upload, NEW r, NEW text, Page!ShowUpload(u, r, text)
      PROVE RoleChosen'
  <2>1. card.mount = 0
    <3>1. loading
      BY <1>0, <1>2 DEF Page!ShowUpload, PageFacts!PageInv, PageFacts!SpinnersHaveOneFetch
    <3> QED BY <1>0, <3>1 DEF PageFacts!PageInv, PageFacts!CardOfResult
  <2>2. r.best = NoRole => card'.mount = 0
    BY <1>2 DEF Page!ShowUpload, Page!NoCard
  <2>3. result' = r /\ ~settled' /\ asks' = asks
    BY <1>2 DEF Page!ShowUpload
  <2> QED BY <1>0, <2>2, <2>3 DEF RoleChosen
<1>3. ASSUME NEW u \in Page!Upload, EndUpload(u) PROVE RoleChosen'
  BY <1>2, <1>3 DEF EndUpload, Page!ShowRanking, Page!ShowMessage, Page!UploadRejected
<1>4. CASE Page!Settle
  <2>1. card'.mount = card.mount
    <3>1. card \in PageFacts!Cards
      BY <1>0 DEF PageFacts!PageInv, PageFacts!TypeOK
    <3> QED BY <1>4, <3>1, PageCards, Assumed, PageFacts!Reset DEF Page!Settle
  <2>2. result' = result /\ asks' = asks /\ selected' = Page!DefaultRole
    BY <1>4 DEF Page!Settle, Page!net
  <2>3. result.best # NoRole => Page!DefaultRole = result.best
    BY DEF Page!DefaultRole
  <2> QED BY <1>0, <2>1, <2>2, <2>3 DEF RoleChosen
<1>5. CASE Page!Analyze
  <2>1. card'.mount = 0 /\ asks' = asks
    BY <1>5 DEF Page!Analyze, Page!CardWhileLoading, Page!NoCard
  <2> QED BY <1>0, <2>1 DEF RoleChosen
<1>6. ASSUME NEW r \in Page!Roles, Page!SelectRole(r) PROVE RoleChosen'
  <2>1. r # NoRole
    BY DEF Page!Roles
  <2> QED BY <1>0, <1>6, <2>1 DEF RoleChosen, Page!SelectRole, Page!net
<1>7. CASE Page!ChooseFile \/ Page!AnalyzeNothing
  BY <1>0, <1>7 DEF RoleChosen, Page!ChooseFile, Page!AnalyzeNothing, Page!view, Page!net
<1>8. CASE User
  BY <1>4, <1>5, <1>6, <1>7, <1>8 DEF User
<1>9. ASSUME NEW a \in asks, EndAsk(a) \/ LoseAnswer(a) PROVE RoleChosen'
  <2>1. asks' \subseteq asks /\ UNCHANGED <<result, settled, selected>>
    BY <1>9 DEF EndAsk, LoseAnswer, Page!GetReview, Page!GetError, Page!EndAsk, Page!view
  <2>2. card'.mount = card.mount
    <3>1. card \in PageFacts!Cards /\ \A r : Page!CardReviewed(r) = PageFacts!CardReviewed(r)
      BY <1>0, PageCards DEF PageFacts!PageInv, PageFacts!TypeOK
    <3>2. \A r : PageFacts!CardReviewed(r).mount = card.mount
      BY <3>1 DEF PageFacts!CardReviewed, PageFacts!Cards
    <3>3. PageFacts!CardFailed.mount = card.mount
      BY <3>1, Assumed, PageFacts!FailedCard
    <3>4. card' \in {card, Page!CardFailed} \/ \E r : card' = Page!CardReviewed(r)
      BY <1>9 DEF EndAsk, LoseAnswer, Page!GetReview, Page!GetError, Page!EndAsk
    <3> QED BY <3>1, <3>2, <3>3, <3>4, PageCards
  <2> QED BY <1>0, <2>1, <2>2 DEF RoleChosen
<1>10. CASE UNCHANGED vars \/ Restart
           \/ (\E u \in Page!Upload : Serve(u)) \/ (\E c \in Calls : Run(c) \/ Command(c))
  <2>1. UNCHANGED <<card, result, settled, selected, asks>>
    BY <1>10 DEF vars, Restart, Serve, Deposit, Run, Command, calm, page
  <2> QED BY <1>0, <2>1 DEF RoleChosen
<1> QED BY <1>1, <1>3, <1>8, <1>9, <1>10 DEF Next

\* Only calls at work do anything, and one that is answered is at work no more.
LEMMA WorkStep == SystemInv /\ [Next]_vars => WorkIsAsked'
<1> SUFFICES ASSUME SystemInv, [Next]_vars, reliable', NEW c \in Calls, Serial!AtWork(c)'
    PROVE c \in asks'
  BY DEF WorkIsAsked
<1> USE DEF Serial!AtWork, Serial!Busy
<1>0. reliable
  BY DEF Next, User, Ask, Restart, Serve, Deposit, EndUpload, Run, Command, EndAsk,
     LoseAnswer, calm, vars
<1>1. Serial!AtWork(c) => c \in asks
  BY <1>0 DEF SystemInv, WorkIsAsked
<1>2. CASE Ask
  <2>1. PICK d \in Calls : d \in asks' \ asks /\ Service!Send(d)
    BY <1>0, <1>2 DEF Ask
  <2>2. proc' = proc /\ (c # d => pc'[c] = pc[c])
    BY <2>1 DEF Service!Send, Service!Goto, SystemInv, SerialFacts!TypeOK
  <2>3. asks \subseteq asks'
    BY <1>2 DEF Ask, Page!Ask
  <2> QED BY <1>1, <2>1, <2>2, <2>3
<1>3. ASSUME NEW a \in asks, EndAsk(a) PROVE c \in asks'
  <2>1. asks' = asks \ {a} /\ UNCHANGED <<pc, proc>>
    BY <1>3 DEF EndAsk, Page!GetReview, Page!GetError, Page!EndAsk, service
  <2>2. answer[a] # Unanswered
    BY <1>3, Assumed DEF EndAsk, SerialFacts!MarksAssumption
  <2>3. a \in Calls /\ SerialFacts!InOrder
    BY DEF SystemInv, RoleChosen
  <2>4. pc[a] = "answered" /\ proc[a] \in {"none", "done"}
    BY <2>2, <2>3 DEF SerialFacts!InOrder
  <2> QED BY <1>1, <2>1, <2>4
<1>4. ASSUME NEW d \in Calls, Run(d) \/ Command(d) PROVE c \in asks'
  <2>1. asks' = asks
    BY <1>4 DEF Run, Command, calm, page
  <2>2. d # c => pc'[c] = pc[c] /\ proc'[c] = proc[c]
    BY <1>4 DEF Run, Command, SystemInv, SerialFacts!TypeOK, Service!Handle, Service!Goto,
       Service!Reply, Service!Parse, Service!RejectInvalid, Service!FindResume,
       Service!ResumeNotFound, Service!Prepare, Service!CannotPrepare,
       Service!OpenPayload, Service!OpenPayloadFails, Service!WritePayload,
       Service!Spawn, Service!Returned, Service!ReadReply, Service!Command,
       Service!Redirect, Service!CurlReads, Service!CurlEnds
  <2>3. Serial!AtWork(d)
    BY <1>4 DEF Run, Command, Service!Handle, Service!Goto,
       Service!Reply, Service!Parse, Service!RejectInvalid, Service!FindResume,
       Service!ResumeNotFound, Service!Prepare, Service!CannotPrepare,
       Service!OpenPayload, Service!OpenPayloadFails, Service!WritePayload,
       Service!Spawn, Service!Returned, Service!ReadReply, Service!Command,
       Service!Redirect, Service!CurlReads, Service!CurlEnds
  <2> QED BY <1>1, <2>1, <2>2, <2>3
<1>5. CASE User \/ UNCHANGED vars \/ (\E u \in Page!Upload : Serve(u) \/ EndUpload(u))
  <2>1. UNCHANGED <<asks, pc, proc>>
    BY <1>5 DEF vars, User, Serve, Deposit, EndUpload, calm, page, service, Page!net,
       Page!ChooseFile, Page!AnalyzeNothing, Page!Analyze, Page!Settle, Page!SelectRole,
       Page!ShowRanking, Page!ShowMessage, Page!UploadRejected, Page!ShowUpload
  <2> QED BY <1>1, <2>1
<1> QED BY <1>0, <1>2, <1>3, <1>4, <1>5 DEF Next, Restart, LoseAnswer

LEMMA SystemInvariant == Spec => []SystemInv
<1>1. SystemInv /\ [Next]_vars => SystemInv'
  BY PageStep, ServiceStep, ShelfStep, KnownStep, RoleStep, WorkStep DEF SystemInv
<1> QED BY <1>1, SystemInit, PTL DEF Spec

----------------------------------------------------------------------------
(* The theorems.                                                             *)

\* The review a user reads is of the resume whose result is on the screen.
THEOREM ShownResumeIsReviewed == Spec => []ReviewOfShownResume
<1>1. SystemInv => ReviewOfShownResume
  BY DEF SystemInv, PageFacts!PageInv, PageFacts!ReviewOfCard, PageFacts!CardOfResult,
     ReviewOfShownResume, Page!ReviewOfShownResume
<1> QED BY <1>1, SystemInvariant, PTL

\* No user of the page is told "Resume not found".
THEOREM AsksAreOfKnownResumes == Spec => []AsksFindTheirResume
<1>1. SystemInv => AsksFindTheirResume
  BY DEF SystemInv, KnownIds, HasText, AsksFindTheirResume
<1> QED BY <1>1, SystemInvariant, PTL

\* With a server that refuses, answers late, answers for another role, dies or
\* loses answers, the page still shows the result of the last upload, and one
\* fetch for each of its spinners.
THEOREM PageKeepsItsPromises ==
    Spec => [](Page!ResultOfLastUpload /\ Page!SpinnersHaveOneFetch)
<1>1. SystemInv => Page!ResultOfLastUpload /\ Page!SpinnersHaveOneFetch
  BY DEF SystemInv, PageFacts!PageInv, PageFacts!ResultOfLastUpload, Page!ResultOfLastUpload,
     PageFacts!SpinnersHaveOneFetch, Page!SpinnersHaveOneFetch
<1> QED BY <1>1, SystemInvariant, PTL

\* With this page, /evaluate is used as its files require.
THEOREM PageIsDisciplined == Spec => PageKeepsCallsApart
<1>1. Init => Serial!Init
  BY DEF Init, Service!Init, Serial!Init
<1>2. Spec => Serial!Spec
  BY <1>1, SystemInvariant, SerialStep, PTL DEF Spec, Serial!Spec
<1> QED BY <1>2 DEF PageKeepsCallsApart

\* What main.cpp leaves to its callers is so for this page: as long as nothing
\* fails, every review that is sent is the one its caller asked for, for its own
\* resume and its own role.
ReliableReviews ==
    reliable => \A c \in Calls : answer[c] \in Calls => answer[c] = c

THEOREM ReviewsAreOwn == Spec => []ReliableReviews
<1>1. Init => SerialFacts!Init
  BY DEF Init, Service!Init, SerialFacts!Init
<1>2. Spec => SerialFacts!Spec
  BY <1>1, SystemInvariant, SerialStep, PTL DEF Spec, SerialFacts!Spec
<1>3. SerialFacts!OwnReview => ReliableReviews
  BY DEF SerialFacts!OwnReview, SerialFacts!Serial, ReliableReviews
<1>4. SerialFacts!Spec => []SerialFacts!OwnReview
  BY Assumed, SerialFacts!OwnReviewSent
<1> QED BY <1>2, <1>3, <1>4, PTL
----------------------------------------------------------------------------
(* While nothing fails.                                                      *)

\* Whether something fails is settled at the start.
LEMMA ReliableStays == reliable /\ [Next]_vars => reliable'
BY DEF Next, User, Ask, Restart, Serve, Deposit, EndUpload, Run, Command, EndAsk,
   LoseAnswer, calm, vars

\* As long as nothing fails, the server is what Frontend takes it for: the page
\* of the whole system behaves as the page that gets a review of what it asked
\* for, or an error, and nothing else.
LEMMA ReliablePageStep ==
    reliable /\ SystemInv /\ ReliableReviews /\ [Next]_vars => [Page!Next]_Page!vars
<1> SUFFICES ASSUME reliable, SystemInv, ReliableReviews, [Next]_vars
    PROVE [Page!Next]_Page!vars
  OBVIOUS
<1>1. CASE User
  BY <1>1 DEF User, Page!Next, Page!User
<1>2. CASE Ask
  BY <1>2 DEF Ask, Page!Next, Page!User
<1>3. ASSUME NEW u \in Page!Upload, EndUpload(u) PROVE Page!Next
  <2>1. Page!EndUpload(u)
    BY <1>3 DEF EndUpload, Page!EndUpload
  <2>2. u \in uploads
    BY <1>3, EndUploadSteps DEF EndUpload
  <2> QED BY <2>1, <2>2 DEF Page!Next
<1>4. ASSUME NEW a \in asks, EndAsk(a) \/ LoseAnswer(a) PROVE Page!Next
  <2>1. a \in Calls
    BY DEF SystemInv, RoleChosen
  <2>2. answer[a] \in Calls => answer[a] = a
    BY <2>1 DEF ReliableReviews
  <2>3. Page!GetReview(a, a.about) \/ Page!GetError(a)
    BY <1>4, <2>2 DEF EndAsk, LoseAnswer
  <2> QED BY <2>3 DEF Page!Next
<1>5. CASE UNCHANGED vars \/ Restart
           \/ (\E u \in Page!Upload : Serve(u)) \/ (\E c \in Calls : Run(c) \/ Command(c))
  <2>1. UNCHANGED page
    BY <1>5 DEF vars, Restart, Serve, Deposit, Run, Command, calm
  <2> QED BY <2>1 DEF page, Page!vars, Page!panel, Page!view, Page!net
<1> QED BY <1>1, <1>2, <1>3, <1>4, <1>5 DEF Next

THEOREM ReliablePage == Spec /\ reliable => Page!Spec
<1>1. Init => Page!Init
  BY DEF Init
<1>2. Spec /\ reliable => []reliable
  BY ReliableStays, PTL DEF Spec
<1> QED
  BY <1>1, <1>2, SystemInvariant, ReviewsAreOwn, ReliablePageStep, PTL DEF Spec, Page!Spec

\* The role on the card and that of its review part only when something fails:
\* every answer is for the role that was asked for.
THEOREM RoleKeptIfReliable == Spec => [](reliable => ReviewForAskedRole)
<1>1. SystemInv /\ ReliableReviews => (reliable => ReviewForAskedRole)
  BY DEF SystemInv, RoleChosen, ReliableReviews, ReviewForAskedRole
<1> QED BY <1>1, SystemInvariant, ReviewsAreOwn, PTL

\* A call the page waits for is with a handler, which waits for no command that
\* was not started, or its answer is there.
Served(c) ==
    \/ pc[c] \in Service!Busy /\ (pc[c] = "wait" => proc[c] # "none")
    \/ pc[c] = "answered" /\ answer[c] # Unanswered

AsksAreServed == reliable => \A c \in asks : Served(c)

LEMMA ServedStep == SystemInv /\ AsksAreServed /\ [Next]_vars => AsksAreServed'
<1> SUFFICES ASSUME SystemInv, AsksAreServed, [Next]_vars, reliable', NEW c \in asks'
    PROVE Served(c)'
  BY DEF AsksAreServed
<1> USE DEF Served, Service!Busy
<1>0. reliable /\ asks \subseteq Calls /\ SerialFacts!TypeOK
  BY DEF Next, User, Ask, Restart, Serve, Deposit, EndUpload, Run, Command, EndAsk,
     LoseAnswer, calm, vars, SystemInv, RoleChosen
<1>1. c \in asks => Served(c)
  BY <1>0 DEF AsksAreServed
<1>2. CASE Ask
  <2>1. PICK d \in Calls : d \in asks' \ asks /\ Service!Send(d)
    BY <1>0, <1>2 DEF Ask
  <2>2. asks' = asks \cup {d}
    BY <1>2, <2>1, AskIsAlone DEF Ask
  <2>3. CASE c = d
    BY <1>0, <2>1, <2>3 DEF Service!Send, Service!Goto, SerialFacts!TypeOK
  <2>4. CASE c # d
    <3>1. pc'[c] = pc[c] /\ UNCHANGED <<proc, answer>>
      BY <1>0, <2>1, <2>4 DEF Service!Send, Service!Goto, SerialFacts!TypeOK
    <3> QED BY <1>1, <2>2, <2>4, <3>1
  <2> QED BY <2>3, <2>4
<1>3. ASSUME NEW d \in Calls, Run(d) PROVE Served(c)'
  <2>1. c \in asks /\ c \in Calls
    BY <1>0, <1>3 DEF Run, calm, page
  <2>2. CASE c # d
    <3>1. pc'[c] = pc[c] /\ proc'[c] = proc[c] /\ answer'[c] = answer[c]
      BY <1>0, <1>3, <2>1, <2>2 DEF Run, SerialFacts!TypeOK, Service!Handle, Service!Goto,
         Service!Reply, Service!Parse, Service!RejectInvalid, Service!FindResume,
         Service!ResumeNotFound, Service!Prepare, Service!CannotPrepare,
         Service!OpenPayload, Service!OpenPayloadFails, Service!WritePayload,
         Service!Spawn, Service!Returned, Service!ReadReply
    <3> QED BY <1>1, <2>1, <3>1
  <2>3. CASE c = d
    <3>1. ASSUME NEW from, NEW text, Service!Reply(c, from, text), text # Unanswered
          PROVE Served(c)'
      BY <1>0, <2>1, <3>1 DEF SerialFacts!TypeOK, Service!Reply, Service!Goto
    <3>2. CASE Service!ReadReply(c)
      <4>1. reply[Service!FileOf(c)] \in Calls \cup {Absent, Blank, Mixed, Refusal}
        BY <1>0, <2>1 DEF SerialFacts!TypeOK, Service!FileOf, Service!Id, Request, Calls, Page!Asks,
           Page!Reviews
      <4>2. Fallback # Unanswered /\ Refusal # Unanswered /\ Unanswered \notin Calls
        BY Assumed DEF SerialFacts!MarksAssumption
      <4> DEFINE text == reply[Service!FileOf(c)]
      <4>3. PICK told : Service!Reply(c, "read", told) /\ told # Unanswered
        <5>1. CASE text \in {Absent, Blank}
          BY <3>2, <4>2, <5>1 DEF Service!ReadReply
        <5>2. CASE text \in {Mixed, Refusal} /\ text \notin {Absent, Blank}
          BY <3>2, <4>2, <5>2 DEF Service!ReadReply
        <5>3. CASE text \in Calls /\ text \notin {Absent, Blank, Mixed, Refusal}
          BY <3>2, <4>2, <5>3 DEF Service!ReadReply
        <5> QED BY <4>1, <5>1, <5>2, <5>3
      <4> QED BY <3>1, <4>3
    <3>3. CASE Service!RejectInvalid(c) \/ Service!ResumeNotFound(c) \/ Service!CannotPrepare(c)
      <4>1. Refusal # Unanswered
        BY Assumed DEF SerialFacts!MarksAssumption
      <4> QED BY <3>1, <3>3, <4>1 DEF Service!RejectInvalid, Service!ResumeNotFound,
                 Service!CannotPrepare
    <3>4. CASE Service!Spawn(c)
      BY <1>0, <2>1, <3>4 DEF SerialFacts!TypeOK, Service!Spawn, Service!Goto
    <3>5. CASE Service!Parse(c) \/ Service!FindResume(c) \/ Service!Prepare(c)
               \/ Service!OpenPayload(c) \/ Service!OpenPayloadFails(c)
               \/ Service!WritePayload(c) \/ Service!Returned(c)
      BY <1>0, <2>1, <3>5 DEF SerialFacts!TypeOK, Service!Goto, Service!Parse, Service!FindResume,
         Service!Prepare, Service!OpenPayload, Service!OpenPayloadFails,
         Service!WritePayload, Service!Returned
    <3> QED BY <1>3, <2>3, <3>2, <3>3, <3>4, <3>5 DEF Run, Service!Handle
  <2> QED BY <2>2, <2>3
<1>4. ASSUME NEW d \in Calls, Command(d) PROVE Served(c)'
  <2>1. c \in asks /\ c \in Calls /\ UNCHANGED <<pc, answer>>
    BY <1>0, <1>4 DEF Command, calm, page, Service!Command, Service!Redirect,
       Service!CurlReads, Service!CurlEnds
  <2>2. proc[c] # "none" => proc'[c] # "none"
    BY <1>0, <1>4, <2>1 DEF Command, SerialFacts!TypeOK, Service!Command, Service!Redirect,
       Service!CurlReads, Service!CurlEnds
  <2> QED BY <1>1, <2>1, <2>2
<1>5. CASE User \/ UNCHANGED vars \/ (\E u \in Page!Upload : Serve(u) \/ EndUpload(u))
           \/ (\E a \in asks : EndAsk(a))
  <2>1. asks' \subseteq asks /\ UNCHANGED <<pc, proc, answer>>
    BY <1>5 DEF vars, User, Serve, Deposit, EndUpload, calm, page, service, Page!net,
       Page!ChooseFile, Page!AnalyzeNothing, Page!Analyze, Page!Settle, Page!SelectRole,
       Page!ShowRanking, Page!ShowMessage, Page!UploadRejected, Page!ShowUpload,
       EndAsk, Page!GetReview, Page!GetError, Page!EndAsk
  <2> QED BY <1>1, <2>1
<1> QED BY <1>0, <1>2, <1>3, <1>4, <1>5 DEF Next, Restart, LoseAnswer

\* What GenerateEnds needs of every state: while nothing fails, a spinner on the
\* card is never for nothing.  The one call it is for is with a handler or
\* answered, so only a curl can hold it up.
SpinnerIsServed ==
    reliable /\ card.loading =>
        \E c \in asks \cap Calls : c.mount = card.mount /\ Served(c)

THEOREM SpinnersAreServed == Spec => []SpinnerIsServed
<1>1. Init => AsksAreServed
  BY DEF Init, Page!Init, AsksAreServed
<1>2. SystemInv /\ AsksAreServed => SpinnerIsServed
  BY DEF SystemInv, RoleChosen, PageFacts!PageInv, PageFacts!SpinnersHaveOneFetch,
     AsksAreServed, SpinnerIsServed
<1> QED BY <1>1, <1>2, ServedStep, SystemInvariant, PTL DEF Spec
=============================================================================
