------------------------ MODULE EvaluateServiceProofs ------------------------
(* Proofs about EvaluateService, for any number of calls, ids and roles, and *)
(* for every mode.                                                           *)
EXTENDS EvaluateService, TLAPS

\* Bytes written to a file are a text, the text, or a mixture.
LEMMA WrittenIs ==
    ASSUME NEW old, NEW text, NEW t \in Written(old, text)
    PROVE  t = text \/ t = Mixed
BY DEF Written

\* A review that is read for c is what stands in the file of its id.
LEMMA ReadIs ==
    ASSUME TypeOK, NEW c \in Calls, ReadReply(c)
    PROVE  /\ answer' = [answer EXCEPT ![c] = answer'[c]]
           /\ answer'[c] \in {Fallback, Refusal} \cup ({reply[Id(c)]} \cap Calls)
<1>1. reply[Id(c)] \in Calls \cup {Absent, Blank, Mixed, Refusal}
  BY DEF TypeOK, Id
<1>2. CASE reply[Id(c)] \in {Absent, Blank}
  BY <1>2, MarksAssumption DEF ReadReply, Reply, FileOf, TypeOK
<1>3. CASE reply[Id(c)] \in {Mixed, Refusal}
  BY <1>3, MarksAssumption DEF ReadReply, Reply, FileOf, TypeOK
<1>4. CASE reply[Id(c)] \in Calls
  BY <1>4, MarksAssumption DEF ReadReply, Reply, FileOf, TypeOK
<1> QED BY <1>1, <1>2, <1>3, <1>4

----------------------------------------------------------------------------
(* Type correctness.                                                         *)

\* Every step keeps every variable in its type.
LEMMA TypeStep == TypeOK /\ [Next]_vars => TypeOK'
<1> SUFFICES ASSUME TypeOK, [Next]_vars PROVE TypeOK'
  OBVIOUS
<1> USE DEF Goto, Reply, given, files, FileOf, Id, Busy
<1>1. ASSUME NEW c \in Calls,
             Send(c) \/ Parse(c) \/ FindResume(c) \/ Prepare(c)
             \/ OpenPayloadFails(c) \/ Returned(c)
      PROVE TypeOK'
  BY <1>1 DEF Send, Parse, FindResume, Prepare, OpenPayloadFails, Returned, TypeOK
<1>2. ASSUME NEW c \in Calls, RejectInvalid(c) \/ ResumeNotFound(c) \/ CannotPrepare(c)
      PROVE TypeOK'
  BY <1>2 DEF RejectInvalid, ResumeNotFound, CannotPrepare, TypeOK
<1>3. ASSUME NEW c \in Calls, OpenPayload(c) PROVE TypeOK'
  BY <1>3 DEF OpenPayload, TypeOK
<1>4. ASSUME NEW c \in Calls, WritePayload(c) PROVE TypeOK'
  <2>1. payload[Id(c)] \in Calls \cup {Absent, Blank, Mixed}
    BY DEF TypeOK
  <2>2. PICK text \in Calls \cup {Absent, Blank, Mixed} :
             payload' = [payload EXCEPT ![Id(c)] = text]
    BY <1>4, <2>1, WrittenIs DEF WritePayload
  <2> QED BY <1>4, <2>2 DEF WritePayload, TypeOK
<1>5. ASSUME NEW c \in Calls, Spawn(c) PROVE TypeOK'
  BY <1>5 DEF Spawn, TypeOK
<1>6. ASSUME NEW c \in Calls, ReadReply(c) PROVE TypeOK'
  <2>1. UNCHANGED <<mode, request, published, prompt, proc, payload, reply>>
        /\ pc' = [pc EXCEPT ![c] = "answered"]
    BY <1>6 DEF ReadReply
  <2> QED BY <1>6, <2>1, ReadIs DEF TypeOK
<1>7. ASSUME NEW c \in Calls, Redirect(c) \/ CurlReads(c) PROVE TypeOK'
  BY <1>7 DEF Redirect, CurlReads, TypeOK
<1>8. ASSUME NEW c \in Calls, CurlEnds(c) PROVE TypeOK'
  BY <1>8, WrittenIs DEF CurlEnds, TypeOK
<1>9. ASSUME Restart \/ UNCHANGED vars PROVE TypeOK'
  BY <1>9 DEF Restart, vars, TypeOK
<1>10. ASSUME NEW i \in Ids, Deposit(i) PROVE TypeOK'
  BY <1>10 DEF Deposit, TypeOK
<1> QED
  BY <1>1, <1>2, <1>3, <1>4, <1>5, <1>6, <1>7, <1>8, <1>9, <1>10
  DEF Next, Handle, Command

\* TypeOK holds in every reachable state.
THEOREM TypeCorrect == Spec => []TypeOK
<1>1. Init => TypeOK
  BY DEF Init, TypeOK, Id
<1> QED BY <1>1, TypeStep, PTL DEF Spec

----------------------------------------------------------------------------
(* Every text stays under the id it was made for.                            *)

\* A prompt or a review, in a file, in a curl or in an answer, is one of a call
\* with the id of that file, curl or answer.
SameId ==
    /\ \A i \in Ids : payload[i] \in Calls => Id(payload[i]) = i
    /\ \A i \in Ids : reply[i] \in Calls => Id(reply[i]) = i
    /\ \A c \in Calls : prompt[c] \in Calls => Id(prompt[c]) = Id(c)
    /\ ReviewOfOwnResume

\* SameId is kept by every step: each copy of a text is between two places
\* with one id.
LEMMA SameIdStep == TypeOK /\ SameId /\ [Next]_vars => SameId'
<1> SUFFICES ASSUME TypeOK, SameId, [Next]_vars PROVE SameId'
  OBVIOUS
<1> USE DEF Goto, Reply, given, files, FileOf, Id, ReviewOfOwnResume
<1>1. ASSUME NEW c \in Calls,
             Send(c) \/ Parse(c) \/ FindResume(c) \/ Prepare(c)
             \/ OpenPayloadFails(c) \/ Spawn(c) \/ Returned(c)
      PROVE SameId'
  BY <1>1 DEF Send, Parse, FindResume, Prepare, OpenPayloadFails, Spawn, Returned, SameId
<1>2. ASSUME NEW c \in Calls, RejectInvalid(c) \/ ResumeNotFound(c) \/ CannotPrepare(c)
      PROVE SameId'
  BY <1>2, MarksAssumption DEF RejectInvalid, ResumeNotFound, CannotPrepare, SameId, TypeOK
<1>3. ASSUME NEW c \in Calls, OpenPayload(c) PROVE SameId'
  BY <1>3, MarksAssumption DEF OpenPayload, SameId, TypeOK
<1>4. ASSUME NEW c \in Calls, WritePayload(c) PROVE SameId'
  <2>1. PICK text \in {c, Mixed, payload[Id(c)]} :
            payload' = [payload EXCEPT ![FileOf(c)] = text]
    BY <1>4, WrittenIs DEF WritePayload
  <2>2. text \in Calls => Id(text) = Id(c)
    BY <2>1, MarksAssumption DEF SameId, TypeOK
  <2> QED BY <1>4, <2>1, <2>2 DEF WritePayload, SameId, TypeOK
<1>5. ASSUME NEW c \in Calls, ReadReply(c) PROVE SameId'
  <2>1. UNCHANGED <<request, prompt, payload, reply>>
    BY <1>5 DEF ReadReply
  <2>2. answer'[c] \in Calls => Id(answer'[c]) = Id(c)
    BY <1>5, ReadIs, MarksAssumption DEF SameId, TypeOK
  <2>3. \A d \in Calls : d # c => answer'[d] = answer[d]
    BY <1>5, ReadIs DEF TypeOK
  <2> QED BY <2>1, <2>2, <2>3 DEF SameId
<1>6. ASSUME NEW c \in Calls, Redirect(c) PROVE SameId'
  BY <1>6, MarksAssumption DEF Redirect, SameId, TypeOK
<1>7. ASSUME NEW c \in Calls, CurlReads(c) PROVE SameId'
  BY <1>7 DEF CurlReads, SameId, TypeOK
<1>8. ASSUME NEW c \in Calls, CurlEnds(c) PROVE SameId'
  <2>1. CASE UNCHANGED reply
    BY <1>8, <2>1 DEF CurlEnds, SameId
  <2>2. CASE \E sent \in {Refusal} \cup ({prompt[c]} \cap Calls) :
                \E text \in Written(reply[FileOf(c)], sent) :
                    reply' = [reply EXCEPT ![FileOf(c)] = text]
    <3>1. PICK sent \in {Refusal} \cup ({prompt[c]} \cap Calls) :
                \E text \in Written(reply[FileOf(c)], sent) :
                    reply' = [reply EXCEPT ![FileOf(c)] = text]
      BY <2>2
    <3>2. PICK text \in Written(reply[FileOf(c)], sent) :
                    reply' = [reply EXCEPT ![FileOf(c)] = text]
      BY <3>1
    <3>3. text \in Calls => Id(text) = Id(c)
      BY <3>2, WrittenIs, MarksAssumption DEF SameId
    <3> QED BY <1>8, <3>2, <3>3 DEF CurlEnds, SameId, TypeOK
  <2> QED BY <1>8, <2>1, <2>2 DEF CurlEnds
<1>9. ASSUME Restart \/ UNCHANGED vars PROVE SameId'
  BY <1>9 DEF Restart, vars, SameId
<1>10. ASSUME NEW i \in Ids, Deposit(i) PROVE SameId'
  BY <1>10 DEF Deposit, SameId
<1> QED
  BY <1>1, <1>2, <1>3, <1>4, <1>5, <1>6, <1>7, <1>8, <1>9, <1>10
  DEF Next, Handle, Command

LEMMA SameIdInit == Init => TypeOK /\ SameId
BY MarksAssumption DEF Init, TypeOK, SameId, ReviewOfOwnResume, Id

\* No caller ever gets a review of a resume it did not name, whatever overlaps,
\* fails to open or dies.
THEOREM OwnResumeReviewed == Spec => []ReviewOfOwnResume
<1>1. SameId => ReviewOfOwnResume
  BY DEF SameId
<1> QED BY <1>1, SameIdInit, TypeStep, SameIdStep, PTL DEF Spec

----------------------------------------------------------------------------
(* The handler and its command follow each other.                            *)

\* There is no shell before system(), none any more once system() returned,
\* and an answer only at the end of the handler.
InOrder ==
    \A c \in Calls :
        /\ pc[c] \in {"unsent", "parse", "find", "prepare", "open", "write", "spawn"}
                => proc[c] = "none"
        /\ pc[c] \in {"read", "answered"} => proc[c] \in {"none", "done"}
        /\ answer[c] # Unanswered => pc[c] = "answered"

LEMMA InOrderInit == Init => InOrder
BY DEF Init, InOrder

\* InOrder is kept by every step, in every mode.
LEMMA InOrderStep == TypeOK /\ InOrder /\ [Next]_vars => InOrder'
<1> SUFFICES ASSUME TypeOK, InOrder, [Next]_vars PROVE InOrder'
  OBVIOUS
<1> USE DEF Goto, Reply, given, files, Busy
<1>1. ASSUME NEW c \in Calls,
             Send(c) \/ Parse(c) \/ FindResume(c) \/ Prepare(c) \/ OpenPayload(c)
             \/ OpenPayloadFails(c) \/ WritePayload(c) \/ Returned(c)
      PROVE InOrder'
  BY <1>1 DEF Send, Parse, FindResume, Prepare, OpenPayload, OpenPayloadFails,
        WritePayload, Returned, InOrder, TypeOK
<1>2. ASSUME NEW c \in Calls, Spawn(c) PROVE InOrder'
  BY <1>2 DEF Spawn, InOrder, TypeOK
<1>3. ASSUME NEW c \in Calls,
             RejectInvalid(c) \/ ResumeNotFound(c) \/ CannotPrepare(c) \/ ReadReply(c)
      PROVE InOrder'
  <2>1. /\ proc' = proc /\ pc' = [pc EXCEPT ![c] = "answered"]
        /\ answer' = [answer EXCEPT ![c] = answer'[c]]
        /\ pc[c] \in {"parse", "find", "prepare", "read"}
    BY <1>3 DEF RejectInvalid, ResumeNotFound, CannotPrepare, ReadReply, TypeOK
  <2> QED BY <2>1 DEF InOrder, TypeOK
<1>4. ASSUME NEW c \in Calls, Redirect(c) \/ CurlReads(c) \/ CurlEnds(c)
      PROVE InOrder'
  BY <1>4 DEF Redirect, CurlReads, CurlEnds, InOrder, TypeOK
<1>5. ASSUME Restart \/ UNCHANGED vars \/ \E i \in Ids : Deposit(i) PROVE InOrder'
  BY <1>5 DEF Restart, Deposit, vars, InOrder, TypeOK
<1> QED BY <1>1, <1>2, <1>3, <1>4, <1>5 DEF Next, Handle, Command

----------------------------------------------------------------------------
(* Every handler comes to an end: what fair scheduling needs for it.         *)

\* A handler that waits has had its shell started, or system() has returned, and
\* the one thing it may then wait for is its own shell and curl.  What it reads
\* afterwards is one of the cases that have an answer.
HandlersHaveAWay ==
    \A c \in Calls :
        /\ pc[c] = "wait" => proc[c] \in {"shell", "curl", "sent", "done"}
        /\ reply[FileOf(c)] \in {Absent, Blank} \cup {Mixed, Refusal} \cup Calls

\* How far a handler and its command are.
Stage ==
    [unsent |-> 0, parse |-> 1, find |-> 2, prepare |-> 3, open |-> 4, write |-> 5,
     spawn |-> 6, wait |-> 7, read |-> 8, answered |-> 9, lost |-> 9]
CommandStage == [none |-> 0, shell |-> 1, curl |-> 2, sent |-> 3, done |-> 4]

\* Whatever overlaps, fails or dies, no handler and no command goes back: no
\* curl is started twice for a call, and an answer, once given, stays.
CallsGoForward ==
    [][\A c \in Calls :
        /\ pc'[c] # pc[c] => Stage[pc[c]] < Stage[pc'[c]]
        /\ proc'[c] # proc[c] => CommandStage[proc[c]] < CommandStage[proc'[c]]
        /\ answer[c] # Unanswered => answer'[c] = answer[c]]_vars

CommandStarted == \A c \in Calls : pc[c] = "wait" => proc[c] # "none"

LEMMA CommandStartedStep ==
    TypeOK /\ CommandStarted /\ [Next]_vars => CommandStarted'
<1> SUFFICES ASSUME TypeOK, CommandStarted, [Next]_vars PROVE CommandStarted'
  OBVIOUS
<1> USE DEF Goto, Reply, given, files
<1>1. ASSUME NEW c \in Calls,
             Send(c) \/ Parse(c) \/ FindResume(c) \/ Prepare(c) \/ OpenPayload(c)
             \/ OpenPayloadFails(c) \/ WritePayload(c) \/ Spawn(c) \/ Returned(c)
      PROVE CommandStarted'
  BY <1>1 DEF Send, Parse, FindResume, Prepare, OpenPayload, OpenPayloadFails,
        WritePayload, Spawn, Returned, CommandStarted, TypeOK
<1>2. ASSUME NEW c \in Calls,
             RejectInvalid(c) \/ ResumeNotFound(c) \/ CannotPrepare(c) \/ ReadReply(c)
      PROVE CommandStarted'
  <2>1. proc' = proc /\ pc' = [pc EXCEPT ![c] = "answered"]
    BY <1>2 DEF RejectInvalid, ResumeNotFound, CannotPrepare, ReadReply
  <2> QED BY <2>1 DEF CommandStarted, TypeOK
<1>3. ASSUME NEW c \in Calls, Command(c) PROVE CommandStarted'
  BY <1>3 DEF Command, Redirect, CurlReads, CurlEnds, CommandStarted, TypeOK
<1>4. ASSUME Restart \/ UNCHANGED vars \/ \E i \in Ids : Deposit(i) PROVE CommandStarted'
  BY <1>4 DEF Restart, Deposit, vars, CommandStarted, TypeOK
<1> QED BY <1>1, <1>2, <1>3, <1>4 DEF Next, Handle

\* A handler is stopped by nothing but the command it started, in every mode.
THEOREM OnlyTheCommandHolds == Spec => []HandlersHaveAWay
<1>1. Init => CommandStarted
  BY DEF Init, CommandStarted
<1>2. TypeOK /\ CommandStarted => HandlersHaveAWay
  BY DEF TypeOK, CommandStarted, HandlersHaveAWay, FileOf, Id
<1> QED BY <1>1, <1>2, TypeCorrect, CommandStartedStep, PTL DEF Spec

\* Every step of a handler or of its command takes the call further, and nothing
\* changes an answer.
THEOREM HandlersGoForward == Spec => CallsGoForward
<1> DEFINE Forward(c) ==
        /\ pc'[c] # pc[c] => Stage[pc[c]] < Stage[pc'[c]]
        /\ proc'[c] # proc[c] => CommandStage[proc[c]] < CommandStage[proc'[c]]
        /\ answer[c] # Unanswered => answer'[c] = answer[c]
<1>1. TypeOK /\ InOrder /\ [Next]_vars => \A c \in Calls : Forward(c)
  <2> SUFFICES ASSUME TypeOK, InOrder, [Next]_vars, NEW d \in Calls PROVE Forward(d)
    OBVIOUS
  <2> USE DEF Goto, Reply, given, files
  <2>1. ASSUME NEW c \in Calls,
               Send(c) \/ Parse(c) \/ FindResume(c) \/ Prepare(c) \/ OpenPayload(c)
               \/ OpenPayloadFails(c) \/ WritePayload(c) \/ Returned(c)
        PROVE  Forward(d)
    BY <2>1 DEF Send, Parse, FindResume, Prepare, OpenPayload, OpenPayloadFails,
          WritePayload, Returned, TypeOK, Stage
  <2>2. ASSUME NEW c \in Calls, Spawn(c) PROVE Forward(d)
    <3>1. proc[c] = "none"
      BY <2>2 DEF Spawn, InOrder
    <3> QED BY <2>2, <3>1 DEF Spawn, TypeOK, Stage, CommandStage
  <2>3. ASSUME NEW c \in Calls,
               RejectInvalid(c) \/ ResumeNotFound(c) \/ CannotPrepare(c) \/ ReadReply(c)
        PROVE  Forward(d)
    <3>1. /\ proc' = proc /\ pc' = [pc EXCEPT ![c] = "answered"]
          /\ answer' = [answer EXCEPT ![c] = answer'[c]]
          /\ pc[c] \in {"parse", "find", "prepare", "read"}
      BY <2>3 DEF RejectInvalid, ResumeNotFound, CannotPrepare, ReadReply, TypeOK
    <3>2. answer[c] = Unanswered
      BY <3>1 DEF InOrder
    <3> QED BY <3>1, <3>2 DEF TypeOK, Stage
  <2>4. ASSUME NEW c \in Calls, Command(c) PROVE Forward(d)
    BY <2>4 DEF Command, Redirect, CurlReads, CurlEnds, TypeOK, CommandStage
  <2>5. ASSUME Restart PROVE Forward(d)
    BY <2>5 DEF Restart, Busy, TypeOK, Stage
  <2>6. ASSUME UNCHANGED vars \/ \E i \in Ids : Deposit(i) PROVE Forward(d)
    BY <2>6 DEF Deposit, vars
  <2> HIDE DEF Forward
  <2> QED BY <2>1, <2>2, <2>3, <2>4, <2>5, <2>6 DEF Next, Handle
<1> QED BY <1>1, InOrderInit, InOrderStep, TypeCorrect, PTL DEF Spec, CallsGoForward

----------------------------------------------------------------------------
(* Files are only made for ids that have a resume.                           *)

PublishedOnly ==
    /\ FilesOnlyForPublished
    /\ \A c \in Calls :
          /\ pc[c] \in {"prepare", "open", "write", "spawn", "wait", "read"}
                => Id(c) \in published
          /\ proc[c] # "none" => Id(c) \in published

\* PublishedOnly is kept by every step: no handler passes the look for the text
\* without one.
LEMMA PublishedOnlyStep == TypeOK /\ PublishedOnly /\ [Next]_vars => PublishedOnly'
<1> SUFFICES ASSUME TypeOK, PublishedOnly, [Next]_vars PROVE PublishedOnly'
  OBVIOUS
<1> USE DEF Goto, Reply, given, files, FileOf, Id, FilesOnlyForPublished
<1>1. ASSUME NEW c \in Calls,
             Send(c) \/ Parse(c) \/ FindResume(c) \/ Prepare(c)
             \/ OpenPayloadFails(c) \/ Returned(c) \/ RejectInvalid(c)
             \/ ResumeNotFound(c) \/ CannotPrepare(c) \/ ReadReply(c)
      PROVE PublishedOnly'
  BY <1>1 DEF Send, Parse, FindResume, Prepare, OpenPayloadFails, Returned,
        RejectInvalid, ResumeNotFound, CannotPrepare, ReadReply, PublishedOnly, TypeOK
<1>2. ASSUME NEW c \in Calls, OpenPayload(c) \/ WritePayload(c) PROVE PublishedOnly'
  BY <1>2 DEF OpenPayload, WritePayload, PublishedOnly, TypeOK
<1>3. ASSUME NEW c \in Calls, Spawn(c) PROVE PublishedOnly'
  BY <1>3 DEF Spawn, PublishedOnly, TypeOK
<1>4. ASSUME NEW c \in Calls, Redirect(c) \/ CurlReads(c) \/ CurlEnds(c)
      PROVE PublishedOnly'
  BY <1>4 DEF Redirect, CurlReads, CurlEnds, PublishedOnly, TypeOK
<1>5. ASSUME Restart \/ UNCHANGED vars PROVE PublishedOnly'
  BY <1>5 DEF Restart, vars, PublishedOnly, TypeOK, Busy
<1>6. ASSUME NEW i \in Ids, Deposit(i) PROVE PublishedOnly'
  BY <1>6 DEF Deposit, PublishedOnly
<1> QED BY <1>1, <1>2, <1>3, <1>4, <1>5, <1>6 DEF Next, Handle, Command

\* No payload and no response file is made for an id without a resume.
THEOREM OnlyPublishedHaveFiles == Spec => []FilesOnlyForPublished
<1>1. Init => TypeOK /\ PublishedOnly
  BY DEF Init, TypeOK, PublishedOnly, FilesOnlyForPublished, Id
<1>2. PublishedOnly => FilesOnlyForPublished
  BY DEF PublishedOnly
<1> QED BY <1>1, <1>2, TypeStep, PublishedOnlyStep, PTL DEF Spec

----------------------------------------------------------------------------
(* In serial mode the files of an id belong to one call at a time.           *)

\* Of the calls with one id one is at work, and the files of the id hold what
\* that call has put there, or what its curl has.
OneAtATime ==
    \A c, d \in Calls : c # d /\ Id(c) = Id(d) => ~(AtWork(c) /\ AtWork(d))
NoProcYet ==
    \A c \in Calls :
        pc[c] \in {"unsent", "parse", "find", "prepare", "open", "write", "spawn"}
            => proc[c] = "none"
PayloadIsOwn ==
    \A c \in Calls :
        /\ pc[c] = "write" => payload[Id(c)] = Blank
        /\ pc[c] = "spawn" \/ proc[c] \in {"shell", "curl", "sent"}
                => payload[Id(c)] = c
        /\ proc[c] = "sent" => prompt[c] = c
ReplyIsOwn ==
    \A c \in Calls :
        /\ proc[c] \in {"curl", "sent"} => reply[Id(c)] = Blank
        /\ pc[c] \in {"wait", "read"} /\ proc[c] = "done"
                => reply[Id(c)] \in {Blank, Refusal, c}
        /\ pc[c] = "read" => proc[c] = "done"
AnswerIsOwn == \A c \in Calls : answer[c] \in Calls => answer[c] = c
Unmixed == \A i \in Ids : payload[i] # Mixed /\ reply[i] # Mixed

Apart ==
    /\ OneAtATime /\ NoProcYet /\ PayloadIsOwn /\ ReplyIsOwn
    /\ AnswerIsOwn /\ Unmixed

\* What the two switches of the mode allow in serial mode.
LEMMA SerialSend ==
    ASSUME Serial, NEW c \in Calls, Send(c)
    PROVE  \A d \in Calls : Id(d) = Id(c) => ~AtWork(d)
<1>1. ~mode.overlap
  BY DEF Serial
<1>2. mode.overlap \/ \A d \in Calls : Id(d) = Id(c) => ~AtWork(d)
  BY DEF Send
<1> QED BY <1>1, <1>2

LEMMA SerialOpens ==
    ASSUME Serial, NEW c \in Calls
    PROVE  ~OpenPayloadFails(c)
BY DEF Serial, OpenPayloadFails

LEMMA SerialSpawns ==
    ASSUME Serial, NEW c \in Calls, Spawn(c)
    PROVE  proc' = [proc EXCEPT ![c] = "shell"]
BY DEF Serial, Spawn

\* The mode stays as it is.
LEMMA SerialStays ==
    ASSUME [Next]_vars PROVE mode' = mode
BY DEF Next, vars, given, Send, Handle, Command, Restart, Deposit, Parse,
    RejectInvalid, FindResume, ResumeNotFound, Prepare, CannotPrepare,
    OpenPayload, OpenPayloadFails, WritePayload, Spawn, Returned, ReadReply,
    Redirect, CurlReads, CurlEnds, Goto, Reply

\* In serial mode Apart is kept by every step.
LEMMA ApartStep == TypeOK /\ Serial /\ Apart /\ [Next]_vars => Apart'
<1> SUFFICES ASSUME TypeOK, Serial, Apart, [Next]_vars PROVE Apart'
  OBVIOUS
<1> USE DEF Goto, Reply, given, files, FileOf, Id, AtWork, Busy
<1>0. /\ OneAtATime /\ NoProcYet /\ PayloadIsOwn /\ ReplyIsOwn
      /\ AnswerIsOwn /\ Unmixed
  BY DEF Apart
<1>1. ASSUME NEW c \in Calls, Send(c) PROVE Apart'
  <2>1. UNCHANGED <<request, prompt, proc, payload, reply, answer>>
        /\ pc[c] = "unsent" /\ pc' = [pc EXCEPT ![c] = "parse"]
    BY <1>1 DEF Send
  <2>2. OneAtATime'
    BY <1>0, <1>1, <2>1, SerialSend DEF OneAtATime, TypeOK
  <2>3. (NoProcYet /\ PayloadIsOwn /\ ReplyIsOwn /\ AnswerIsOwn /\ Unmixed)'
    BY <1>0, <2>1 DEF NoProcYet, PayloadIsOwn, ReplyIsOwn, AnswerIsOwn, Unmixed, TypeOK
  <2> QED BY <2>2, <2>3 DEF Apart
<1>2. ASSUME NEW c \in Calls, Parse(c) \/ FindResume(c) \/ Prepare(c) \/ Returned(c)
      PROVE Apart'
  <2>1. /\ UNCHANGED <<request, prompt, proc, payload, reply, answer>>
        /\ pc' = [pc EXCEPT ![c] = pc'[c]]
        /\ \/ pc[c] = "parse" /\ pc'[c] = "find"
           \/ pc[c] = "find" /\ pc'[c] = "prepare"
           \/ pc[c] = "prepare" /\ pc'[c] = "open"
           \/ pc[c] = "wait" /\ pc'[c] = "read" /\ proc[c] = "done"
    BY <1>2 DEF Parse, FindResume, Prepare, Returned, TypeOK
  <2>2. OneAtATime'
    BY <1>0, <2>1 DEF OneAtATime, TypeOK
  <2>3. (NoProcYet /\ PayloadIsOwn /\ ReplyIsOwn /\ AnswerIsOwn /\ Unmixed)'
    BY <1>0, <2>1 DEF NoProcYet, PayloadIsOwn, ReplyIsOwn, AnswerIsOwn, Unmixed, TypeOK
  <2> QED BY <2>2, <2>3 DEF Apart
<1>3. ASSUME NEW c \in Calls,
             RejectInvalid(c) \/ ResumeNotFound(c) \/ CannotPrepare(c) \/ ReadReply(c)
      PROVE Apart'
  <2>1. /\ UNCHANGED <<request, prompt, proc, payload, reply>>
        /\ pc' = [pc EXCEPT ![c] = "answered"]
        /\ answer' = [answer EXCEPT ![c] = answer'[c]]
    BY <1>3 DEF RejectInvalid, ResumeNotFound, CannotPrepare, ReadReply, TypeOK
  <2>2. answer'[c] \in Calls => answer'[c] = c
    <3>1. CASE RejectInvalid(c) \/ ResumeNotFound(c) \/ CannotPrepare(c)
      BY <3>1, MarksAssumption
      DEF RejectInvalid, ResumeNotFound, CannotPrepare, TypeOK
    <3>2. CASE ReadReply(c)
      <4>1. reply[Id(c)] \in {Blank, Refusal, c}
        BY <1>0, <3>2 DEF ReadReply, ReplyIsOwn
      <4> QED BY <3>2, <4>1, ReadIs, MarksAssumption
    <3> QED BY <1>3, <3>1, <3>2
  <2>3. AnswerIsOwn'
    BY <1>0, <2>1, <2>2 DEF AnswerIsOwn, TypeOK
  <2>4. (OneAtATime /\ NoProcYet /\ PayloadIsOwn /\ ReplyIsOwn /\ Unmixed)'
    BY <1>0, <2>1 DEF OneAtATime, NoProcYet, PayloadIsOwn, ReplyIsOwn, Unmixed, TypeOK
  <2> QED BY <2>3, <2>4 DEF Apart
<1>4. ASSUME NEW c \in Calls, OpenPayload(c) \/ WritePayload(c) PROVE Apart'
  <2>1. /\ UNCHANGED <<request, prompt, proc, reply, answer>>
        /\ pc' = [pc EXCEPT ![c] = pc'[c]]
        /\ payload' = [payload EXCEPT ![Id(c)] = payload'[Id(c)]]
        /\ \/ pc[c] = "open" /\ pc'[c] = "write" /\ payload'[Id(c)] = Blank
           \/ pc[c] = "write" /\ pc'[c] = "spawn" /\ payload'[Id(c)] = c
    <3>1. CASE OpenPayload(c)
      BY <3>1 DEF OpenPayload, TypeOK
    <3>2. CASE WritePayload(c)
      <4>1. payload[Id(c)] = Blank
        BY <1>0, <3>2 DEF WritePayload, PayloadIsOwn
      <4>2. ~mode.faults
        BY DEF Serial
      <4>3. payload' = [payload EXCEPT ![Id(c)] = c]
        BY <3>2, <4>1, <4>2 DEF WritePayload, Written
      <4> QED BY <3>2, <4>3 DEF WritePayload, TypeOK
    <3> QED BY <1>4, <3>1, <3>2
  <2>2. \A d \in Calls : d # c /\ Id(d) = Id(c) => ~AtWork(d)
    BY <1>0, <2>1 DEF OneAtATime
  <2>3. OneAtATime' /\ NoProcYet' /\ ReplyIsOwn' /\ AnswerIsOwn'
    BY <1>0, <2>1 DEF OneAtATime, NoProcYet, ReplyIsOwn, AnswerIsOwn, TypeOK
  <2>4. PayloadIsOwn'
    BY <1>0, <2>1, <2>2 DEF PayloadIsOwn, NoProcYet, TypeOK
  <2>5. Unmixed'
    BY <1>0, <2>1, MarksAssumption DEF Unmixed, TypeOK
  <2> QED BY <2>3, <2>4, <2>5 DEF Apart
<1>5. ASSUME NEW c \in Calls, Spawn(c) PROVE Apart'
  <2>1. /\ UNCHANGED <<request, prompt, payload, reply, answer>>
        /\ pc[c] = "spawn" /\ pc' = [pc EXCEPT ![c] = "wait"]
        /\ proc' = [proc EXCEPT ![c] = "shell"]
    BY <1>5, SerialSpawns DEF Spawn
  <2>2. OneAtATime'
    BY <1>0, <2>1 DEF OneAtATime, TypeOK
  <2>3. (NoProcYet /\ PayloadIsOwn /\ ReplyIsOwn /\ AnswerIsOwn /\ Unmixed)'
    BY <1>0, <2>1 DEF NoProcYet, PayloadIsOwn, ReplyIsOwn, AnswerIsOwn, Unmixed, TypeOK
  <2> QED BY <2>2, <2>3 DEF Apart
<1>6. ASSUME NEW c \in Calls, Redirect(c) \/ CurlReads(c) \/ CurlEnds(c) PROVE Apart'
  <2>1. /\ UNCHANGED <<request, pc, payload, answer>>
        /\ prompt' = [prompt EXCEPT ![c] = prompt'[c]]
        /\ proc' = [proc EXCEPT ![c] = proc'[c]]
        /\ reply' = [reply EXCEPT ![Id(c)] = reply'[Id(c)]]
        /\ \/ /\ proc[c] = "shell" /\ proc'[c] = "curl"
              /\ reply'[Id(c)] = Blank
           \/ /\ proc[c] = "curl" /\ proc'[c] = "sent"
              /\ reply' = reply /\ prompt'[c] = c
           \/ /\ proc[c] = "sent" /\ proc'[c] = "done"
              /\ reply'[Id(c)] \in {Blank, Refusal, c}
    <3>1. CASE Redirect(c)
      BY <3>1 DEF Redirect, TypeOK
    <3>2. CASE CurlReads(c)
      <4>1. payload[Id(c)] = c
        BY <1>0, <3>2 DEF CurlReads, PayloadIsOwn
      <4> QED BY <3>2, <4>1 DEF CurlReads, TypeOK
    <3>3. CASE CurlEnds(c)
      <4>1. reply[Id(c)] = Blank /\ prompt[c] = c
        BY <1>0, <3>3 DEF CurlEnds, ReplyIsOwn, PayloadIsOwn
      <4>2. UNCHANGED reply \/ \E sent \in {Refusal, c} :
                    reply' = [reply EXCEPT ![Id(c)] = sent]
        BY <3>3, <4>1 DEF CurlEnds, Written
      <4> QED BY <3>3, <4>1, <4>2 DEF CurlEnds, TypeOK
    <3> QED BY <1>6, <3>1, <3>2, <3>3
  <2>2. \A d \in Calls : d # c /\ Id(d) = Id(c) => ~AtWork(d)
    BY <1>0, <2>1 DEF OneAtATime
  <2>3. OneAtATime' /\ NoProcYet' /\ PayloadIsOwn' /\ AnswerIsOwn'
    BY <1>0, <2>1 DEF OneAtATime, NoProcYet, PayloadIsOwn, AnswerIsOwn, TypeOK
  <2>4. ReplyIsOwn'
    BY <1>0, <2>1, <2>2 DEF ReplyIsOwn, TypeOK
  <2>5. Unmixed'
    BY <1>0, <2>1, MarksAssumption DEF Unmixed, TypeOK
  <2> QED BY <2>3, <2>4, <2>5 DEF Apart
<1>7. ASSUME Restart PROVE Apart'
  <2>1. /\ UNCHANGED <<request, prompt, proc, payload, reply, answer>>
        /\ \A c \in Calls : pc'[c] = pc[c] \/ pc'[c] = "lost"
    BY <1>7 DEF Restart
  <2> QED
    BY <1>0, <2>1
    DEF Apart, OneAtATime, NoProcYet, PayloadIsOwn, ReplyIsOwn, AnswerIsOwn, Unmixed
<1>8. ASSUME (\E i \in Ids : Deposit(i)) \/ UNCHANGED vars PROVE Apart'
  <2>1. UNCHANGED <<request, pc, prompt, proc, payload, reply, answer>>
    BY <1>8 DEF Deposit, vars
  <2> QED
    BY <1>0, <2>1
    DEF Apart, OneAtATime, NoProcYet, PayloadIsOwn, ReplyIsOwn, AnswerIsOwn, Unmixed
<1> QED
  BY <1>1, <1>2, <1>3, <1>4, <1>5, <1>6, <1>7, <1>8, SerialOpens
  DEF Next, Handle, Command

\* Serial is what the mode says, and the mode stays.
LEMMA SerialStep ==
    TypeOK /\ (Serial => Apart) /\ [Next]_vars => (Serial => Apart)'
<1> SUFFICES ASSUME TypeOK, Serial => Apart, [Next]_vars, Serial' PROVE Apart'
  OBVIOUS
<1>1. Serial
  BY SerialStays DEF Serial
<1> QED BY <1>1, ApartStep

LEMMA SerialInit == Init => TypeOK /\ (Serial => Apart)
<1> SUFFICES ASSUME Init PROVE TypeOK /\ Apart
  OBVIOUS
<1>1. TypeOK
  BY DEF Init, TypeOK, Id
<1>2. Apart
  BY MarksAssumption
  DEF Init, Apart, OneAtATime, NoProcYet, PayloadIsOwn, ReplyIsOwn, AnswerIsOwn,
      Unmixed, AtWork, Busy, Id
<1> QED BY <1>1, <1>2

\* In serial mode every caller gets the review of its own prompt, and no file
\* ever holds two texts.
THEOREM OwnReviewSent == Spec => []OwnReview
<1>1. (Serial => Apart) => OwnReview
  BY DEF Apart, AnswerIsOwn, Unmixed, OwnReview
<1> QED BY <1>1, SerialInit, TypeStep, SerialStep, PTL DEF Spec
=============================================================================
