---------------------------- MODULE EvaluateService ----------------------------
(* POST /evaluate of main.cpp: calls that run at the same time share the     *)
(* payload and the response file of their request id with each other and     *)
(* with the shells and curls they start.  A text is abstracted to the call   *)
(* whose prompt it is, or is the answer to.                                  *)
EXTENDS Integers

CONSTANTS
    Calls,      \* POST /evaluate calls
    Ids,        \* request ids clients may send
    Roles,      \* roles clients may ask for
    Absent, Blank, Mixed,   \* no file, an empty one, parts of texts
    Refusal,    \* a reply that is no review: an error, or no JSON
    Fallback, Unanswered    \* the canned review; no answer yet

ASSUME MarksAssumption ==
    /\ {Absent, Blank, Mixed, Refusal, Fallback, Unanswered} \cap Calls = {}
    /\ {Absent, Blank} \cap {Mixed, Refusal} = {} /\ Mixed # Refusal
    /\ Fallback \notin {Refusal, Unanswered} /\ Refusal # Unanswered

VARIABLES
    mode,       \* may calls with one id overlap, may open(), write() and fork() fail?
    request,    \* [valid, id, role] of each call; valid: JSON with both keys
    published,  \* the ids with a text in extracted/
    pc,         \* how far each handler is
    prompt,     \* what the curl of each call read from the payload file
    proc,       \* the shell, then the curl, that each call started
    payload,    \* gemini_payload_<id>.json: a call, or a mark
    reply,      \* gemini_response_<id>.json: a call, or a mark
    answer      \* per call: whose review it got, or a mark

given == <<mode, request, published>>
files == <<payload, reply>>
vars == <<given, pc, prompt, proc, files, answer>>

Busy == {"parse", "find", "prepare", "open", "write", "spawn", "wait", "read"}
Id(c) == request[c].id

\* Mutant: one file name for all calls.
OneFile(c) == CHOOSE i \in Ids : TRUE

\* The key of the payload and the response path.
FileOf(c) == Id(c)

Init ==
    /\ mode \in [overlap : BOOLEAN, faults : BOOLEAN]
    /\ request \in [Calls -> [valid : BOOLEAN, id : Ids, role : Roles]]
    /\ published = {}
    /\ pc = [c \in Calls |-> "unsent"]
    /\ prompt = [c \in Calls |-> Absent]
    /\ proc = [c \in Calls |-> "none"]
    /\ payload = [i \in Ids |-> Absent]
    /\ reply = [i \in Ids |-> Absent]
    /\ answer = [c \in Calls |-> Unanswered]

Goto(c, from, to) ==
    /\ pc[c] = from
    /\ pc' = [pc EXCEPT ![c] = to]

Reply(c, from, a) ==
    /\ Goto(c, from, "answered")
    /\ answer' = [answer EXCEPT ![c] = a]
    /\ UNCHANGED <<given, prompt, proc, files>>

\* Bytes written at the start of a file: they replace an empty one, and over
\* another text they may leave the end of it behind.
Written(old, text) == IF old = Blank THEN {text} ELSE {text, Mixed}

----------------------------------------------------------------------------
(* The handler.                                                              *)

AtWork(c) == pc[c] \in Busy \/ proc[c] \in {"shell", "curl", "sent"}

Send(c) ==
    /\ mode.overlap \/ \A d \in Calls : Id(d) = Id(c) => ~AtWork(d)
    /\ Goto(c, "unsent", "parse")
    /\ UNCHANGED <<given, prompt, proc, files, answer>>

Parse(c) ==
    /\ request[c].valid
    /\ Goto(c, "parse", "find")
    /\ UNCHANGED <<given, prompt, proc, files, answer>>

\* 400 for no JSON, 500 for JSON without a key.
RejectInvalid(c) ==
    /\ ~request[c].valid
    /\ Reply(c, "parse", Refusal)

\* Mutant: no look whether the text exists.
FindAnyResume(c) ==
    /\ Goto(c, "find", "prepare")
    /\ UNCHANGED <<given, prompt, proc, files, answer>>

FindResume(c) ==
    /\ Id(c) \in published
    /\ Goto(c, "find", "prepare")
    /\ UNCHANGED <<given, prompt, proc, files, answer>>

ResumeNotFound(c) ==
    /\ Id(c) \notin published
    /\ Reply(c, "find", Refusal)

\* The job text is looked up and the key is there: the prompt is made.
Prepare(c) ==
    /\ Goto(c, "prepare", "open")
    /\ UNCHANGED <<given, prompt, proc, files, answer>>

\* A job profile throws, or GEMINI_API_KEY is not set.
CannotPrepare(c) == Reply(c, "prepare", Refusal)

\* std::ofstream truncates; nobody looks whether it opened.
OpenPayload(c) ==
    /\ Goto(c, "open", "write")
    /\ payload' = [payload EXCEPT ![FileOf(c)] = Blank]
    /\ UNCHANGED <<given, prompt, proc, reply, answer>>

OpenPayloadFails(c) ==
    /\ mode.faults
    /\ Goto(c, "open", "spawn")
    /\ UNCHANGED <<given, prompt, proc, files, answer>>

\* Nobody looks whether it was written: nothing of it may be, or a part.
WritePayload(c) ==
    /\ Goto(c, "write", "spawn")
    /\ \E text \in Written(payload[FileOf(c)], c)
                    \cup (IF mode.faults THEN {payload[FileOf(c)], Mixed} ELSE {}) :
          payload' = [payload EXCEPT ![FileOf(c)] = text]
    /\ UNCHANGED <<given, prompt, proc, reply, answer>>

\* system(), whose result is not used.
Spawn(c) ==
    /\ Goto(c, "spawn", "wait")
    /\ \/ proc' = [proc EXCEPT ![c] = "shell"]
       \/ mode.faults /\ proc' = [proc EXCEPT ![c] = "done"]
    /\ UNCHANGED <<given, prompt, files, answer>>

Returned(c) ==
    /\ proc[c] = "done"
    /\ Goto(c, "wait", "read")
    /\ UNCHANGED <<given, prompt, proc, files, answer>>

\* Mutants: every text is taken for a review; an empty one is waited on.
PassOn(c) ==
    LET text == reply[FileOf(c)]
    IN  Reply(c, "read", IF text \in {Absent, Blank} THEN Fallback ELSE text)
AwaitReply(c) ==
    LET text == reply[FileOf(c)]
    IN  /\ text \notin {Absent, Blank}
        /\ Reply(c, "read", IF text \in Calls THEN text ELSE Refusal)

\* An empty or missing response is the fallback, one that is no review is an
\* error, and a review is sent on.
ReadReply(c) ==
    LET text == reply[FileOf(c)]
    IN  Reply(c, "read", CASE text \in {Absent, Blank} -> Fallback
                           [] text \in {Mixed, Refusal} -> Refusal
                           [] text \in Calls -> text)

Handle(c) ==
    \/ Parse(c) \/ RejectInvalid(c) \/ FindResume(c) \/ ResumeNotFound(c)
    \/ Prepare(c) \/ CannotPrepare(c)
    \/ OpenPayload(c) \/ OpenPayloadFails(c) \/ WritePayload(c)
    \/ Spawn(c) \/ Returned(c) \/ ReadReply(c)

----------------------------------------------------------------------------
(* The command: the shell opens "> response", curl reads "-d @payload" and   *)
(* writes what the model service sends back, if anything.                    *)

\* Mutant: an old response is not truncated.
RedirectInPlace(c) ==
    /\ proc[c] = "shell"
    /\ proc' = [proc EXCEPT ![c] = "curl"]
    /\ UNCHANGED <<given, pc, prompt, files, answer>>

Redirect(c) ==
    /\ proc[c] = "shell"
    /\ proc' = [proc EXCEPT ![c] = "curl"]
    /\ reply' = [reply EXCEPT ![FileOf(c)] = Blank]
    /\ UNCHANGED <<given, pc, prompt, payload, answer>>

CurlReads(c) ==
    /\ proc[c] = "curl"
    /\ proc' = [proc EXCEPT ![c] = "sent"]
    /\ prompt' = [prompt EXCEPT ![c] = payload[FileOf(c)]]
    /\ UNCHANGED <<given, pc, files, answer>>

\* A review of the prompt, if it is one prompt; a refusal; or nothing at all.
CurlEnds(c) ==
    /\ proc[c] = "sent"
    /\ proc' = [proc EXCEPT ![c] = "done"]
    /\ \/ UNCHANGED reply
       \/ \E sent \in {Refusal} \cup ({prompt[c]} \cap Calls) :
            \E text \in Written(reply[FileOf(c)], sent) :
               reply' = [reply EXCEPT ![FileOf(c)] = text]
    /\ UNCHANGED <<given, pc, prompt, payload, answer>>

Command(c) == Redirect(c) \/ CurlReads(c) \/ CurlEnds(c)

\* The server dies and restarts; shells and curls that run go on.
Restart ==
    /\ \E c \in Calls : pc[c] \in Busy
    /\ pc' = [c \in Calls |-> IF pc[c] \in Busy THEN "lost" ELSE pc[c]]
    /\ UNCHANGED <<given, prompt, proc, files, answer>>

\* POST /upload, on another thread, has put a text under i.
Deposit(i) ==
    /\ published' = published \cup {i}
    /\ UNCHANGED <<mode, request, pc, prompt, proc, files, answer>>

Next ==
    \/ \E i \in Ids : Deposit(i)
    \/ \E c \in Calls : Send(c) \/ Handle(c) \/ Command(c)
    \/ Restart

Spec == Init /\ [][Next]_vars

\* Every handler runs on.  curl is given no --max-time: nothing says that it
\* ends, only that the shell starts it and that it reads its payload.
Fairness ==
    \A c \in Calls : WF_vars(Handle(c)) /\ WF_vars(Redirect(c) \/ CurlReads(c))

FairSpec == Spec /\ Fairness

----------------------------------------------------------------------------
(* Properties.                                                               *)

\* Type invariant of calls and files.
TypeOK ==
    /\ mode \in [overlap : BOOLEAN, faults : BOOLEAN]
    /\ request \in [Calls -> [valid : BOOLEAN, id : Ids, role : Roles]]
    /\ published \subseteq Ids
    /\ pc \in [Calls -> {"unsent", "answered", "lost"} \cup Busy]
    /\ prompt \in [Calls -> Calls \cup {Absent, Blank, Mixed}]
    /\ proc \in [Calls -> {"none", "shell", "curl", "sent", "done"}]
    /\ payload \in [Ids -> Calls \cup {Absent, Blank, Mixed}]
    /\ reply \in [Ids -> Calls \cup {Absent, Blank, Mixed, Refusal}]
    /\ answer \in [Calls -> Calls \cup {Unanswered, Fallback, Refusal}]

\* However calls, shells, curls, failing opens and writes and restarts interleave, a
\* review that is sent to a caller is a review of the resume the caller named:
\* no candidate reads about another one.
ReviewOfOwnResume ==
    \A c \in Calls : answer[c] \in Calls => Id(answer[c]) = Id(c)

\* A call that names no uploaded resume leaves no file behind: ids come from the
\* client and become file names, and only those with a text ever do.
FilesOnlyForPublished ==
    \A i \in Ids : payload[i] # Absent \/ reply[i] # Absent => i \in published

\* Calls with one id follow each other, and nothing fails to open, to write or to fork.
Serial == ~mode.overlap /\ ~mode.faults

\* While the calls with one id follow each other and nothing fails to open, write
\* or fork, every caller gets the review of its own prompt, so of its own role,
\* although the files of the earlier calls are still there, half written by a
\* server that died or not; and no file ever holds two texts.
OwnReview ==
    Serial =>
        /\ \A c \in Calls : answer[c] \in Calls => answer[c] = c
        /\ \A i \in Ids : Mixed \notin {payload[i], reply[i]}

\* A handler is stopped by nothing but a curl that does not come back.
AnsweredUnlessCurlHangs ==
    \A c \in Calls :
        pc[c] = "parse" ~>
            (pc[c] \in {"answered", "lost"} \/ [](proc[c] = "sent"))
=============================================================================
