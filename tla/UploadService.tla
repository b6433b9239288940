---------------------------- MODULE UploadService ----------------------------
(* POST /upload of main.cpp as the worker threads of the server run it: the  *)
(* handler of each call cut at the points where other threads, pdftotext     *)
(* processes or a restart can get in between.  Files are sets of records, so *)
(* that two calls with one id really would share a file.                     *)
EXTENDS Integers, Sequences

CONSTANTS
    Calls,      \* POST /upload calls, all of them over the life of the files
    Workers,    \* the server's worker threads
    Requests,   \* the multipart bodies a client may send
    NoId,       \* "no request id made yet"
    MaxClock    \* bound: the last instant of the clock

Ids == [now : Nat, thread : Workers, seq : Nat]

\* wellFormed: crow's multipart parser accepts the body.
\* parts[i]: the i-th part has a non-empty body.
ASSUME RequestsAssumption ==
    \A r \in Requests : r \in [wellFormed : BOOLEAN, parts : Seq(BOOLEAN)]
ASSUME NoIdAssumption == NoId \notin Ids
ASSUME MaxClockAssumption == MaxClock \in Nat

VARIABLES
    pc,         \* how far the handler of each call is
    worker,     \* the thread each call's connection is pinned to
    request,    \* what each call sent
    now,        \* the handler's local "now"
    id,         \* the handler's local "requestId"
    child,      \* the pdftotext process of each call
    answer,     \* the response of each call; status 0: none
    uploads,    \* files of uploads/
    extracted,  \* resume_*.txt files of extracted/
    clock,      \* the system clock
    born,       \* when the running process started
    counter,    \* makeRequestId's static counter
    held        \* the threads that an /evaluate handler runs on

local == <<worker, request, now, id>>
disk == <<uploads, extracted>>
process == <<clock, born, counter, held>>
vars == <<pc, local, child, answer, disk, process>>

Running == {"parse", "stamp", "count", "save", "spawn", "wait", "score"}
States == {"unsent", "queued", "answered", "lost"} \cup Running

\* A file: whose upload it was made from, which part, and whether all of it.
Files == [id : Ids, of : Calls, part : Nat, whole : BOOLEAN]

Answers == [status : {0, 200, 400, 500}, cors : BOOLEAN,
            id : Ids \cup {NoId}, basis : SUBSET Files]

NoAnswer == [status |-> 0, cors |-> FALSE, id |-> NoId, basis |-> {}]

Init ==
    /\ pc = [c \in Calls |-> "unsent"]
    /\ worker \in [Calls -> Workers]
    /\ request \in [Calls -> Requests]
    /\ now = [c \in Calls |-> 0]
    /\ id = [c \in Calls |-> NoId]
    /\ child = [c \in Calls |-> "none"]
    /\ answer = [c \in Calls |-> NoAnswer]
    /\ uploads = {}
    /\ extracted = {}
    /\ clock = 0
    /\ born = 0
    /\ counter = 0
    /\ held = {}

----------------------------------------------------------------------------
\* Creating or truncating a file replaces what was under its name.
Overwrite(files, f) == {g \in files : g.id # f.id} \cup {f}

Goto(c, from, to) ==
    /\ pc[c] = from
    /\ pc' = [pc EXCEPT ![c] = to]

Reply(c, from, status, cors) ==
    /\ Goto(c, from, "answered")
    /\ answer' = [answer EXCEPT ![c] =
                    [status |-> status, cors |-> cors, id |-> NoId, basis |-> {}]]
    /\ UNCHANGED <<local, child, disk, process>>

----------------------------------------------------------------------------
(* The client and the server's loop.                                         *)

Send(c) ==
    /\ Goto(c, "unsent", "queued")
    /\ UNCHANGED <<local, child, answer, disk, process>>

\* No handler of either route runs on w: handlers never yield.
Free(w) == w \notin held /\ \A d \in Calls : worker[d] = w => pc[d] \notin Running

Take(c) ==
    /\ Free(worker[c])
    /\ Goto(c, "queued", "parse")
    /\ UNCHANGED <<local, child, answer, disk, process>>

\* A call that was read, or waits to be, when its connection's deadline fires:
\* the socket is closed, and no handler runs for it.
Drop(c) ==
    /\ Goto(c, "queued", "lost")
    /\ UNCHANGED <<local, child, answer, disk, process>>

\* The other long handler that a thread may be given.  Its curl has no limit.
EvaluateBegins(w) ==
    /\ Free(w)
    /\ held' = held \cup {w}
    /\ UNCHANGED <<pc, local, child, answer, disk, clock, born, counter>>

EvaluateEnds(w) ==
    /\ w \in held
    /\ held' = held \ {w}
    /\ UNCHANGED <<pc, local, child, answer, disk, clock, born, counter>>

----------------------------------------------------------------------------
(* The handler.  Answers built inside the try block without add_header carry *)
(* no CORS header; the catch block and the 200 answer do.                    *)

RejectMalformed(c) ==
    /\ ~request[c].wellFormed
    /\ Reply(c, "parse", 500, TRUE)

RejectNoParts(c) ==
    /\ request[c].wellFormed
    /\ request[c].parts = <<>>
    /\ Reply(c, "parse", 400, FALSE)

\* create_directories may throw.
MakeDirectories(c) ==
    /\ request[c].wellFormed
    /\ request[c].parts # <<>>
    /\ \/ Reply(c, "parse", 500, TRUE)
       \/ /\ Goto(c, "parse", "stamp")
          /\ UNCHANGED <<local, child, answer, disk, process>>

\* makeRequestId, first half: the clock and the thread id.
ReadClock(c) ==
    /\ Goto(c, "stamp", "count")
    /\ now' = [now EXCEPT ![c] = clock]
    /\ UNCHANGED <<worker, request, id, child, answer, disk, process>>

\* Mutants: the id without one of its parts, or one off.
IdWithoutClock(c) == [now |-> 0, thread |-> worker[c], seq |-> counter]
IdWithoutCounter(c) == [now |-> now[c], thread |-> worker[c], seq |-> 0]
IdOffByOne(c) == [now |-> now[c], thread |-> worker[c], seq |-> counter - 1]

NewId(c) == [now |-> now[c], thread |-> worker[c], seq |-> counter]

\* makeRequestId, second half: counter.fetch_add(1).
FetchAdd(c) ==
    /\ Goto(c, "count", "save")
    /\ id' = [id EXCEPT ![c] = NewId(c)]
    /\ counter' = counter + 1
    /\ UNCHANGED <<worker, request, now, child, answer, disk, clock, born, held>>

NoBody(c) == \A i \in DOMAIN request[c].parts : ~request[c].parts[i]

\* Mutant: no break after the part is saved.
IsLastBody(c, i) ==
    /\ i \in DOMAIN request[c].parts
    /\ request[c].parts[i]
    /\ \A j \in DOMAIN request[c].parts : j > i => ~request[c].parts[j]

IsFirstBody(c, i) ==
    /\ i \in DOMAIN request[c].parts
    /\ request[c].parts[i]
    /\ \A j \in DOMAIN request[c].parts : j < i => ~request[c].parts[j]

RejectEmptyParts(c) ==
    /\ NoBody(c)
    /\ Reply(c, "save", 400, FALSE)

\* Whether the file could be opened and written in full is never looked at.
SavePart(c) ==
    /\ Goto(c, "save", "spawn")
    /\ \E i \in DOMAIN request[c].parts :
          /\ IsFirstBody(c, i)
          /\ \/ \E whole \in BOOLEAN :
                  uploads' = Overwrite(uploads,
                    [id |-> id[c], of |-> c, part |-> i, whole |-> whole])
             \/ UNCHANGED uploads
    /\ UNCHANGED <<local, child, answer, extracted, process>>

\* system(): the shell is started, or fork fails.
Spawn(c) ==
    /\ Goto(c, "spawn", "wait")
    /\ \E s \in {"running", "failed"} : child' = [child EXCEPT ![c] = s]
    /\ UNCHANGED <<local, answer, disk, process>>

\* Mutants: a broken PDF blamed on the request; no answer to it at all.
BlameUpload(c) == child[c] = "failed" /\ Reply(c, "wait", 400, FALSE)
NoReplyToBadPdf(c) == FALSE /\ child[c] = "failed"

\* system() returned non-zero.
RejectUnreadablePdf(c) ==
    /\ child[c] = "failed"
    /\ Reply(c, "wait", 500, FALSE)

\* Mutant: the result of system() is not looked at.
ExtractedOrNot(c) ==
    /\ child[c] \in {"ok", "failed"}
    /\ Goto(c, "wait", "score")
    /\ UNCHANGED <<local, child, answer, disk, process>>

Extracted(c) ==
    /\ child[c] = "ok"
    /\ Goto(c, "wait", "score")
    /\ UNCHANGED <<local, child, answer, disk, process>>

\* The resume is parsed from its text (or, when the text cannot be opened,
\* scored as an empty candidate) and ranked, and the id goes to the client.
Publish(c) ==
    /\ Goto(c, "score", "answered")
    /\ \E basis \in {{}, {f \in extracted : f.id = id[c]}} :
          answer' = [answer EXCEPT ![c] =
            [status |-> 200, cors |-> TRUE, id |-> id[c], basis |-> basis]]
    /\ UNCHANGED <<local, child, disk, process>>

\* No job_profiles folder, or a profile whose MinExperience is no number.
RankingThrows(c) == Reply(c, "score", 500, TRUE)

Handle(c) ==
    \/ RejectMalformed(c) \/ RejectNoParts(c) \/ MakeDirectories(c)
    \/ ReadClock(c) \/ FetchAdd(c)
    \/ RejectEmptyParts(c) \/ SavePart(c)
    \/ Spawn(c) \/ RejectUnreadablePdf(c) \/ Extracted(c)
    \/ Publish(c) \/ RankingThrows(c)

----------------------------------------------------------------------------
(* pdftotext, which is not part of this code: it reads the saved file and    *)
(* writes the text, or fails, perhaps after writing some of it.  It outlives *)
(* a server that dies while waiting for it.                                  *)

ConvertWhole(c) ==
    /\ child[c] = "running"
    /\ \E f \in uploads :
          /\ f.id = id[c]
          /\ extracted' = Overwrite(extracted, f)
    /\ child' = [child EXCEPT ![c] = "ok"]
    /\ UNCHANGED <<pc, local, answer, uploads, process>>

ConvertFails(c) ==
    /\ child[c] = "running"
    /\ \/ UNCHANGED extracted
       \/ \E f \in uploads :
            /\ f.id = id[c]
            /\ extracted' = Overwrite(extracted, [f EXCEPT !.whole = FALSE])
    /\ child' = [child EXCEPT ![c] = "failed"]
    /\ UNCHANGED <<pc, local, answer, uploads, process>>

Convert(c) == ConvertWhole(c) \/ ConvertFails(c)

----------------------------------------------------------------------------
Tick ==
    /\ clock < MaxClock
    /\ clock' = clock + 1
    /\ UNCHANGED <<pc, local, child, answer, disk, born, counter, held>>

\* The process dies and is started again: its calls, queued or running, get no
\* answer, the counter starts at zero, files and pdftotext processes stay.
Restart ==
    /\ clock < MaxClock
    /\ clock' = clock + 1
    /\ born' = clock'
    /\ counter' = 0
    /\ held' = {}
    /\ pc' = [c \in Calls |->
                IF pc[c] \in Running \cup {"queued"} THEN "lost" ELSE pc[c]]
    /\ UNCHANGED <<local, child, answer, disk>>

Next ==
    \/ \E c \in Calls : Send(c) \/ Take(c) \/ Drop(c) \/ Handle(c) \/ Convert(c)
    \/ \E w \in Workers : EvaluateBegins(w) \/ EvaluateEnds(w)
    \/ Tick
    \/ Restart

Spec == Init /\ [][Next]_vars

\* Handlers go on, and every pdftotext ends.  A thread's queue is first in, first
\* out (HttpServer, RequestTaken): one that comes free again and again takes a
\* waiting call at last, so Take is strongly fair.  Nothing says that /evaluate ends.
Fairness ==
    \A c \in Calls : WF_vars(Handle(c)) /\ WF_vars(Convert(c)) /\ SF_vars(Take(c))

FairSpec == Spec /\ Fairness

----------------------------------------------------------------------------
(* Properties.                                                               *)

\* Type invariant: every variable keeps to the values its code can give it.
TypeOK ==
    /\ pc \in [Calls -> States]
    /\ worker \in [Calls -> Workers]
    /\ request \in [Calls -> Requests]
    /\ now \in [Calls -> Nat]
    /\ id \in [Calls -> Ids \cup {NoId}]
    /\ child \in [Calls -> {"none", "running", "ok", "failed"}]
    /\ answer \in [Calls -> Answers]
    /\ uploads \subseteq Files
    /\ extracted \subseteq Files
    /\ clock \in Nat /\ born \in Nat /\ counter \in Nat
    /\ held \subseteq Workers

\* makeRequestId never gives two calls one id, whatever the interleaving of its
\* two steps on different threads and although a restart resets the counter.
IdsUnique ==
    \A c, d \in Calls : c # d /\ id[c] # NoId => id[c] # id[d]

\* A 200 answer is computed from the caller's own upload, and from the first
\* part of it that has a body; never from another call's file.
AnswerFromOwnUpload ==
    \A c \in Calls : \A f \in answer[c].basis :
        /\ f.of = c
        /\ f.part \in DOMAIN request[c].parts
        /\ request[c].parts[f.part]
        /\ \A j \in DOMAIN request[c].parts : request[c].parts[j] => f.part <= j

\* The request_id of a 200 answer leads POST /evaluate to the text of that
\* caller's resume, for good: through later uploads, restarts and the
\* pdftotext processes a dead server left behind.
PublishedIdHasText ==
    \A c \in Calls : answer[c].status = 200 =>
        \E f \in extracted : f.id = answer[c].id /\ f.of = c

\* A call that is refused with 400 leaves no file in uploads/ or extracted/,
\* even though its id was made before its parts were looked at.
RefusedLeavesNoFile ==
    \A c \in Calls : answer[c].status = 400 =>
        \A f \in uploads \cup extracted : f.of # c /\ f.id # id[c]

\* A text that was extracted once is never replaced or removed (nothing in
\* main.cpp deletes a file, and no later call writes to the same name).
TextsAreFinal == [][extracted \subseteq extracted']_vars

\* A call that waits for its thread is answered, or its connection or its server
\* goes, unless an /evaluate that never ends holds that very thread: no handler
\* path ends without a response, and what other threads do is no matter.
EveryCallAnswered ==
    \A c \in Calls : pc[c] = "queued" ~>
        (pc[c] \in {"answered", "lost"} \/ [](worker[c] \in held))

\* How callers see an answer.
OutcomeOf(a) ==
    CASE a.status = 0 -> [kind |-> "pending", ids |-> {}]
      [] a.status = 200 -> [kind |-> "published", ids |-> {a.id}]
      [] OTHER -> [kind |-> "refused", ids |-> {}]

\* The handler implements ResumeStore: to its callers, uploads are deposits on
\* a shelf where ids are never shared.
Store == INSTANCE ResumeStore WITH
    texts <- {[id |-> f.id, of |-> f.of] : f \in extracted},
    outcome <- [c \in Calls |-> OutcomeOf(answer[c])]
ImplementsResumeStore == Store!Spec
=============================================================================
