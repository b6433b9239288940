# Resume matcher: TLA+ models, checks and proofs

The program is a C++ web server (`src/src/main.cpp`, on the vendored crow and
asio libraries) with a React page in front of it. A client uploads a PDF resume;
the server saves it, has `pdftotext` extract its text, parses the text into a
`Candidate`, scores it against every profile in `job_profiles/` and answers with
a ranking and a `request_id`. With that id and a role the client can then ask
for a review, which the server gets from a language model through `curl`.

This directory holds TLA+ modules translated from that source, TLC
configurations that check them on small instances, and TLAPS proofs of what they
check: about the two request handlers, the page, page and server together, crow,
and the seven sequential parts. `PROJECT.json` lists every
run, the source lines of every definition, the hazards the properties are aimed
at, and the theorems.

## 1. Inventory

| Component | Source | State it keeps | Operations |
|---|---|---|---|
| `POST /upload` | `main.cpp:57-64, 92-259` | the static `counter`; files of `uploads/` and `extracted/`; per call the locals `now`, `requestId`, `fileSaved` | `makeRequestId`, save the first non-empty part, run `pdftotext`, parse, rank, answer |
| Ranking in `POST /upload` | `main.cpp:154-240` | `allResults`, `bestScore`, `bestRole`, `bestMatch` | scan the profile folder, sort, build the JSON answer |
| `POST /evaluate` | `main.cpp:273-432` | `gemini_payload_<id>.json`, `gemini_response_<id>.json` | look up the text, build the prompt, write the payload, run `curl`, read the response |
| Job profiles | `FileManager.cpp:381-456`, `Job.cpp`, `Job.h` | the `Job` under construction, `title`, `readingMandatory` | one branch per kind of line; the `add` operations of `Job` |
| Resume parser | `FileManager.cpp:150-376`, `Resume.cpp`, `Candidate.cpp`, `Person.cpp` | contact fields, section flags, `detectedSkills`, the `Resume` | one pass over the lines; the `add` operations of `Resume` |
| Matcher | `JobMatcher.cpp` | none | `evaluateCandidate`, `getFitCategory` |
| Web frontend | `resume-frontend/src/App.js` | chosen file, error line, loading, result, selected role, feedback card, requests in flight | upload, select a role, ask for feedback, retry |
| Server start | `main.cpp:18-90, 434-446` | environment, port | read two `.env` files, register routes, start the threads |
| crow, as far as handlers depend on it | `include/crow/http_server.h`, `http_connection.h`, `task_timer.h` | worker threads with a queue and a timer each, connections pinned to them, their deadlines | accept, read, call a handler, read on, close what is silent |

The rest of the vendored libraries, build files, sample data, deployment and page
styling carry no logic of the program and are left out.

**How they interact.** Crow calls a handler on the thread its connection is
pinned to; a handler never yields, so a thread runs one at a time and the
handlers of different threads interleave at will. The handlers share two things:
`counter`, and the file system, where every name is made from a request id.
`system()` adds child processes that work on those files and that outlive a
server which dies. The id that one call of `/upload` publishes is the key that a
later `/evaluate` uses, so the text has to be there from the moment the id is
sent, and to stay. The loader, the parser and the matcher are called by the
handlers and share nothing.

**What is hard here**, and hardly reached by a test:

- two threads in `makeRequestId` at once; the counter starting over after a
  restart while the files of the last process are still there;
- writes and child processes that fail without anyone looking, half-written
  texts, a `pdftotext` that goes on after its server died;
- payload and response files keyed by the request id alone: overlapping calls,
  responses left by earlier calls, a `curl` that belongs to a dead server;
- a `curl` without a time limit holding a worker thread;
- a page whose answers come late: after a new upload, under another role, or not
  at all, and a retry while the server still works on the first request;
- deadlines of crow that fire while a worker is blocked in a handler, and whose
  ids are given out again;
- line-order effects in both parsers (a `MinExperience:` line starts the job
  over; headings swallow their line; empty lines count towards the first two);
- a maximum score that is capped where the score is not; zero and negative
  weights; an uninitialised `bestMatch`; an unspecified directory and sort order.

**What makes each component correct.**

- `/upload`: ids are never shared; an answer comes from the caller's own file;
  a published id has its text for good; a call refused with 400 leaves nothing
  behind; a call that arrived is answered, unless an `/evaluate` that never ends
  holds its thread, or its connection or its server goes.
- Ranking: the answer shows the highest score and its title whatever the
  directory order; the list and the best match agree; the percentage is one that
  was calculated (which fails when no score is above -1: see section 4).
- `/evaluate`: no caller ever reads about another resume; with calls on one id
  in sequence, a caller reads the answer to its own prompt; only a hanging
  `curl` stops a handler.
- Page: result, review and skills on screen belong to one upload; a spinner
  stands for one fetch and ends.
- Page and server together: the review a user reads is about the resume on
  screen, whatever gets lost; without failures one page keeps the calls on one
  id in sequence, which is what `/evaluate` needs of its callers.
- crow: no connection is gone on with twice or forgotten, a worker runs one
  handler at a time, a waiting request is taken unless a handler hangs.
- Server start: the first setting of a variable counts; the port is that of
  `PORT`, modulo 2^16.
- Unwrapping of a review, and names: against what the text plainly says.
- Loader and parser: what they return is what the lines of the file say,
  stated without the flags the code goes through.
- Matcher: a score is a percentage under the assumptions its comments make, is
  full for a full resume, and is monotone in the resume and in the demands of
  the job; the missing skills come in the order of what learning them would bring.

## 2. Modules

| Module | Role |
|---|---|
| `ResumeStore` | abstract: what `/upload` promises (a shelf of texts that only grows, one fresh id each, one outcome per call) |
| `WorkerPool` | abstract: what crow promises to handlers (one worker per connection, one handler at a time on it) |
| `UploadService` | `POST /upload` on several threads, with child processes and restarts, on threads that `/evaluate` may hold; implements `ResumeStore` |
| `UploadServiceProofs` | its invariants, its refinement of `ResumeStore`, and the safety half of its liveness property, proved |
| `EvaluateService` | `POST /evaluate`: overlapping calls, shared files, shells and curls, restarts |
| `EvaluateServiceProofs` | its types and safety invariants, and the safety half of its liveness property, proved |
| `Frontend` | the page: panels, card, fetches in flight |
| `FrontendProofs` | its safety invariants, proved |
| `ReviewSystem` | the page on top of `ResumeStore` and `EvaluateService` |
| `ReviewSystemProofs` | its safety invariants, the discipline of its page and its refinement of `Frontend`, proved, with the theorems of the parts |
| `HttpServer` | crow under the handlers: acceptor, workers, connections, deadlines; implements `WorkerPool` |
| `HttpServerProofs` | its safety invariants and its refinement of `WorkerPool`, proved |
| `ServerConfig` | the `.env` files and the port |
| `ModelReply` | the ways out of `/evaluate` after curl, and the unwrapping of a review |
| `MainProofs` | what `ServerConfig` and `ModelReply` promise, and that the parts of `MCParts` do side by side all that each does alone, proved |
| `RoleRanking` | the scan, the sort and the answer in `/upload` |
| `JobProfile` | `loadJobFromFile` and `Job` |
| `ResumeParser` | `parseUnstructuredResume` and `Resume` |
| `FileManagerProofs` | that a job, a candidate and a name are what their lines say, proved |
| `NameExtractor` | `extractNameFromLine` |
| `JobMatcher` | `evaluateCandidate` as an operator, and the operations that build its arguments |
| `ScoringProofs` | what `RoleRanking` and `JobMatcher` promise, proved |
| `MC*` | small instances for TLC; `MCParts` extends the seven sequential parts and runs them side by side |

How they compose: `ReviewSystem` has `Frontend` above `ResumeStore` and
`EvaluateService`; `UploadService` is shown to implement `ResumeStore`, and
`HttpServer` to implement `WorkerPool`. What `UploadService` takes for granted
of its threads, that they run one handler at a time and take a waiting request
at last, is what `HttpServer` shows (`ImplementsWorkerPool`, `RequestTaken`).
`HttpServer` knows of a handler only that it runs and may return; the seven
parts of `MCParts` are called inside one step of a handler and share no state,
which is why one run can take them side by side.

### UploadService

A call moves through `pc`: `unsent`, `queued` (the request is on a connection),
then `parse`, `stamp`, `count`, `save`, `spawn`, `wait`, `score`, and finally
`answered`, or `lost` when the process dies under it. The cuts are where another
thread, a child process or a crash can get in between: `makeRequestId` is two
steps (`ReadClock`, `FetchAdd`), since only the second one is atomic. `worker[c]`
is the thread of the call's connection; `Take` starts a handler only when its
thread runs no other (`Free`), of this route or of `/evaluate`: `held` are the
threads an `/evaluate` handler runs on. `EvaluateEnds` may never come, since that
handler's `curl` has no time limit. `Drop` is a request that crow drops because a
deadline closed its connection while it waited.

An id is the record of what the id string is made of: instant, thread and
counter value. Files are sets of records that bear an id, the call they were
made from, the part, and whether they are whole; `Overwrite` replaces what had
the same id, so that a shared id really would be a shared file. `SavePart` may
fail or write a part of the file without the handler noticing, as `std::ofstream`
does here. `Convert` is `pdftotext`, outside the code: it writes the text, or
fails, perhaps after writing some of it. `Restart` sets the counter to zero,
loses the calls in progress and leaves files and children alone. An answer with
status 200 records its `basis`, the files it was computed from; parsing and
scoring are inside that step, since they touch only the handler's own data.

`cors` in an answer is whether the response has the CORS header, which the early
returns lack and the `catch` block and the success path set.

### EvaluateService

`pc` follows the handler, `proc` the process it starts: `shell` (before
`> response` is opened), `curl` (before `-d @payload` is read), `sent`, `done`.
A text is abstracted to the call whose prompt it is or answers, so `reply[i] = c`
reads "the response file of id `i` holds the review of the prompt of `c`";
`Blank`, `Mixed` and `Refusal` are an empty file, one with pieces of two texts,
and anything that is no review. `OpenPayload` truncates and `WritePayload`
writes over whatever is there by then, so overlapping calls can mix. `mode` is
fixed in the initial state: `mode.overlap` says whether calls with one id may run
together, `mode.faults` whether `open`, the write and `fork` may fail, which the
handler never looks at. A failing write leaves what was in the payload, or part
of the new text, which is `Mixed` as well. With neither, the mode is `Serial`.

### Frontend and ReviewSystem

`Frontend` keeps the state hooks of the three React components that have any.
`loading` unmounts the feedback card, so a review that arrives for the card of an
earlier result changes nothing: asks carry the `mount` they were started on. A
render and its effects are two steps where a fetch causes them (`ShowUpload`,
then `Settle`), since React runs them apart, and one step where a click does.
Clicks, answers and effects interleave freely.

`ReviewSystem` lets the answers come from `ResumeStore`, which stands for
`/upload` by the refinement proved in `UploadServiceProofs`, and from
`EvaluateService`: the request id of an upload is named by the upload, and a
call to `/evaluate` is the page's ask. Unless `reliable`, requests and answers
get lost, opens, writes and forks fail and the server restarts. The canned
review of `main.cpp:353-364` names no resume and the page cannot tell it from
another, so it counts as one of the resume it was asked for. Here users click
only after the effects have run.

### HttpServer

A worker is an `io_context` with a queue of callbacks and a `task_timer`. What a
client sends comes in chunks: a part of a request, the end of a request, the end
of the last one, or the end of the stream. A callback names its connection, and
`state` what it is. `Accept` pins a connection to the worker that was picked when
the acceptor began to wait. `Poll` is the reactor: it runs between callbacks and
queues connections with data and the timer's tick. `RunTick` closes the sockets
whose deadline is due, which aborts their reads; a request already read then
meets `adaptor_.address()` (`http_connection.h:153`), which throws on a closed
socket, so it is dropped without a handler. `Renewed` resets `highest_id_` when a
timer has no task left (`task_timer.h:143`). `Staying` is what is left of a queue
without some connections, in its order: the callbacks that go on after a tick.

### ServerConfig, ModelReply and NameExtractor

`ServerConfig` reads the lines of both files in order over any environment; a
value is a text with a quote or none at each end. `PORT=0`, for which the system
picks a port, is port 0 here: where that server then listens is not looked at.
`ModelReply` writes a text piece by piece (fences, the word `json`, white space,
values, the two ends of a value around a string, words) and answers with what
`/evaluate` makes of it. `NameExtractor` looks at a line of pieces: words,
keywords, `@`, digits and brackets, other signs, white space. The code only ever
takes characters away, so what is left of a line after each of its steps is a
set of places in it, and a word of the name is such a set too. Order and letters
are those of the line.

### RoleRanking, JobProfile, ResumeParser, JobMatcher

`RoleRanking` has one step per directory entry, in any order, and sorts into any
of the orders `std::sort` may leave. An entry is a title, a score, and whether
its loading throws; `bestMatch` starts with any value, as the uninitialised
`double` does.

`JobProfile` and `ResumeParser` read a file of any lines, one action per branch
of the loop. A line is a record of what the code's searches find in it: its
kind, skill and number for a profile; name, e-mail, phone, section words and
ontology groups for a resume. History variables (`profileLines`, `resumeLines`)
keep the lines, and the properties say what the result has to be in terms of
those alone.

`JobMatcher` has the arguments of `evaluateCandidate` as its state and the `add`
operations of `Resume` and `Job` as its actions, so that every reachable state
is a pair the program can build and an action property can compare the scores
before and after an addition. Percentages are exact hundredths.

## 3. Runs

| Run | Bounds | Shows |
|---|---|---|
| `upload` | 2 calls, 2 threads, 4 kinds of body, clock to 2 | types, unique ids, answers from the caller's own first non-empty part, texts that are there and stay, no files after a 400, every call answered unless an `/evaluate` hangs on its thread or its connection is dropped, refinement of `ResumeStore` |
| `evaluate` | 2 calls, 2 ids, all four modes, texts that appear at any time | no review of another resume; no files for unknown ids; in serial mode own reviews and unmixed files; a handler ends unless its curl hangs |
| `frontend` | 3 uploads, 3 asks, 2 roles, 4 rankings | result, review, spinner and skills on screen belong together |
| `frontend_role` | as `frontend` | **violated**: a review for a role that is not selected |
| `review_system` | 2 uploads, 2 asks, 1 role, reliable or not | end to end: the review read is about the resume shown; ids asked about are known; a reliable page keeps calls apart, and its spinner ends |
| `review_retry` | 2 uploads, 2 asks, 2 roles | **violated**: a retry for another role gets the first role's review |
| `http_server` | 3 connections, 2 workers, 1 chunk each | one continuation per connection, every deadline has its owner, refinement of `WorkerPool` |
| `http_live` | 2 connections on 1 worker, 2 chunks each | a request is taken unless a handler of its worker hangs |
| `http_deadline` | 2 connections on 1 worker | **violated**: a connection that is waited on without a deadline |
| `parts` | profiles of 4 lines over 5 spellings; resumes of 5 lines of 8 kinds; 2 skills, weights -30, 0, 40, 6 certifications, 2 lines each; 4 profiles with 3 scores and 3 titles; 2 `.env` lines; texts of 6 pieces; names in lines of 7 pieces | jobs and candidates are what their lines say; the score's range, full score and monotonicity; the order of the missing skills; the answer's best role, list and comparison; which setting counts and which port it makes; reviews arrive whole; names are of their line |
| `job_profile_words` | the profiles of `parts` | **violated**: a listed one-word skill is not mandatory |
| `job_matcher_certificates` | the resumes of `parts` | **violated**: more than 100 % |

Every property of a passing run has a mutant in `PROJECT.json`: a plausible slip
in the code (a dropped guard, a missing reset, a swapped order) under which the
same run reports the property violated.

**Why the bounds are enough.** Sharing of an id, a thread or a file takes two
calls. The clock bound of 2 gives up to two restarts, with ids of both earlier
processes around. `<<empty, full, full>>` tells the first non-empty part from
the first and the last. Two evaluations are a stale file's writer and its
reader, and the theorems hold for any number. Three uploads and three asks let
the card of a result meet late answers for both of its predecessors. Three
connections are one more than the workers, so that two share one, and a second
chunk is a request behind a request. `http_live` has one worker, since three
connections on two workers are out of reach for a liveness check: which worker a
connection gets is in `http_server`, and that what a worker has been given is
taken is in `http_live`; that it might have been taken sooner elsewhere, nobody
promises. In `review_system` a role plays no part in which resume a review is
about; `review_retry` has two. Four profiles are one more than are listed. Four
profile lines are a title, an experience line, a header and a skill in any
order; five resume lines are two head lines, a heading, a line under it and one
more. Six certifications are one more than the maximum counts; two skills are
the fewest with a matched and a missing one. Six pieces are a fenced value with
a fence inside its string; seven pieces of a line are four words with white
space between them, one more than a name keeps; two `.env` lines are two in one
file or one in each.

**Deadlock** is not checked because every model has finitely many calls or
lines: when they are used up the model stops, while the server waits for more.
That no call is left hanging is checked by the liveness properties instead.

**Fairness.** `EveryCallAnswered` and `AnsweredUnlessCurlHangs` assume weak
fairness per call of the handler's steps (once it runs, a handler has a thread
of its own and waits for no other), that a shell starts its command, and that
`pdftotext` ends on any file. `Take` is strongly fair: the queue of a thread is
first in, first out, so a thread that becomes free again and again takes a
waiting call at last, which is `RequestTaken` of `HttpServer`. A thread that an
`/evaluate` holds for ever never becomes free, and the property says so. Nothing
is assumed about clients, restarts, dropped requests, `/evaluate` handlers in
`UploadService`, or `curl`: it is given no `--max-time`, so it may never end.
`RequestTaken` assumes that every idle `io_context` runs its callbacks and asks
its reactor when a socket has data, not that a handler returns, nor that a timer
ticks. `GenerateEnds` adds to the handler's fairness that the network delivers
an answer there is, and that the browser fails a fetch whose call did not arrive
or died with its server.

## 4. Findings

Each of these is a run that violates what a line of the repository says.

- `loadJobFromFile` skips lines without a space, so mandatory skills of one word
  are dropped (`FileManager.cpp:423`; `Job.h:14` "Mandatory skills (must exist)").
  `job_profiles/job_android.txt` loses both of its own.
- Certifications beyond five raise the score but not the maximum
  (`JobMatcher.cpp:88`, with the comment at line 92): percentages over 100.
- A review stays on the card, or arrives there late, when another role is
  selected (`App.js:182`; `App.js:235` promises the role).
- After an answer that got lost, a retry for another role shares the files of the
  evaluation that still runs, and is answered with its review (`main.cpp:332`,
  `App.js:253`).
- Ids of crow's deadlines start again when a timer is empty, so one connection's
  aborted read cancels the deadline of another (`task_timer.h:143`; `app.h:336`
  sets a timeout for every connection).

Noted while translating, without a run of their own:

- When no profile scores above -1, as with an empty folder or negative weights, the
  percentage of the answer is what the uninitialised `bestMatch` held
  (`main.cpp:158`, sent at 223). In `parts` TLC finds `PercentageIsAScore` of
  `RoleRanking` violated at once; it is not among the properties of a run, since no
  line of the repository speaks of this case. With shipped profiles, whose weights
  are positive, it does not happen (`CalculatedUnlessNegative`).
- `README.md:13` names three fit levels, the code has five.
- Without `GEMINI_MODEL` the server asks `gemini-2.5-flash` (`main.cpp:340`);
  `.env.example:3` calls `gemini-2.5-flash-lite` the default.
- A markdown block after white space is not unwrapped, since fences are looked for
  before the text is trimmed (`main.cpp:393`; the comment at 392).
- A line is cut at its `@`, so what stands before it remains and may be taken for
  a word of the name (`FileManager.cpp:88`; the comment at 85), and it is cut at
  one keyword only (`FileManager.cpp:103`; the comment at 90).
- The refusals of `/upload` at `main.cpp:100`, `130` and `142` carry no CORS
  header, so a page of another origin reports an unreachable server
  (`App.js:472`).

## 5. Proofs

The theorems hold for any set of calls, threads, requests, ids, roles, profiles,
connections, lines and settings, and any bounds on them. They rest on the named
assumptions of the modules only:

- `UploadService`: request bodies are sequences of parts, `NoId` is no id, the
  clock's bound is a number; `EvaluateService`: the marks for special files are
  no calls and differ; `Frontend`: a ranking has a best role and a list of roles,
  and the mark for no review is none; `ReviewSystem`: the last two.
- `HttpServer`: at least one thread, finitely many connections, which are neither
  `None` nor `Tick`.
- `RoleRanking`: a folder has finitely many profiles, scores are integers;
  `JobMatcher`: finitely many skills, integer weights; `JobProfile`: lower case and
  the cut at the first letter are functions on spellings, experiences and weights
  are integers; `ResumeParser`: the attributes of a line have their types and a
  line has finitely many skills; `NameExtractor`: pieces are of the kinds it knows;
  `ServerConfig`: `stoi` yields an integer or nothing, and names of variables are
  not empty.

The proof modules go the same way: an invariant that says how the code's
variables hang together, a lemma that each action keeps it, and theorems read
off from it. `ReviewSystemProofs` and the end of `MainProofs` also use the
theorems of their parts.

**Towards liveness.** Fairness is out of the provers' reach, but most of what a
liveness property rests on is not about fairness: that there always is a way on,
and that no step goes back. For each of the four liveness properties these are
theorems. `NoHandlerIsStuck` (every handler of `/upload` about to save has a
part to save or none with a body, and one that waits has a `pdftotext` that runs
or has ended: from the moment it has its thread), `OnlyTheCommandHolds` (one of
`/evaluate` that waits has a command that was started), `SpinnersAreServed` (a
spinner without failures has a call with a handler or an answer) and
`RequestsAreSeen` (a request has its connection in a queue, or readable, or
behind a handler) say the first; `HandlersGoForward`, of each handler, the
second: a stage is never taken again, and there are ten of them. What is left to
TLC is that fair steps are then taken, and for `/upload` that a waiting call
gets its thread.

**UploadService.** `TypeCorrect` proves `TypeOK` together with `IdMade` (an id
exists exactly from `save` on), without which a saved file might have no id.
`UniqueIds` needs `IdInv`: an id stamped since the running process was `born`
has a counter value below `counter`, and a handler about to take a counter value
read the clock after `born`. So a new id differs from those of this process in
the counter and from those of earlier ones in the instant.

The file properties need `FileInv` on top: `Owned` (a file's id is that of the
call it was made for, so by unique ids there is one owner), `Converted` (a text
is written by the one `pdftotext` of its call, which no longer runs) and
`AnsweredWell` (an answer is given once, and carries the call's own id and
text). From these follow `OwnUploadAnswered`, `PublishedHasText`, `TextsStay`
(when a `pdftotext` writes, no text has its id yet, so nothing is replaced) and,
with `FilesAfterSave` (a call has files only once a 400 is out of reach),
`RefusedHasNoFile`. `Refinement` maps every step to a deposit, a publication, a
refusal or a stutter of `ResumeStore`. `NoHandlerIsStuck` adds `ChildStarted` (a
call has no child before `wait`, and one from then until it is answered) and
`FirstBody` (if some part has a body, one is the first: the least of a set of
numbers).

**EvaluateService**, in every mode. `OwnResumeReviewed`
needs `SameId`: each text in a payload file, in a curl, in a response file and in
an answer is one of a call with the id of that file or caller, because every
copy is made between two places with one id. `OnlyPublishedHaveFiles` needs that
handlers past the look-up, and the processes they started, have a published id.
`OwnReviewSent` is about serial mode and needs `Apart`: of the calls with one id
one is at work (its handler or the shell and curl it left behind), a payload
stays what that call wrote until its curl has read it, and a response is empty
from the shell's redirection until that call's curl writes; a handler that reads
it has waited for that curl. `OnlyTheCommandHolds` adds `CommandStarted`.

**Frontend**, for any rankings and any number of uploads and asks. `PageInv`
ties the card to the result (`CardOfResult`: a mounted card is that of the last
upload, and there is none while one is in flight), the asks in flight to the
uploads (`AsksAreOld`: none is about a later upload than the last) and the
review to the card (`ReviewOfCard`). From it follow `LastUploadShown`,
`ShownResumeReviewed`, `OneFetchPerSpinner`, `OneFaceShown` and
`SelectedRoleSkills`.

**ReviewSystem**, reliable or not. `SystemInv` joins the invariants of the
parts, whose lemmas come from `FrontendProofs` and `EvaluateServiceProofs` by
`INSTANCE` (every step is a step or a stutter of `EvaluateService`; the page's
own steps are those of `Frontend`, and the answers it gets keep its invariant),
with four facts that only hold of the whole: `OnShelf` (an id that was published
has its text), `KnownIds` (an upload whose result shows roles, and a call that
was sent, name such a text), `RoleChosen` (a card has a role selected) and
`WorkIsAsked` (without failures, a call that has a handler, a shell or a curl is
one the page waits for). `ShownResumeIsReviewed` follows from `PageInv` and
`SameId`: an answer is about the resume of the id asked about, and the page
drops what is for another card. `AsksAreOfKnownResumes` is `KnownIds`.
`PageIsDisciplined` needs `WorkIsAsked`: a card offers to ask only when no ask
about its upload is open, hence when nothing is at work on that id. With that
the serial mode of `EvaluateService` is justified rather than assumed, and
`ReviewsAreOwn` concludes what the handler alone cannot promise: as long as
nothing fails, every review sent is the answer to the caller's own prompt.

`ReliablePage` closes the circle: without failures the page in the whole system
is `Frontend` again. A step of a server is a stutter of the page, and an answer
is one that `Frontend` allows because of `ReviewsAreOwn`: a review names the
resume and the role of its ask, which is all that `Frontend` asks of the
network. With failures it is not, since `Frontend` has no review for another
role; that is the finding `review_retry`, and `RoleKeptIfReliable` is its other
side. What the page promises about results and spinners needs no such thing and
holds in any case (`PageKeepsItsPromises`). `SpinnersAreServed` needs
`AsksAreServed`: without failures every open ask has a call that is with a
handler or answered.

**HttpServer.** `ServerInv` says that the queue of a worker lists exactly its
connections with a callback to come, each once, and at most one tick
(`QueuesListPending`), that `running` and the state `handling` agree
(`HandlersRun`), that the acceptor waits with one connection (`AcceptorWaits`),
that queued readiness means data (`ReadyHasData`) and that a deadline that can
fire belongs to the connection that set it last and is being read
(`DeadlinesOwned`). The last one has to hold although ids are given out again; it
does not say that every connection being read has a deadline, which
`http_deadline` refutes. From it follow `OneGoesOn`, `DeadlinesAreOwned` and
`ServerIsPool`, the refinement of `WorkerPool`. `RequestsAreSeen` and
`DestroyedForGood` add `SilentIsEmpty` (a connection that is not read, being
unmade, not accepted yet or gone, has a closed socket with nothing in it): a
connection with something to read is then in one of the states that
`QueuesListPending` and `HandlersRun` speak of.

**RoleRanking**, for any finite set of profiles and any scores and titles.
`BestSoFar` says that no profile read so far scores above `bestScore`, and that
`bestRole` and `bestMatch` are those of one profile that has it, or that nothing
was chosen yet. `RankedList` (a list of all profiles without repetition misses
none) is a counting argument from the library's theorems on injections. From
them follow `HighestIsShown`, which speaks of the percentage as long as some
profile scores above -1, and `TopRolesAreBest`. `CalculatedUnlessNegative` is
the other side of the uninitialised `bestMatch` (section 4): in a folder with
profiles of which none can score below 0, the percentage is always one that was
calculated. `BestIsFirst` says of the two that they agree: as long as no score
is negative, the percentage next to the best role is the score of the first role
of the list. The two may name different profiles of that score, since ties fall
by the directory in one and by the sort in the other.

**JobMatcher**, for any finite set of skills and any weights, lines and
certifications. `MatchInv` is little more than the types, and the work is in the
operators. A sum over skills is a fold that takes its elements in an order of
its own; `SumOneMore` (any element may be added first) and `SumGrows` get by
without induction, by looking at a smallest set for which the claim fails
(`SmallestSet`). `RoundedRises` and `RoundedFull` are about the division that
makes hundredths. `ScoresRise` then goes through the actions that add to a
resume and the one that adds mandatory skills to a job; `ScaleHolds` is about
every pair of arguments. `MissingSkillsAreAdvice` holds for weights of either
sign: `ScoreOfGain` says what a further skill changes (its weight, if the job
lists it and the resume did not, else nothing), `RoundedNeverFalls` that
rounding does not turn the order around, and `FallingList` that a list sorted by
weight exists, again from a smallest set without one. `ScoresRise` and
`ScaleHolds` say nothing of negative weights, for which they are false.
`ScoresAreNotNegative` drops the limits of `ScaleHolds` on certifications and
projects. `SumsAreBounded` bounds both sums for weights in `0..W`: with ten
skills, weights below 100 and a resume of a hundred lines they stay below 1500,
and an `int` holds them for any weight a profile would give; it comes from
`SumBounded`, again by a smallest set.

**JobProfile** and **ResumeParser**, for files of any number of lines.
`ProfileInv` reads the loader's locals off the lines so far: the title is that
of the last title line (`TitleIsLast`), the flag says whether the next line
stands in a mandatory list (`FlagIsList`), and the `Job` has the weights and
skills of the lines since the last `MinExperience:`. `ParserInv` does the same
for the parser: the section flags name the section of the last heading
(`FlagsSoFar`), and each list of the `Resume` holds the lines that stand under
its heading, in order (`ListsSoFar`), where a list is described by how many of
its lines stand at or above a line. `ProfileMeaning` and `ParserMeaning` follow
when the file ends.

**NameExtractor**, for lines of any length. A name is an operator of its line,
so the work is about sets of places. `NameTypes` needs that the words are in
order (`WordsInOrder`: of two words one lies ahead of the other) and that a set
of words each with fewer than three ahead of it has at most three elements
(`ThreeWords`, by pigeonhole). `NamesAreOfLines` follows what each filter
removes: for `WholeNameIsKept`, each word but the first has a white space in
front of it (`FrontOfWord`), so up to two of these leave up to three words and
nothing is dropped.

**ServerConfig.** `ConfigInv` adds to the properties that the second file has no
lines before the first is through and that a server listens after both
(`ReadInOrder`). A line goes behind all lines so far (`OneSettingMore`), so it is
the first to set a variable exactly if the variable was not set. `PortListens`
rests on `Port16`: what 16 bits keep of a number.

**ModelReply**, for texts of any length. `ReplyInv` says that an answer is what
the text gives, and the rest is about the operators: `TrimmedIs`,
`CutAtLastFence`, and `BlockUnwrapped`, which follows the value through the cut
at both fences. From them follows `ReviewsArrive`.

**What unique ids assume about the clock.** `Restart` moves the clock on. The
code stamps ids with `high_resolution_clock` (`main.cpp:60`), which is the system
clock in libstdc++ and the time since boot in other libraries. Should it stand
still or go back across a restart, the counter alone would not keep new ids apart
from old ones. That is an assumption about the host, which the code shares.

**The parts side by side.** `MCParts` runs the seven parts in one specification.
`PartsDoAllTheirWork` proves that this loses nothing: a behaviour of one part,
from any of its initial states, is one of `PartsSpec` in which the others stand
still, so what TLC finds of a part in `MCParts` holds of it alone. The other
direction, that a part does no more there (`PartsRunAlone`, a lemma), needs a
title, a score and a value for `bestMatch` to begin with; with it `PartsTypes` is
the conjunction of the type theorems of the parts.

**Only model-checked**: the liveness properties `EveryCallAnswered`,
`AnsweredUnlessCurlHangs`, `GenerateEnds` and `RequestTaken`, since TLAPS 1.4.5
has no rule for fairness and ENABLED; their safety halves are theorems, as said
above. Every invariant and every action property that a passing run checks is a
theorem.

## 6. What is abstracted or left out

- Wrap-around of the 64-bit counter, and `int` overflow of summed weights, which
  is undefined in the code and needs weights near 2^31 (`SumsAreBounded` says how
  far the sums reach).
- Binary rounding of intermediate `double`s in the score.
- Writes are cut at open and write: a response that arrives in several network
  chunks is one write, after an open that other processes can get in front of.
- The spelling rules of e-mails and synonyms: what a search finds in a line is an
  attribute of the line. `NameExtractor` has the rules for names.
- Growth of `uploads/` and `extracted/`, which nothing bounds.
- On the page: the drag highlight, the expanded view of a review and the drawing,
  which nothing else reads. The shape of a review is not looked at by the code
  (`App.js:284`) nor here.
- `/upload` in `ReviewSystem` is its abstract specification; a click in the moment
  between a render and its effects is in `Frontend` only.
- In crow: `stop()`, TLS, websockets, middlewares, answers written in pieces, the
  HTTP, multipart and JSON parsers and routing. A request for no known route, and
  bytes that are no HTTP, end the stream; `handle()` and the handler it calls are
  one callback.

**Not modelled.** By lines almost all of the repository is vendored: asio and the
rest of crow, 670 of its 677 implementation files. asio is a library of sockets,
buffers and template adaptors of which the program uses a few calls; those are in
`HttpServer` as what its reactor does, marked external. A model of asio's own
sources would say nothing about this program, so the share of lines that the map
covers stays small however much of the program it covers. Build files,
deployment, sample data and page styling have no behaviour.

## 7. Plan

Done, in this order: `ResumeStore`, `UploadService` and its proofs; `JobProfile`,
`ResumeParser`, `JobMatcher`, `RoleRanking`; `EvaluateService` and its proofs;
`Frontend` and its proofs, `ReviewSystem`; `WorkerPool`, `HttpServer`;
`ServerConfig`, `ModelReply`, `NameExtractor`; the serial discipline of
`EvaluateService` and the properties of `RoleRanking`, proved;
the composition, crow, both parsers, the matcher, the settings and the unwrapping
of a review, proved; names, the composition as a refinement of `Frontend`, the
safety halves of the liveness properties and the parts side by side, proved.

Open: the liveness properties as theorems, once a prover handles fairness; the
bound on sums in `RawScore` as an invariant with 32-bit integers, should profiles
ever carry weights that come near it.
