----------------------------- MODULE HttpServer -----------------------------
(* The vendored crow server under the handlers: the acceptor, the worker      *)
(* threads with one io_context and one task_timer each, and the connections.  *)
(* What a client sends comes in chunks, the bytes of one read: a part of a    *)
(* request, the end of one, the end of the last one (Connection: close), or   *)
(* the end of the stream (also bytes that are no HTTP, or no known route).    *)
EXTENDS Integers, Sequences, SequencesExt, FiniteSets

CONSTANTS
    Conns,      \* connection objects, each for one client
    Threads,    \* number of worker threads: concurrency_ - 1
    None, Tick, \* no connection; the tick of a task_timer in a queue
    MaxChunks   \* bound: chunks a client sends

Workers == 0..(Threads - 1)
Chunks == {"part", "request", "last", "end"}
Complete == {"request", "last"}

ASSUME ServerAssumption ==
    /\ Threads \in Nat \ {0} /\ MaxChunks \in Nat
    /\ IsFiniteSet(Conns)
    /\ None \notin Conns /\ Tick \notin Conns

VARIABLES
    state,      \* where the reading of each connection stands
    home,       \* its worker
    open,       \* its socket is open
    taskId,     \* its task_id_
    inbox,      \* chunks in the socket
    got,        \* the chunk a queued read callback was given, or a handler runs for
    sent,       \* number of chunks each client has sent
    next,       \* the connection the acceptor waits with
    queue,      \* of each worker: callbacks to run, named by connection, or Tick
    running,    \* of each worker: the connection whose handler it runs
    tasks,      \* of each task_timer: tasks_, from ids to connections
    highest,    \* its highest_id_
    due         \* the ids up to this one are due

conns == <<state, home, open, taskId, inbox, got, sent>>
timers == <<tasks, highest, due>>
vars == <<conns, next, queue, running, timers>>

\* Reading: not made yet; made and in the acceptor; posted to its worker;
\* waiting in async_read_some; its callback queued, with data, with a socket
\* that has data, or aborted; in the handler; destroyed.
States == {"unmade", "accepting", "start", "reading", "got", "ready", "abort",
           "handling", "gone"}
Queued == {"start", "got", "ready", "abort"}

Length(w) == Cardinality({c \in Conns : home[c] = w /\ state[c] \notin {"unmade", "gone"}})

\* pick_io_context_idx: the first of the workers with the fewest connections.
Picked == CHOOSE w \in Workers : \A v \in Workers :
              Length(w) < Length(v) \/ (Length(w) = Length(v) /\ w <= v)

Init ==
    /\ next \in Conns
    /\ state = [c \in Conns |-> IF c = next THEN "accepting" ELSE "unmade"]
    /\ home = [c \in Conns |-> 0]
    /\ open = [c \in Conns |-> FALSE]
    /\ taskId = [c \in Conns |-> 0]
    /\ inbox = [c \in Conns |-> <<>>]
    /\ got = [c \in Conns |-> "end"]
    /\ sent = [c \in Conns |-> 0]
    /\ queue = [w \in Workers |-> <<>>]
    /\ running = [w \in Workers |-> None]
    /\ tasks = [w \in Workers |-> <<>>]
    /\ highest = [w \in Workers |-> 0]
    /\ due = [w \in Workers |-> 0]

----------------------------------------------------------------------------
(* The acceptor and the clients.                                             *)

\* A client connects: start() is posted to the worker that was picked when the
\* connection was made, and do_accept makes the next one.
Accept ==
    /\ next # None
    /\ open' = [open EXCEPT ![next] = TRUE]
    /\ queue' = [queue EXCEPT ![home[next]] = Append(@, next)]
    /\ \/ \E d \in Conns :
            /\ state[d] = "unmade"
            /\ state' = [state EXCEPT ![next] = "start", ![d] = "accepting"]
            /\ home' = [home EXCEPT ![d] = Picked]
            /\ next' = d
       \/ /\ \A d \in Conns : state[d] # "unmade"
          /\ state' = [state EXCEPT ![next] = "start"]
          /\ next' = None
          /\ UNCHANGED home
    /\ UNCHANGED <<taskId, inbox, got, sent, running, timers>>

ClientSends(c) ==
    /\ open[c] /\ sent[c] < MaxChunks
    /\ \E chunk \in Chunks : inbox' = [inbox EXCEPT ![c] = Append(@, chunk)]
    /\ sent' = [sent EXCEPT ![c] = @ + 1]
    /\ UNCHANGED <<state, home, open, taskId, got, next, queue, running, timers>>

----------------------------------------------------------------------------
(* The task_timer.                                                           *)

Without(t, ids) == [i \in DOMAIN t \ ids |-> t[i]]

\* Mutants: the deadline before it is not cancelled; a callback too many; ids
\* that start again although tasks are left.
StartDeadlineOnly(w, c) ==
    /\ highest' = [highest EXCEPT ![w] = @ + 1]
    /\ tasks' = [tasks EXCEPT ![w] =
            [i \in DOMAIN @ \cup {highest'[w]} |-> IF i = highest'[w] THEN c ELSE @[i]]]
    /\ taskId' = [taskId EXCEPT ![c] = highest'[w]]
    /\ UNCHANGED due

DoReadTwice(w, c, left, rest) ==
    /\ state' = [state EXCEPT ![c] = "got"]
    /\ queue' = [queue EXCEPT ![w] = rest \o <<c, c>>]
    /\ got' = [got EXCEPT ![c] = "part"]
    /\ inbox' = [inbox EXCEPT ![c] = left]

AlwaysAgain(ids, n) == 0

\* cancel(task_id_), then schedule a task that closes the socket.
StartDeadline(w, c) ==
    /\ highest' = [highest EXCEPT ![w] = @ + 1]
    /\ tasks' = [tasks EXCEPT ![w] =
            [i \in (DOMAIN @ \ {taskId[c]}) \cup {highest'[w]} |->
                IF i = highest'[w] THEN c ELSE @[i]]]
    /\ taskId' = [taskId EXCEPT ![c] = highest'[w]]
    /\ UNCHANGED due

CancelDeadline(w, c) ==
    /\ tasks' = [tasks EXCEPT ![w] = Without(@, {taskId[c]})]
    /\ UNCHANGED <<taskId, highest, due>>

\* Time passes: of the deadlines of a worker, set one after the other, the
\* oldest are due.
Elapse(w) ==
    /\ \E i \in DOMAIN tasks[w] : i > due[w] /\ due' = [due EXCEPT ![w] = i]
    /\ UNCHANGED <<conns, next, queue, running, tasks, highest>>

----------------------------------------------------------------------------
(* A worker: io_context::run.                                                *)

\* Mutant: an io_context that a second thread runs.
NeverBusy(w) == TRUE

Idle(w) == running[w] = None

HasData(w) == {c \in Conns : home[c] = w /\ state[c] = "reading" /\ inbox[c] # <<>>}

\* The reactor, which runs between any two callbacks, queues the connections
\* with data in any order and after them the timer, when its second is over.
Poll(w) ==
    /\ Idle(w)
    /\ \E s \in SetToSeqs(HasData(w)), timer \in {<<>>, <<Tick>>} :
        /\ Contains(queue[w], Tick) => timer = <<>>
        /\ s \o timer # <<>>
        /\ queue' = [queue EXCEPT ![w] = @ \o s \o timer]
    /\ state' = [c \in Conns |-> IF c \in HasData(w) THEN "ready" ELSE state[c]]
    /\ UNCHANGED <<home, open, taskId, inbox, got, sent, next, running, timers>>

\* async_read_some reads at once what is there; left is what is still unread.
DoRead(w, c, left, rest) ==
    IF left = <<>>
    THEN /\ state' = [state EXCEPT ![c] = "reading"]
         /\ queue' = [queue EXCEPT ![w] = rest]
         /\ inbox' = [inbox EXCEPT ![c] = left]
         /\ got' = [got EXCEPT ![c] = "end"]
    ELSE /\ state' = [state EXCEPT ![c] = "got"]
         /\ queue' = [queue EXCEPT ![w] = Append(rest, c)]
         /\ got' = [got EXCEPT ![c] = Head(left)]
         /\ inbox' = [inbox EXCEPT ![c] = Tail(left)]

ReadOn(w, c, left, rest) ==
    /\ StartDeadline(w, c)
    /\ DoRead(w, c, left, rest)
    /\ UNCHANGED open

\* The socket is closed and nothing holds the connection any longer.
Destroy(w, c, rest) ==
    /\ CancelDeadline(w, c)
    /\ state' = [state EXCEPT ![c] = "gone"]
    /\ open' = [open EXCEPT ![c] = FALSE]
    /\ queue' = [queue EXCEPT ![w] = rest]
    /\ inbox' = [inbox EXCEPT ![c] = <<>>]
    /\ got' = [got EXCEPT ![c] = "end"]

\* handle() asks for the remote endpoint, which throws when the socket has been
\* closed: the exception ends the callback, and the worker's loop goes on.
HasEndpoint(c) == open[c]

Handle(w, c, chunk, left, rest) ==
    /\ CancelDeadline(w, c)
    /\ state' = [state EXCEPT ![c] = "handling"]
    /\ got' = [got EXCEPT ![c] = chunk]
    /\ inbox' = [inbox EXCEPT ![c] = left]
    /\ queue' = [queue EXCEPT ![w] = rest]
    /\ UNCHANGED open

\* The callback of do_read, given a chunk, or "end" for an error.
Callback(w, c, chunk, left, rest) ==
    \/ /\ chunk = "end" \/ (chunk = "part" /\ ~open[c])
                        \/ (chunk \in Complete /\ ~HasEndpoint(c))
       /\ Destroy(w, c, rest)
       /\ UNCHANGED running
    \/ /\ chunk = "part" /\ open[c]
       /\ ReadOn(w, c, left, rest)
       /\ UNCHANGED running
    \/ /\ chunk \in Complete /\ HasEndpoint(c)
       /\ Handle(w, c, chunk, left, rest)
       /\ running' = [running EXCEPT ![w] = c]

RunConnection(w) ==
    /\ Idle(w) /\ queue[w] # <<>> /\ Head(queue[w]) # Tick
    /\ LET c == Head(queue[w])
           rest == Tail(queue[w])
       IN  \/ state[c] = "start" /\ ReadOn(w, c, inbox[c], rest) /\ UNCHANGED running
           \/ state[c] = "abort" /\ Callback(w, c, "end", inbox[c], rest)
           \/ state[c] = "got" /\ Callback(w, c, got[c], inbox[c], rest)
           \/ state[c] = "ready" /\ Callback(w, c, Head(inbox[c]), Tail(inbox[c]), rest)
    /\ UNCHANGED <<home, sent, next>>

\* With no task left the ids start again.
Renewed(ids, n) == IF ids = {} THEN 0 ELSE n

\* The callbacks of q but those of S, in their order: one sequence.
Staying(q, S) ==
    {[k \in DOMAIN p |-> q[p[k]]] :
        p \in {p \in SetToSeqs({i \in DOMAIN q : q[i] \notin S}) :
                  \A i, j \in DOMAIN p : i < j => p[i] < p[j]}}

\* process_tasks: the sockets whose deadline is due are closed, which aborts
\* their reads.
RunTick(w) ==
    /\ Idle(w) /\ queue[w] # <<>> /\ Head(queue[w]) = Tick
    /\ LET fired == {i \in DOMAIN tasks[w] : i <= due[w]}
           cut == {tasks[w][i] : i \in fired}
           aborted == {c \in cut : state[c] \in {"reading", "ready"}}
           left == Without(tasks[w], fired)
       IN  /\ open' = [c \in Conns |-> open[c] /\ c \notin cut]
           /\ state' = [c \in Conns |-> IF c \in aborted THEN "abort" ELSE state[c]]
           /\ \E waiting \in Staying(Tail(queue[w]), aborted), s \in SetToSeqs(aborted) :
                 queue' = [queue EXCEPT ![w] = waiting \o s]
           /\ tasks' = [tasks EXCEPT ![w] = left]
           /\ highest' = [highest EXCEPT ![w] = Renewed(DOMAIN left, @)]
           /\ due' = [due EXCEPT ![w] = Renewed(DOMAIN left, @)]
    /\ UNCHANGED <<home, taskId, inbox, got, sent, next, running>>

\* Mutant: a handler after which nothing is read again.
EndHandlerOnly(w) ==
    /\ running[w] # None
    /\ running' = [running EXCEPT ![w] = None]
    /\ UNCHANGED <<conns, next, queue, timers>>

\* The handler returns, the response is written, and the callback that called
\* it goes on: the connection is read again, or dropped after its last request.
EndHandler(w) ==
    /\ running[w] # None
    /\ LET c == running[w]
       IN  IF got[c] = "last"
           THEN Destroy(w, c, queue[w])
           ELSE ReadOn(w, c, inbox[c], queue[w])
    /\ running' = [running EXCEPT ![w] = None]
    /\ UNCHANGED <<home, sent, next>>

Work(w) == RunConnection(w) \/ RunTick(w)

Next ==
    \/ Accept
    \/ \E c \in Conns : ClientSends(c)
    \/ \E w \in Workers : Elapse(w) \/ Poll(w) \/ Work(w) \/ EndHandler(w)

Spec == Init /\ [][Next]_vars

\* The io_contexts run.  Nothing says that a handler returns.
Fairness == \A w \in Workers :
    WF_vars(Work(w)) /\ WF_vars(HasData(w) # {} /\ Poll(w))

FairSpec == Spec /\ Fairness

----------------------------------------------------------------------------
(* Properties.                                                               *)

\* Type invariant of the server.
TypeOK ==
    /\ state \in [Conns -> States] /\ home \in [Conns -> Workers]
    /\ open \in [Conns -> BOOLEAN] /\ taskId \in [Conns -> Nat]
    /\ inbox \in [Conns -> Seq(Chunks)] /\ got \in [Conns -> Chunks]
    /\ sent \in [Conns -> 0..MaxChunks] /\ next \in Conns \cup {None}
    /\ queue \in [Workers -> Seq(Conns \cup {Tick})]
    /\ running \in [Workers -> Conns \cup {None}]
    /\ \A w \in Workers : /\ DOMAIN tasks[w] \subseteq 1..highest[w]
                          /\ \A i \in DOMAIN tasks[w] : tasks[w][i] \in Conns
    /\ highest \in [Workers -> Nat] /\ due \in [Workers -> Nat]

\* Every connection has exactly one thing that will go on with it: one callback
\* in the queue of its worker, a pending read, a handler, or the acceptor.
OneContinuation ==
    \A c \in Conns :
        /\ \A w \in Workers :
              Cardinality({i \in DOMAIN queue[w] : queue[w][i] = c})
                = (IF home[c] = w /\ state[c] \in Queued THEN 1 ELSE 0)
        /\ (state[c] = "handling") <=> (running[home[c]] = c)
        /\ (state[c] = "accepting") <=> (next = c)

\* A deadline belongs to the connection that set it last: its id is that
\* connection's task_id_ on the timer of its worker, so no connection has two
\* and none that is destroyed has one, although ids are given out again.
DeadlineHasOwner ==
    \A w \in Workers : \A i \in DOMAIN tasks[w] :
        LET c == tasks[w][i]
        IN  home[c] = w /\ taskId[c] = i /\ state[c] \notin {"gone", "handling"}

HasRequest(c) ==
    \/ state[c] = "got" /\ got[c] \in Complete
    \/ \E i \in DOMAIN inbox[c] : inbox[c][i] \in Complete

\* A request that is there is handled, or its connection goes, unless a handler
\* of the same worker hangs: whatever the other workers do is no matter.
RequestTaken ==
    \A c \in Conns : (state[c] # "unmade" /\ HasRequest(c)) ~>
        (~HasRequest(c) \/ [](running[home[c]] # None))

\* The handlers of main.cpp get what WorkerPool promises: one handler at a time
\* on every worker, and a connection never moves to another one.
Pool == INSTANCE WorkerPool WITH Jobs <- Conns
ImplementsWorkerPool == Pool!Spec

\* app.h:336 "Set the connection timeout in seconds (default is 5)": a
\* connection that is waited on has a deadline.
WaitingHasDeadline ==
    \A c \in Conns : state[c] = "reading" =>
        \E i \in DOMAIN tasks[home[c]] : tasks[home[c]][i] = c
=============================================================================
