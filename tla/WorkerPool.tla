----------------------------- MODULE WorkerPool -----------------------------
(* What the handlers of main.cpp may rely on: every job has one worker, and a *)
(* worker runs one handler at a time, from its beginning to its end.          *)
CONSTANTS
    Jobs,       \* connections, or the calls that come on them
    Workers,    \* the worker threads
    None        \* no job

VARIABLES
    home,       \* the worker of each job
    running     \* the job whose handler each worker runs

vars == <<home, running>>

Init ==
    /\ home \in [Jobs -> Workers]
    /\ running = [w \in Workers |-> None]

\* A job is given to a worker before it runs, and only then.
Place(j) ==
    /\ \A w \in Workers : running[w] # j
    /\ \E w \in Workers : home' = [home EXCEPT ![j] = w]
    /\ UNCHANGED running

Begin(j) ==
    /\ running[home[j]] = None
    /\ running' = [running EXCEPT ![home[j]] = j]
    /\ UNCHANGED home

End(j) ==
    /\ running[home[j]] = j
    /\ running' = [running EXCEPT ![home[j]] = None]
    /\ UNCHANGED home

\* The process dies.
Die ==
    /\ running' = [w \in Workers |-> None]
    /\ UNCHANGED home

Next == Die \/ \E j \in Jobs : Place(j) \/ Begin(j) \/ End(j)

Spec == Init /\ [][Next]_vars
=============================================================================
