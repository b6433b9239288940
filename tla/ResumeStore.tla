----------------------------- MODULE ResumeStore -----------------------------
(* What POST /upload promises its callers, without clocks, threads, child    *)
(* processes or restarts: a shelf of extracted texts that only grows, every  *)
(* text under an id of its own, and one outcome per call.  A call that is    *)
(* told an id finds the text of its own resume under that id.                *)
CONSTANT Calls  \* the POST /upload calls

VARIABLES
    texts,      \* extracted/: records [id, of]: whose text it is
    outcome     \* per call: [kind, ids], ids holds the id that was published

vars == <<texts, outcome>>

Pending == [kind |-> "pending", ids |-> {}]
Refused == [kind |-> "refused", ids |-> {}]
Published(i) == [kind |-> "published", ids |-> {i}]

Init ==
    /\ texts = {}
    /\ outcome = [c \in Calls |-> Pending]

\* The text of a resume goes on the shelf, once, under an id nobody used.
Deposit ==
    /\ \E f \in texts' :
          /\ f.of \in Calls
          /\ \A g \in texts : g.id # f.id /\ g.of # f.of
          /\ texts' = texts \cup {f}
    /\ UNCHANGED outcome

\* Only the owner of a text is told its id.
Publish(c) ==
    /\ outcome[c] = Pending
    /\ \E f \in texts :
          /\ f.of = c
          /\ outcome' = [outcome EXCEPT ![c] = Published(f.id)]
    /\ UNCHANGED texts

Refuse(c) ==
    /\ outcome[c] = Pending
    /\ outcome' = [outcome EXCEPT ![c] = Refused]
    /\ UNCHANGED texts

Next ==
    \/ Deposit
    \/ \E c \in Calls : Publish(c) \/ Refuse(c)

Spec == Init /\ [][Next]_vars
=============================================================================
